------------------------- MODULE RateLimiterProofs -------------------------
(***************************************************************************)
(* Theorems about RateLimiter, for any number of requests, addresses and   *)
(* users, any tiers' policies, any bound of the map and any idle time.     *)
(*                                                                         *)
(* What was granted from a bucket and what it still holds are together     *)
(* never more than its rate: the bucket accounts for both while it exists, *)
(* the time it was forgotten at once it is gone.  Every use of a bucket    *)
(* adds to its time, or to the seconds it was set back by, so the two      *)
(* together only grow: by what the bucket is refilled for, and no less.    *)
(* The products are of variables and of the constants of a policy, so each *)
(* step of arithmetic is a lemma about numbers.                            *)
(***************************************************************************)
EXTENDS RateLimiter, FiniteSetTheorems, SequenceTheorems, TLAPS

\* The list holds the keys of the map, each once, and the map is bounded.
Listed ==
    /\ lru \in Seq(Key) /\ IsInjective(lru) /\ Keys(lru) = DOMAIN entries
    /\ Len(lru) <= MaxEntries

IsBucket(e, tier) == e \in Entry /\ e.tokens <= Capacity(tier)

Typed ==
    /\ clock \in Time /\ answer \in Nat
    /\ DOMAIN entries \subseteq Key
    /\ \A k \in DOMAIN entries : IsBucket(entries[k], k[1])
    /\ DOMAIN overflow \subseteq Tier
    /\ \A t \in DOMAIN overflow : IsBucket(overflow[t], t)
    /\ DOMAIN req \subseteq Request /\ \A r \in DOMAIN req : req[r] \in Locals
    /\ granted \in [Bucket -> Nat] /\ touched \in [Bucket -> Time]
    /\ rewound \in [Bucket -> Nat] /\ promised \in [Key -> Nat]

\* Every time that is noted was read from the clock, and a bucket carries the
\* time it was last used at.
Stamps ==
    /\ \A r \in DOMAIN req : req[r].now <= clock
    /\ \A b \in Bucket : touched[b] <= clock
    /\ \A k \in DOMAIN entries :
          entries[k].updatedAt = touched[k] /\ entries[k].lastSeen = touched[k]
    /\ \A t \in DOMAIN overflow : overflow[t].updatedAt = touched[Shared(t)]

\* The seconds a bucket was refilled for, those it was set back by twice.
Seen(b) == touched[b] + rewound[b]

\* What was granted from a client's own bucket is accounted for by the bucket,
\* or by the time it was forgotten at.
Accounted(k) ==
    ForgetsOnlyFull(k[1]) =>
        IF k \in DOMAIN entries
        THEN granted[k] * Cost(k[1]) + entries[k].tokens
                 <= Capacity(k[1]) + Seen(k) * Fill(k[1])
        ELSE granted[k] * Cost(k[1]) <= Seen(k) * Fill(k[1])

\* The shared bucket of a tier is never forgotten, and accounts for its own.
SharedAccounted(t) ==
    IF t \in DOMAIN overflow
    THEN granted[Shared(t)] * Cost(t) + overflow[t].tokens
             <= Capacity(t) + Seen(Shared(t)) * Fill(t)
    ELSE granted[Shared(t)] = 0

\* At the time a refusal has named, the bucket holds a token.
WillHold(k) ==
    k \in DOMAIN entries /\ promised[k] # Never =>
        entries[k].tokens + (promised[k] - touched[k]) * Fill(k[1]) >= Cost(k[1])

IInv ==
    /\ Typed /\ Listed /\ Stamps
    /\ \A k \in Key : Accounted(k) /\ WillHold(k)
    /\ \A t \in Tier : SharedAccounted(t)
-----------------------------------------------------------------------------
(* Numbers *)

LEMMA TimesGrows ==
    ASSUME NEW a \in Nat, NEW b \in Nat, NEW c \in Nat, a <= b
    PROVE  a * c <= b * c
OBVIOUS

LEMMA QuotientRoundsUp ==
    ASSUME NEW m \in Nat, NEW s \in Nat \ {0}
    PROVE  /\ (m + s - 1) \div s \in Nat
           /\ ((m + s - 1) \div s) * s >= m
<1> DEFINE d == m + s - 1
<1>1. d \in Nat OBVIOUS
<1> HIDE DEF d
<1>2. d \div s \in Nat /\ d < (d \div s) * s + s
  BY <1>1
<1> QED BY <1>1, <1>2 DEF d

\* What a bucket gains in the time that has passed was owed to it.
LEMMA GainIsOwed ==
    ASSUME NEW g \in Nat, NEW tok \in Nat, NEW cap \in Nat, NEW f \in Nat,
           NEW u \in Nat, NEW n \in Nat, u <= n,
           g + tok <= cap + u * f
    PROVE  g + (tok + (n - u) * f) <= cap + n * f
<1>1. (n - u) * f = n * f - u * f OBVIOUS
<1>2. u * f \in Nat /\ n * f \in Nat OBVIOUS
<1> QED BY <1>1, <1>2

\* A bucket that has been idle for long enough owes nothing any more.
LEMMA IdleIsPaid ==
    ASSUME NEW g \in Nat, NEW tok \in Nat, NEW cap \in Nat, NEW f \in Nat,
           NEW u \in Nat, NEW n \in Nat, NEW ttl \in Nat, n - u >= ttl,
           g + tok <= cap + u * f, ttl * f >= cap
    PROVE  g <= n * f
<1>1. n - u \in Nat BY n - u >= ttl
<1>2. ttl * f <= (n - u) * f BY <1>1, TimesGrows
<1>3. (n - u) * f = n * f - u * f OBVIOUS
<1>4. u * f \in Nat /\ n * f \in Nat /\ ttl * f \in Nat OBVIOUS
<1> QED BY <1>2, <1>3, <1>4

LEMMA OneMore ==
    ASSUME NEW g \in Nat, NEW c \in Nat
    PROVE  (g + 1) * c = g * c + c /\ g * c \in Nat
OBVIOUS

\* Time that runs backwards takes nothing, and brings the due time no nearer.
LEMMA DueStays ==
    ASSUME NEW tok \in Nat, NEW f \in Nat, NEW c \in Nat, NEW p \in Nat,
           NEW u \in Nat, NEW n \in Nat, NEW d \in Nat,
           d = IF n < u THEN 0 ELSE n - u,
           tok + (p - u) * f >= c
    PROVE  (tok + d * f) + (p - n) * f >= c
<1>1. CASE n < u
  <2>1. (p - u) * f <= (p - n) * f
    <3>1. (p - n) * f = (p - u) * f + (u - n) * f OBVIOUS
    <3>2. (u - n) * f \in Nat BY <1>1
    <3>3. (p - u) * f \in Int /\ (p - n) * f \in Int OBVIOUS
    <3> QED BY <3>1, <3>2, <3>3
  <2>2. d * f = 0 BY <1>1
  <2>3. (p - u) * f \in Int /\ (p - n) * f \in Int OBVIOUS
  <2> QED BY <2>1, <2>2, <2>3
<1>2. CASE ~(n < u)
  <2>1. d = n - u BY <1>2
  <2>2. (p - u) * f = (n - u) * f + (p - n) * f OBVIOUS
  <2>3. (n - u) * f \in Int /\ (p - n) * f \in Int OBVIOUS
  <2> QED BY <2>1, <2>2, <2>3
<1> QED BY <1>1, <1>2

LEMMA DueIsEnough ==
    ASSUME NEW full \in Nat, NEW f \in Nat, NEW c \in Nat, NEW p \in Nat, NEW n \in Nat,
           full + (p - n) * f >= c, p <= n
    PROVE  full >= c
<1>1. (n - p) * f \in Nat OBVIOUS
<1>2. (p - n) * f = 0 - (n - p) * f OBVIOUS
<1> QED BY <1>1, <1>2

-----------------------------------------------------------------------------
(* Policies *)

LEMMA KeyShape ==
    ASSUME NEW k \in Key
    PROVE  k[1] \in Tier
BY NamesOK DEF Key, Routes, Tier, ClassifyRateTier

LEMMA BucketShape ==
    /\ Key \subseteq Bucket /\ \A b \in Bucket : b[1] \in Tier
    /\ \A t \in Tier : Shared(t) \in Bucket \ Key /\ Shared(t)[1] = t
    /\ \A t, u \in Tier : Shared(t) = Shared(u) => t = u
<1>1. \A t \in Tier : Shared(t) \notin Key BY NamesOK DEF Key, Shared
<1> QED BY <1>1, KeyShape DEF Bucket, Shared

LEMMA PolicyShape ==
    ASSUME NEW t \in Tier
    PROVE  /\ Cost(t) \in Nat \ {0} /\ Fill(t) \in Nat \ {0} /\ Capacity(t) \in Nat
           /\ Cost(t) <= Capacity(t)
<1>1. /\ Policy[t].burst \in Nat \ {0} /\ Policy[t].window \in Nat \ {0}
      /\ Policy[t].requests \in Nat \ {0}
  BY ConfigOK
<1>2. 1 * Policy[t].window <= Policy[t].burst * Policy[t].window
  BY <1>1, TimesGrows
<1> QED BY <1>1, <1>2 DEF Cost, Fill, Capacity

-----------------------------------------------------------------------------
(* The list *)

LEMMA CountTo ==
    ASSUME NEW n \in Nat
    PROVE  IsFiniteSet(1 .. n) /\ Cardinality(1 .. n) = n
<1>1. Cardinality(1 .. n) = IF 1 > n THEN 0 ELSE n - 1 + 1 BY FS_Interval
<1> QED BY <1>1, FS_Interval

LEMMA RestOfSeq ==
    ASSUME NEW S, NEW s \in Seq(S), NEW n \in 0 .. Len(s)
    PROVE  LET u == SubSeq(s, n + 1, Len(s)) IN
           /\ u \in Seq(S) /\ Len(u) = Len(s) - n
           /\ \A i \in 1 .. Len(u) : u[i] = s[i + n]
<1>1. Len(s) \in Nat /\ \A i \in 1 .. Len(s) : s[i] \in S
  BY LenProperties
<1>2. \A i \in n + 1 .. Len(s) : s[i] \in S BY <1>1
<1> DEFINE u == SubSeq(s, n + 1, Len(s))
<1>3. /\ u \in Seq(S)
      /\ Len(u) = IF n + 1 <= Len(s) THEN Len(s) - (n + 1) + 1 ELSE 0
      /\ \A i \in 1 .. Len(s) - (n + 1) + 1 : u[i] = s[n + 1 + i - 1]
  BY <1>1, <1>2, SubSeqProperties
<1> HIDE DEF u
<1>4. \A i \in 1 .. Len(u) : n + 1 + i - 1 = i + n BY <1>1, <1>3
<1>5. Len(u) = Len(s) - n BY <1>1, <1>3
<1> QED BY <1>1, <1>3, <1>4, <1>5 DEF u

LEMMA WithoutOne ==
    ASSUME NEW S, NEW s \in Seq(S), NEW j \in 1 .. Len(s)
    PROVE  LET t == RemoveAt(s, j) IN
           /\ t \in Seq(S) /\ Len(t) = Len(s) - 1
           /\ \A i \in 1 .. Len(t) : t[i] = IF i < j THEN s[i] ELSE s[i + 1]
<1>1. Len(s) \in Nat /\ \A i \in 1 .. Len(s) : s[i] \in S
  BY LenProperties
<1> DEFINE a == SubSeq(s, 1, j - 1)
           b == SubSeq(s, j + 1, Len(s))
           t == a \o b
<1>2. a \in Seq(S) /\ Len(a) = j - 1 /\ \A i \in 1 .. j - 1 : a[i] = s[i]
  <2>1. \A i \in 1 .. j - 1 : s[i] \in S BY <1>1
  <2>2. /\ a \in Seq(S) /\ Len(a) = IF 1 <= j - 1 THEN j - 1 - 1 + 1 ELSE 0
        /\ \A i \in 1 .. j - 1 - 1 + 1 : a[i] = s[1 + i - 1]
    BY <1>1, <2>1, SubSeqProperties
  <2> HIDE DEF a
  <2> QED BY <1>1, <2>2
<1>3. b \in Seq(S) /\ Len(b) = Len(s) - j /\ \A i \in 1 .. Len(b) : b[i] = s[i + j]
  BY <1>1, RestOfSeq
<1> HIDE DEF a, b
<1>4. /\ t \in Seq(S) /\ Len(t) = Len(a) + Len(b)
      /\ \A i \in 1 .. Len(a) + Len(b) : t[i] = IF i <= Len(a) THEN a[i] ELSE b[i - Len(a)]
  BY <1>2, <1>3, ConcatProperties
<1> HIDE DEF t
<1>5. Len(t) = Len(s) - 1 BY <1>1, <1>2, <1>3, <1>4
<1>6. ASSUME NEW i \in 1 .. Len(t) PROVE t[i] = IF i < j THEN s[i] ELSE s[i + 1]
  <2>1. CASE i < j BY <1>1, <1>2, <1>3, <1>4, <1>5, <2>1
  <2>2. CASE ~(i < j)
    <3>1. t[i] = b[i - Len(a)] BY <1>1, <1>2, <1>3, <1>4, <1>5, <2>2
    <3>2. i - Len(a) \in 1 .. Len(b) /\ (i - Len(a)) + j = i + 1
      BY <1>1, <1>2, <1>3, <1>5, <2>2
    <3> QED BY <1>3, <2>2, <3>1, <3>2
  <2> QED BY <2>1, <2>2
<1>7. RemoveAt(s, j) = t BY DEF RemoveAt, t, a, b
<1> QED BY <1>4, <1>5, <1>6, <1>7

LEMMA DistinctCount ==
    ASSUME NEW S, NEW s \in Seq(S), IsInjective(s)
    PROVE  IsFiniteSet(Keys(s)) /\ Cardinality(Keys(s)) = Len(s)
<1>1. Len(s) \in Nat /\ DOMAIN s = 1 .. Len(s) BY LenProperties
<1>2. s \in Bijection(1 .. Len(s), Keys(s))
  <2>1. s \in [1 .. Len(s) -> Keys(s)] BY <1>1 DEF Keys, ToSet
  <2> QED BY <1>1, <2>1 DEF Bijection, Injection, Surjection, IsInjective, Keys, ToSet
<1>3. IsFiniteSet(1 .. Len(s)) /\ Cardinality(1 .. Len(s)) = Len(s)
  BY <1>1, FS_Interval
<1> QED BY <1>1, <1>2, <1>3, FS_Bijection DEF ExistsBijection

\* How far the idle keys reach at the front of the list: the first that is not
\* idle ends them, and CHOOSE has something to choose.
LEMMA IdleFront ==
    ASSUME Listed, NEW now
    PROVE  \E n \in 0 .. Len(lru) :
               /\ \A i \in 1 .. n : IdleFor(lru[i], now)
               /\ n < Len(lru) => ~IdleFor(lru[n + 1], now)
<1> DEFINE T == {i \in 1 .. Len(lru) : \A j \in 1 .. i : IdleFor(lru[j], now)}
           n == Cardinality(T)
<1>1. Len(lru) \in Nat BY LenProperties DEF Listed
<1>2. /\ IsFiniteSet(1 .. Len(lru)) /\ Cardinality(1 .. Len(lru)) = Len(lru)
  BY <1>1, CountTo
<1>3. T \in SUBSET (1 .. Len(lru)) OBVIOUS
<1>4. IsFiniteSet(T) /\ n <= Len(lru) BY <1>2, <1>3, FS_Subset
<1>5. n \in Nat BY <1>4, FS_CardinalityType
<1>6. ASSUME NEW i \in T PROVE i <= n
  <2>1. 1 .. i \in SUBSET T BY <1>1, <1>6
  <2>2. Cardinality(1 .. i) = i BY <1>6, FS_Interval
  <2> QED BY <1>4, <2>1, <2>2, FS_Subset
<1>7. T = 1 .. n
  <2>1. T \in SUBSET (1 .. n) BY <1>1, <1>5, <1>6
  <2>2. IsFiniteSet(1 .. n) /\ Cardinality(1 .. n) = n BY <1>5, FS_Interval
  <2> HIDE DEF T
  <2> QED BY <2>1, <2>2, FS_Subset
<1> HIDE DEF n
<1>8. \A i \in 1 .. n : IdleFor(lru[i], now) BY <1>5, <1>7
<1>9. ASSUME n < Len(lru) PROVE ~IdleFor(lru[n + 1], now)
  <2>1. n + 1 \in 1 .. Len(lru) /\ n + 1 \notin 1 .. n BY <1>1, <1>5, <1>9
  <2>2. PICK j \in 1 .. n + 1 : ~IdleFor(lru[j], now) BY <1>7, <2>1
  <2>3. j = n + 1 BY <1>5, <1>8, <2>2
  <2> QED BY <2>2, <2>3
<1> QED BY <1>1, <1>4, <1>5, <1>8, <1>9

\* What pruneIdle leaves in the list, and what it has taken away.
LEMMA UnprunedShape ==
    ASSUME Listed, NEW now
    PROVE  /\ Unpruned(now) \in Seq(Key) /\ IsInjective(Unpruned(now))
           /\ Keys(Unpruned(now)) \subseteq DOMAIN entries
           /\ Len(Unpruned(now)) \in Nat /\ Len(Unpruned(now)) <= MaxEntries
           /\ \A k \in DOMAIN entries \ Keys(Unpruned(now)) : IdleFor(k, now)
<1> DEFINE IsFront(n) == /\ \A i \in 1 .. n : IdleFor(lru[i], now)
                         /\ n < Len(lru) => ~IdleFor(lru[n + 1], now)
           n == CHOOSE n \in 0 .. Len(lru) : IsFront(n)
           s == SubSeq(lru, n + 1, Len(lru))
<1>1. n \in 0 .. Len(lru) /\ \A i \in 1 .. n : IdleFor(lru[i], now)
  <2>1. \E m \in 0 .. Len(lru) : IsFront(m) BY IdleFront
  <2>2. n \in 0 .. Len(lru) /\ IsFront(n) BY <2>1
  <2> QED BY <2>2
<1>2. Unpruned(now) = s BY DEF Unpruned
<1> HIDE DEF n
<1>3. lru \in Seq(Key) /\ Len(lru) \in Nat /\ DOMAIN lru = 1 .. Len(lru)
  BY LenProperties DEF Listed
<1>4. /\ s \in Seq(Key) /\ Len(s) = Len(lru) - n /\ DOMAIN s = 1 .. Len(s)
      /\ \A i \in 1 .. Len(s) : s[i] = lru[i + n]
  <2>1. /\ s \in Seq(Key) /\ Len(s) = Len(lru) - n
        /\ \A i \in 1 .. Len(s) : s[i] = lru[i + n]
    BY <1>1, <1>3, RestOfSeq
  <2> HIDE DEF s
  <2> QED BY <2>1, LenProperties
<1> HIDE DEF s
<1>5. IsInjective(s)
  <2>1. \A i \in 1 .. Len(s) : i + n \in 1 .. Len(lru) BY <1>1, <1>3, <1>4
  <2>2. ASSUME NEW i \in 1 .. Len(s), NEW j \in 1 .. Len(s), s[i] = s[j] PROVE i = j
    <3>1. lru[i + n] = lru[j + n] BY <1>4, <2>2
    <3>2. i + n = j + n BY <1>3, <2>1, <3>1 DEF IsInjective, Listed
    <3> QED BY <1>1, <1>3, <1>4, <3>2
  <2> QED BY <1>4, <2>2 DEF IsInjective
<1>6. Keys(s) \subseteq DOMAIN entries
  <2>1. \A i \in 1 .. Len(s) : i + n \in DOMAIN lru BY <1>1, <1>3, <1>4
  <2> QED BY <1>4, <2>1 DEF Keys, ToSet, Listed
<1>7. Len(s) \in Nat /\ Len(s) <= MaxEntries
  BY <1>1, <1>3, <1>4, ConfigOK DEF Listed
<1>8. ASSUME NEW k \in DOMAIN entries \ Keys(s) PROVE IdleFor(k, now)
  <2>1. PICK j \in 1 .. Len(lru) : lru[j] = k BY <1>3 DEF Listed, Keys, ToSet
  <2>2. CASE j <= n BY <1>1, <2>1, <2>2
  <2>3. CASE j > n
    <3>1. j - n \in 1 .. Len(s) /\ s[j - n] = k BY <1>1, <1>3, <1>4, <2>1, <2>3
    <3> QED BY <1>4, <3>1 DEF Keys, ToSet
  <2> QED BY <1>1, <2>1, <2>2, <2>3
<1> QED BY <1>2, <1>4, <1>5, <1>6, <1>7, <1>8

\* MoveToBack, or PushBack of a key that is new.
LEMMA MovedToBack ==
    ASSUME NEW s \in Seq(Key), IsInjective(s), NEW k \in Key
    PROVE  LET m == Append(RemoveFirst(s, k), k) IN
           /\ m \in Seq(Key) /\ IsInjective(m) /\ Keys(m) = Keys(s) \cup {k}
           /\ Len(m) = IF k \in Keys(s) THEN Len(s) ELSE Len(s) + 1
<1> DEFINE m == Append(RemoveFirst(s, k), k)
<1>1. Len(s) \in Nat /\ DOMAIN s = 1 .. Len(s) BY LenProperties
<1>2. CASE k \notin Keys(s)
  <2>1. RemoveFirst(s, k) = s BY <1>1, <1>2 DEF RemoveFirst, Keys, ToSet
  <2>2. /\ m \in Seq(Key) /\ Len(m) = Len(s) + 1 /\ DOMAIN m = 1 .. Len(m)
        /\ \A i \in 1 .. Len(s) : m[i] = s[i]
        /\ m[Len(s) + 1] = k
    BY <1>1, <2>1
  <2> HIDE DEF m
  <2>3. IsInjective(m)
    BY <1>1, <1>2, <2>2 DEF IsInjective, Keys, ToSet
  <2>4. Keys(m) = Keys(s) \cup {k}
    BY <1>1, <2>2 DEF Keys, ToSet
  <2> QED BY <1>2, <2>2, <2>3, <2>4 DEF m
<1>3. CASE k \in Keys(s)
  <2>1. PICK j \in 1 .. Len(s) : s[j] = k BY <1>1, <1>3 DEF Keys, ToSet
  <2>2. {i \in 1 .. Len(s) : s[i] = k} = {j}
    BY <1>1, <2>1 DEF IsInjective
  <2>3. RemoveFirst(s, k) = RemoveAt(s, j)
    <3>1. SelectInSeq(s, LAMBDA v : v = k) = j
      BY <2>2 DEF SelectInSeq, Min
    <3> QED BY <2>1, <3>1 DEF RemoveFirst
  <2> DEFINE t == RemoveAt(s, j)
  <2>4. /\ t \in Seq(Key) /\ Len(t) = Len(s) - 1
        /\ \A i \in 1 .. Len(t) : t[i] = IF i < j THEN s[i] ELSE s[i + 1]
    BY <2>1, WithoutOne
  <2>5. m = Append(t, k) BY <2>3
  <2> HIDE DEF t, m
  <2>6. /\ m \in Seq(Key) /\ Len(m) = Len(s) /\ DOMAIN m = 1 .. Len(m)
        /\ \A i \in 1 .. Len(s) - 1 : m[i] = IF i < j THEN s[i] ELSE s[i + 1]
        /\ m[Len(s)] = k
    <3>1. /\ m \in Seq(Key) /\ Len(m) = Len(t) + 1 /\ m[Len(t) + 1] = k
          /\ \A i \in 1 .. Len(t) : m[i] = t[i]
      BY <2>4, <2>5, AppendProperties
    <3> QED BY <1>1, <2>1, <2>4, <3>1, LenProperties
  <2>7. IsInjective(m)
    <3> SUFFICES ASSUME NEW i \in 1 .. Len(s), NEW l \in 1 .. Len(s), i < l
                 PROVE  m[i] # m[l]
      BY <1>1, <2>6 DEF IsInjective
    <3> DEFINE a == IF i < j THEN i ELSE i + 1
               b == IF l < j THEN l ELSE l + 1
    <3>1. i \in 1 .. Len(s) - 1 /\ a \in 1 .. Len(s) /\ m[i] = s[a]
      BY <1>1, <2>1, <2>6
    <3>2. a # j BY <2>1
    <3>3. CASE l = Len(s)
      BY <1>1, <2>1, <2>6, <3>1, <3>2, <3>3 DEF IsInjective
    <3>4. CASE l < Len(s)
      <4>1. l \in 1 .. Len(s) - 1 BY <1>1, <3>4
      <4>2. b \in 1 .. Len(s) /\ m[l] = s[b]
        BY <1>1, <2>1, <2>6, <4>1
      <4>3. a # b BY <1>1, <2>1
      <4> HIDE DEF a, b
      <4>4. s[a] # s[b] BY <1>1, <3>1, <4>2, <4>3 DEF IsInjective
      <4> QED BY <3>1, <4>2, <4>4
    <3>5. \A x \in 1 .. Len(s) : x = Len(s) \/ x < Len(s)
      <4>1. \A n \in Nat : \A x \in 1 .. n : x = n \/ x < n OBVIOUS
      <4> QED BY <1>1, <4>1, Zenon
    <3> QED BY <3>3, <3>4, <3>5
  <2>8. Keys(m) = Keys(s) \cup {k}
    <3>1. Keys(m) \subseteq Keys(s) BY <1>1, <2>1, <2>6 DEF Keys, ToSet
    <3>2. ASSUME NEW i \in 1 .. Len(s) PROVE s[i] \in Keys(m)
      <4>1. CASE i < j
        BY <1>1, <2>1, <2>6, <4>1 DEF Keys, ToSet
      <4>2. CASE i = j
        <5>1. Len(s) \in DOMAIN m BY <1>1, <2>1, <2>6
        <5> QED BY <2>1, <2>6, <4>2, <5>1 DEF Keys, ToSet
      <4>3. CASE i > j
        <5>1. i - 1 \in 1 .. Len(s) - 1 /\ ~(i - 1 < j) /\ (i - 1) + 1 = i
          BY <1>1, <2>1, <4>3
        <5>2. m[i - 1] = s[i] /\ i - 1 \in DOMAIN m BY <1>1, <2>6, <5>1
        <5> QED BY <5>2 DEF Keys, ToSet
      <4> QED BY <2>1, <4>1, <4>2, <4>3
    <3> QED BY <1>1, <1>3, <3>1, <3>2 DEF Keys, ToSet
  <2> QED BY <1>3, <2>6, <2>7, <2>8 DEF m
<1> QED BY <1>2, <1>3
-----------------------------------------------------------------------------
(* One bucket *)

LEMMA NewEntryIsBucket ==
    ASSUME NEW t \in Tier, NEW now \in Time
    PROVE  /\ IsBucket(NewEntry(t, now), t) /\ NewEntry(t, now).tokens = Capacity(t)
           /\ NewEntry(t, now).updatedAt = now
BY PolicyShape DEF IsBucket, NewEntry, Entry

\* The bucket with what it has gained, before a request takes a token.
LEMMA RefilledShape ==
    ASSUME NEW t \in Tier, NEW now \in Time, NEW e, IsBucket(e, t)
    PROVE  LET full == e.tokens + Elapsed(e, now) * Fill(t)
               f == Refilled(e, t, now)
           IN /\ Elapsed(e, now) \in Nat /\ full \in Nat /\ f.tokens \in Nat
              /\ f.tokens = IF full > Capacity(t) THEN Capacity(t) ELSE full
              /\ f.updatedAt = now /\ f.lastSeen = now
              /\ IsBucket(f, t)
<1> DEFINE full == e.tokens + Elapsed(e, now) * Fill(t)
           c == IF full > Capacity(t) THEN Capacity(t) ELSE full
<1>1. /\ e \in [tokens : Nat, updatedAt : Time, lastSeen : Time]
      /\ e.tokens \in Nat /\ e.updatedAt \in Nat /\ now \in Nat
  BY NamesOK DEF IsBucket, Entry, Time
<1>2. Elapsed(e, now) \in Nat BY <1>1 DEF Elapsed
<1>3. full \in Nat BY <1>1, <1>2, PolicyShape
<1>4. c \in Nat /\ c <= Capacity(t) BY <1>3, PolicyShape
<1> HIDE DEF c
<1>5. /\ Stamped(e, now) \in [tokens : Nat, updatedAt : Time, lastSeen : Time]
      /\ Stamped(e, now).updatedAt = now /\ Stamped(e, now).lastSeen = now
  BY <1>1 DEF Stamped
<1>6. Refilled(e, t, now) = [Stamped(e, now) EXCEPT !.tokens = c]
  BY DEF Refilled, c
<1>7. /\ Refilled(e, t, now) \in Entry /\ Refilled(e, t, now).tokens = c
      /\ Refilled(e, t, now).updatedAt = now /\ Refilled(e, t, now).lastSeen = now
  BY <1>4, <1>5, <1>6 DEF Entry
<1> QED BY <1>2, <1>3, <1>4, <1>7 DEF c, IsBucket

LEMMA ConsumedShape ==
    ASSUME NEW t \in Tier, NEW now \in Time, NEW e, IsBucket(e, t)
    PROVE  LET f == Refilled(e, t, now)
               g == Consumed(e, t, now)
           IN /\ IsBucket(g, t) /\ g.updatedAt = now /\ g.lastSeen = now
              /\ g.tokens \in Nat
              /\ g.tokens = IF HasToken(f, t) THEN f.tokens - Cost(t) ELSE f.tokens
<1> DEFINE f == Refilled(e, t, now)
<1>1. f.tokens \in Nat /\ f.updatedAt = now /\ f.lastSeen = now /\ IsBucket(f, t)
  BY RefilledShape
<1>2. f \in [tokens : Nat, updatedAt : Time, lastSeen : Time] /\ f.tokens <= Capacity(t)
  BY <1>1 DEF IsBucket, Entry
<1>3. Consumed(e, t, now) = IF HasToken(f, t) THEN [f EXCEPT !.tokens = @ - Cost(t)] ELSE f
  BY DEF Consumed
<1> HIDE DEF f
<1>4. CASE HasToken(f, t)
  <2>1. f.tokens - Cost(t) \in Nat /\ f.tokens - Cost(t) <= Capacity(t)
    BY <1>1, <1>2, <1>4, PolicyShape DEF HasToken
  <2>2. Consumed(e, t, now) = [f EXCEPT !.tokens = f.tokens - Cost(t)] BY <1>3, <1>4
  <2> QED BY <1>1, <1>2, <1>4, <2>1, <2>2 DEF IsBucket, Entry, f
<1>5. CASE ~HasToken(f, t) BY <1>1, <1>3, <1>5 DEF f
<1> QED BY <1>4, <1>5

\* The token a request takes is counted as granted, and no longer in the bucket.
LEMMA TakenIsCounted ==
    ASSUME NEW t \in Tier, NEW now \in Time, NEW e, IsBucket(e, t),
           NEW g \in Nat, NEW h, NEW n \in Nat,
           h = IF HasToken(Refilled(e, t, now), t) THEN g + 1 ELSE g,
           g * Cost(t) + Refilled(e, t, now).tokens <= Capacity(t) + n * Fill(t)
    PROVE  h * Cost(t) + Consumed(e, t, now).tokens <= Capacity(t) + n * Fill(t)
<1> DEFINE f == Refilled(e, t, now)
           new == Consumed(e, t, now)
<1>1. /\ f.tokens \in Nat /\ new.tokens \in Nat
      /\ new.tokens = IF HasToken(f, t) THEN f.tokens - Cost(t) ELSE f.tokens
  BY RefilledShape, ConsumedShape
<1>2. Cost(t) \in Nat /\ Fill(t) \in Nat /\ Capacity(t) \in Nat BY PolicyShape
<1> HIDE DEF f, new
<1>3. CASE HasToken(f, t)
  <2>1. h * Cost(t) = g * Cost(t) + Cost(t) /\ g * Cost(t) \in Nat
    BY <1>2, <1>3, OneMore DEF f
  <2>2. n * Fill(t) \in Nat BY <1>2
  <2>3. g * Cost(t) + f.tokens <= Capacity(t) + n * Fill(t) BY DEF f
  <2>4. new.tokens = f.tokens - Cost(t) BY <1>1, <1>3
  <2> QED BY <1>1, <1>2, <2>1, <2>2, <2>3, <2>4 DEF new
<1>4. CASE ~HasToken(f, t) BY <1>1, <1>4 DEF f, new
<1> QED BY <1>3, <1>4

\* The Retry-After of a refusal is long enough for the bucket to hold a token.
LEMMA RetryAfterSuffices ==
    ASSUME NEW t \in Tier, NEW e, e.tokens \in Nat
    PROVE  /\ RetryAfter(e, t) \in Nat \/ HasToken(e, t)
           /\ ~HasToken(e, t) => e.tokens + RetryAfter(e, t) * Fill(t) >= Cost(t)
<1> SUFFICES ASSUME ~HasToken(e, t)
             PROVE  /\ RetryAfter(e, t) \in Nat
                    /\ e.tokens + RetryAfter(e, t) * Fill(t) >= Cost(t)
  OBVIOUS
<1> DEFINE m == Cost(t) - e.tokens
           w == (m + Fill(t) - 1) \div Fill(t)
           r == RetryAfter(e, t)
<1>1. Fill(t) \in Nat \ {0} /\ Cost(t) \in Nat BY PolicyShape
<1>2. m \in Nat BY <1>1 DEF HasToken
<1>3. w \in Nat /\ w * Fill(t) >= m
  <2> HIDE DEF m
  <2> QED BY <1>1, <1>2, QuotientRoundsUp
<1>4. r = IF w < 1 THEN 1 ELSE w BY DEF RetryAfter, Seconds
<1> HIDE DEF w, r
<1>5. r \in Nat /\ w <= r BY <1>3, <1>4
<1>6. w * Fill(t) <= r * Fill(t) BY <1>1, <1>3, <1>5, TimesGrows
<1>7. w * Fill(t) \in Nat /\ r * Fill(t) \in Nat BY <1>1, <1>3, <1>5
<1>8. r * Fill(t) >= m BY <1>2, <1>3, <1>6, <1>7
<1> QED BY <1>1, <1>2, <1>5, <1>7, <1>8 DEF r
-----------------------------------------------------------------------------
(* The steps *)

LEMMA InitInv == Init => IInv
<1> SUFFICES ASSUME Init PROVE IInv OBVIOUS
<1> USE DEF Init
<1>1. DOMAIN Empty = {} BY DEF Empty
<1>2. 0 \in Time /\ Never \in Nat BY NamesOK DEF Time, Never
<1>3. Typed BY <1>1, <1>2 DEF Typed
<1>4. Listed BY <1>1, ConfigOK, EmptySeq DEF Listed, IsInjective, Keys, ToSet
<1>5. Stamps BY <1>1 DEF Stamps
<1>6. \A t \in Tier : SharedAccounted(t) BY <1>1, BucketShape DEF SharedAccounted
<1>7. ASSUME NEW k \in Key PROVE Accounted(k) /\ WillHold(k)
  <2>1. k[1] \in Tier BY KeyShape
  <2>2. Cost(k[1]) \in Nat /\ Fill(k[1]) \in Nat BY <2>1, PolicyShape
  <2>3. k \in Bucket BY BucketShape
  <2> QED BY <1>1, <2>2, <2>3 DEF Accounted, WillHold, Seen
<1> QED BY <1>3, <1>4, <1>5, <1>6, <1>7 DEF IInv

LEMMA ArriveInv ==
    ASSUME IInv, NEW r \in Request, Arrive(r)
    PROVE  IInv'
<1>1. PICK route \in Route, address \in Address, user \in User \cup {NoUser} :
         req' = [x \in DOMAIN req \cup {r} |->
                   IF x # r THEN req[x]
                   ELSE [key |-> <<ClassifyRateTier(route),
                                   Identity(ClassifyRateTier(route), address, user)>>,
                         now |-> clock]]
  BY DEF Arrive
<1> DEFINE q == [key |-> <<ClassifyRateTier(route),
                           Identity(ClassifyRateTier(route), address, user)>>,
                 now |-> clock]
<1>2. q \in Locals /\ q.now = clock
  BY DEF Locals, Key, Identity, IInv, Typed
<1> HIDE DEF q
<1>3. /\ DOMAIN req' = DOMAIN req \cup {r}
      /\ \A x \in DOMAIN req' : req'[x] = IF x # r THEN req[x] ELSE q
  BY <1>1 DEF q
<1>4. Typed' BY <1>2, <1>3 DEF Arrive, IInv, Typed, history, IsBucket
<1>5. Stamps' BY <1>2, <1>3, NamesOK DEF Arrive, IInv, Typed, Stamps, history, Time
<1>6. Listed' BY DEF Arrive, IInv, Listed
<1>7. \A k \in Key : Accounted(k)' /\ WillHold(k)'
  BY DEF Arrive, IInv, Accounted, WillHold, Seen, history
<1>8. \A t \in Tier : SharedAccounted(t)'
  BY DEF Arrive, IInv, SharedAccounted, Seen, history
<1> QED BY <1>4, <1>5, <1>6, <1>7, <1>8 DEF IInv

LEMMA TickInv ==
    ASSUME IInv, Tick
    PROVE  IInv'
<1>1. clock' = clock + 1 /\ clock' \in Time /\ clock \in Nat
  BY NamesOK DEF Tick, IInv, Typed, Time
<1>2. Typed' BY <1>1 DEF Tick, IInv, Typed, history, IsBucket
<1>3. Stamps'
  <2>1. \A n \in Nat : n <= clock => n <= clock' BY <1>1
  <2>2. \A r \in DOMAIN req : req[r].now \in Nat
    BY DEF IInv, Typed, Locals, Time
  <2>3. \A b \in Bucket : touched[b] \in Nat BY DEF IInv, Typed, Time
  <2> QED BY <2>1, <2>2, <2>3 DEF Tick, IInv, Stamps, history
<1>4. Listed' BY DEF Tick, IInv, Listed
<1>5. \A k \in Key : Accounted(k)' /\ WillHold(k)'
  BY DEF Tick, IInv, Accounted, WillHold, Seen, history
<1>6. \A t \in Tier : SharedAccounted(t)'
  BY DEF Tick, IInv, SharedAccounted, Seen, history
<1> QED BY <1>2, <1>3, <1>4, <1>5, <1>6 DEF IInv

LEMMA NumbersOfBucket ==
    ASSUME IInv, NEW b \in Bucket
    PROVE  /\ granted[b] \in Nat /\ touched[b] \in Nat /\ rewound[b] \in Nat
           /\ granted[b] * Cost(b[1]) \in Nat /\ Seen(b) \in Nat
<1>1. Cost(b[1]) \in Nat BY BucketShape, PolicyShape
<1>2. granted[b] \in Nat /\ touched[b] \in Nat /\ rewound[b] \in Nat
  BY DEF IInv, Typed, Time
<1> QED BY <1>1, <1>2 DEF Seen

LEMMA NumbersOfKey ==
    ASSUME IInv, NEW k \in Key
    PROVE  /\ granted[k] \in Nat /\ touched[k] \in Nat /\ promised[k] \in Nat
           /\ rewound[k] \in Nat /\ Seen(k) \in Nat
           /\ granted[k] * Cost(k[1]) \in Nat
           /\ k \in DOMAIN entries => entries[k].tokens \in Nat
BY BucketShape, NumbersOfBucket DEF IInv, Typed, Time, IsBucket, Entry

\* The seconds that a bucket of time u is refilled for at time now.
Passed(u, now) == IF now < u THEN 0 ELSE now - u

\* What a use adds to a bucket's time and to the seconds it was set back by.
LEMMA UseIsNoted ==
    ASSUME IInv, NEW b \in Bucket, NEW now \in Time, NEW gone,
           Note(now, b, gone), b \in gone => touched[b] <= now
    PROVE  /\ touched'[b] = now /\ Seen(b)' = Seen(b) + Passed(touched[b], now)
           /\ Seen(b)' \in Nat
<1>1. touched[b] \in Nat /\ rewound[b] \in Nat /\ now \in Nat
  BY NumbersOfBucket DEF Time
<1>2. touched'[b] = now BY DEF Note
<1>3. rewound'[b] = IF b \notin gone /\ now < touched[b]
                    THEN rewound[b] + (touched[b] - now) ELSE rewound[b]
  BY DEF Note
<1>4. CASE now < touched[b] BY <1>1, <1>2, <1>3, <1>4 DEF Seen, Passed
<1>5. CASE ~(now < touched[b]) BY <1>1, <1>2, <1>3, <1>5 DEF Seen, Passed
<1> QED BY <1>2, <1>4, <1>5

\* The histories keep their types, and a noted time is one of the clock.
LEMMA NotesAreTyped ==
    ASSUME IInv, NEW b, NEW now \in Time, now <= clock, NEW gone, Note(now, b, gone)
    PROVE  /\ touched' \in [Bucket -> Time] /\ rewound' \in [Bucket -> Nat]
           /\ \A c \in Bucket : touched'[c] <= clock
<1>1. /\ touched \in [Bucket -> Time] /\ rewound \in [Bucket -> Nat]
      /\ \A c \in Bucket : touched[c] <= clock
  BY DEF IInv, Typed, Stamps
<1>2. /\ touched' = [c \in Bucket |-> IF c \in {b} \cup gone THEN now ELSE touched[c]]
      /\ rewound' = [c \in Bucket |-> IF c = b /\ c \notin gone /\ now < touched[c]
                                     THEN rewound[c] + (touched[c] - now) ELSE rewound[c]]
  BY DEF Note
<1>3. touched' \in [Bucket -> Time] /\ \A c \in Bucket : touched'[c] <= clock
  BY <1>1, <1>2
<1>4. ASSUME NEW c \in Bucket
      PROVE  rewound'[c] \in Nat
  <2>1. touched[c] \in Nat /\ rewound[c] \in Nat /\ now \in Nat
    BY NumbersOfBucket DEF Time
  <2>2. rewound'[c] = IF c = b /\ c \notin gone /\ now < touched[c]
                      THEN rewound[c] + (touched[c] - now) ELSE rewound[c]
    BY <1>2
  <2>3. CASE now < touched[c] BY <2>1, <2>2, <2>3
  <2>4. CASE ~(now < touched[c]) BY <2>1, <2>2, <2>4
  <2> QED BY <2>3, <2>4
<1>5. DOMAIN rewound' = Bucket /\ rewound' = [c \in Bucket |-> rewound'[c]] BY <1>2
<1> QED BY <1>3, <1>4, <1>5

\* A bucket nobody used and nobody forgot.
LEMMA NothingNoted ==
    ASSUME IInv, NEW b, NEW now, NEW gone, Note(now, b, gone),
           NEW c \in Bucket, c # b, c \notin gone
    PROVE  touched'[c] = touched[c] /\ Seen(c)' = Seen(c)
BY DEF Note, Seen

\* A bucket that is forgotten has been paid for.
LEMMA ForgottenIsPaid ==
    ASSUME IInv, NEW k \in DOMAIN entries, NEW now \in Time, IdleFor(k, now)
    PROVE  /\ touched[k] <= now
           /\ ForgetsOnlyFull(k[1]) =>
                  granted[k] * Cost(k[1]) <= (now + rewound[k]) * Fill(k[1])
<1>1. k \in Key BY DEF IInv, Typed
<1>2. k[1] \in Tier BY <1>1, KeyShape
<1>3. now - touched[k] >= IdleTTL BY DEF IdleFor, IInv, Stamps
<1>4. IdleTTL \in Nat /\ now \in Nat BY ConfigOK DEF Time
<1>5. touched[k] \in Nat /\ rewound[k] \in Nat /\ Seen(k) \in Nat
  BY <1>1, NumbersOfKey
<1>6. touched[k] <= now BY <1>3, <1>4, <1>5
<1>7. ASSUME ForgetsOnlyFull(k[1])
      PROVE  granted[k] * Cost(k[1]) <= (now + rewound[k]) * Fill(k[1])
  <2> DEFINE n == now + rewound[k]
  <2>1. granted[k] * Cost(k[1]) + entries[k].tokens
            <= Capacity(k[1]) + Seen(k) * Fill(k[1])
    BY <1>1, <1>7 DEF IInv, Accounted
  <2>2. IdleTTL * Fill(k[1]) >= Capacity(k[1]) BY <1>7 DEF ForgetsOnlyFull
  <2>3. Capacity(k[1]) \in Nat /\ Fill(k[1]) \in Nat BY <1>2, PolicyShape
  <2>4. n \in Nat /\ n - Seen(k) >= IdleTTL BY <1>3, <1>4, <1>5 DEF Seen
  <2> HIDE DEF n
  <2>5. granted[k] * Cost(k[1]) <= n * Fill(k[1])
    BY <1>1, <1>4, <1>5, <2>1, <2>2, <2>3, <2>4, NumbersOfKey, IdleIsPaid
  <2> QED BY <2>5 DEF n
<1> QED BY <1>6, <1>7

\* What a request does to the buckets of others: pruneIdle may forget them.
LEMMA OtherKeys ==
    ASSUME IInv, NEW now \in Time, NEW live, NEW b,
           Keys(live) \subseteq DOMAIN entries,
           \A k \in DOMAIN entries \ Keys(live) : IdleFor(k, now),
           Note(now, b, Keys(lru) \ Keys(live)),
           NEW k \in Key, k # b,
           granted'[k] = granted[k], promised'[k] = promised[k],
           k \in DOMAIN entries' <=> k \in Keys(live),
           k \in Keys(live) => entries'[k] = entries[k]
    PROVE  /\ Accounted(k)' /\ WillHold(k)'
           /\ k \in DOMAIN entries' => touched'[k] = touched[k]
<1>1. Keys(lru) = DOMAIN entries /\ k \in Bucket
  BY BucketShape DEF IInv, Listed
<1>2. /\ touched'[k] = IF k \in DOMAIN entries \ Keys(live) THEN now ELSE touched[k]
      /\ rewound'[k] = rewound[k]
  BY <1>1 DEF Note
<1>3. Accounted(k) /\ WillHold(k) BY DEF IInv
<1>4. CASE k \in DOMAIN entries \ Keys(live)
  <2>1. IdleFor(k, now) BY <1>4
  <2>2. ForgetsOnlyFull(k[1]) =>
           granted[k] * Cost(k[1]) <= (now + rewound[k]) * Fill(k[1])
    BY <1>4, <2>1, ForgottenIsPaid
  <2>3. Seen(k)' = now + rewound[k] BY <1>2, <1>4 DEF Seen
  <2> QED BY <1>4, <2>2, <2>3 DEF Accounted, WillHold
<1>5. CASE k \in Keys(live)
  <2>1. touched'[k] = touched[k] /\ Seen(k)' = Seen(k) BY <1>2, <1>5 DEF Seen
  <2> QED BY <1>3, <1>5, <2>1 DEF Accounted, WillHold
<1>6. CASE k \notin DOMAIN entries
  <2>1. Seen(k)' = Seen(k) BY <1>2, <1>6 DEF Seen
  <2> QED BY <1>3, <1>6, <2>1 DEF Accounted, WillHold
<1> QED BY <1>4, <1>5, <1>6
-----------------------------------------------------------------------------
(* A request and the bucket of its client *)

\* The bucket a request finds, or makes if there is none in the list.
Found(k, now, live, entry) ==
    IF k \in Keys(live) THEN entry = entries[k] ELSE entry = NewEntry(k[1], now)

LEMMA FoundIsBucket ==
    ASSUME IInv, NEW k \in Key, NEW now \in Time, NEW live,
           Keys(live) \subseteq DOMAIN entries, NEW entry, Found(k, now, live, entry)
    PROVE  /\ IsBucket(entry, k[1])
           /\ k \notin Keys(live) => HasToken(Refilled(entry, k[1], now), k[1])
<1>1. k[1] \in Tier BY KeyShape
<1>2. CASE k \in Keys(live) BY <1>2 DEF Found, IInv, Typed
<1>3. CASE k \notin Keys(live)
  <2>1. /\ IsBucket(entry, k[1]) /\ entry.tokens = Capacity(k[1])
        /\ entry.updatedAt = now
    BY <1>1, <1>3, NewEntryIsBucket DEF Found
  <2>2. LET full == entry.tokens + Elapsed(entry, now) * Fill(k[1])
        IN Refilled(entry, k[1], now).tokens
               = IF full > Capacity(k[1]) THEN Capacity(k[1]) ELSE full
    BY <1>1, <2>1, RefilledShape
  <2>3. Elapsed(entry, now) = 0 BY <2>1 DEF Elapsed, Time
  <2>4. Refilled(entry, k[1], now).tokens = Capacity(k[1])
    BY <1>1, <2>1, <2>2, <2>3, PolicyShape
  <2> QED BY <1>1, <2>1, <2>4, PolicyShape DEF HasToken
<1> QED BY <1>2, <1>3

\* Before the request takes its token, all that was granted and all that is in
\* the bucket is still within the rate.
LEMMA ReadyIsAccounted ==
    ASSUME IInv, NEW k \in Key, NEW now \in Time, NEW live,
           Keys(live) \subseteq DOMAIN entries,
           \A x \in DOMAIN entries \ Keys(live) : IdleFor(x, now),
           NEW entry, Found(k, now, live, entry), ForgetsOnlyFull(k[1]),
           NEW n, n = Seen(k) + Passed(touched[k], now)
    PROVE  granted[k] * Cost(k[1]) + Refilled(entry, k[1], now).tokens
               <= Capacity(k[1]) + n * Fill(k[1])
<1> DEFINE t == k[1]
           g == granted[k] * Cost(t)
           full == entry.tokens + Elapsed(entry, now) * Fill(t)
           f == Refilled(entry, t, now).tokens
<1>1. t \in Tier /\ Capacity(t) \in Nat /\ Fill(t) \in Nat
  BY KeyShape, PolicyShape
<1>2. IsBucket(entry, t) BY FoundIsBucket
<1>3. /\ full \in Nat /\ f \in Nat /\ f <= Capacity(t)
      /\ f = IF full > Capacity(t) THEN Capacity(t) ELSE full
  BY <1>1, <1>2, RefilledShape DEF IsBucket
<1>4. /\ g \in Nat /\ now \in Nat /\ touched[k] \in Nat /\ rewound[k] \in Nat
      /\ Seen(k) \in Nat
  BY NumbersOfKey DEF Time
<1>5. n \in Nat /\ Seen(k) <= n BY <1>4 DEF Passed
<1>6. n * Fill(t) \in Nat /\ Seen(k) * Fill(t) \in Nat BY <1>1, <1>4, <1>5
<1>7. CASE k \in Keys(live)
  <2>1. entry = entries[k] /\ k \in DOMAIN entries BY <1>7 DEF Found
  <2>2. entry.updatedAt = touched[k] BY <2>1 DEF IInv, Stamps
  <2>3. g + entry.tokens <= Capacity(t) + Seen(k) * Fill(t)
    BY <2>1 DEF IInv, Accounted
  <2>4. Elapsed(entry, now) = n - Seen(k)
    BY <1>4, <2>2 DEF Elapsed, Passed
  <2>5. entry.tokens \in Nat BY <2>1, NumbersOfKey
  <2>6. full = entry.tokens + (n - Seen(k)) * Fill(t) BY <2>4
  <2> HIDE DEF t, g, full, f
  <2>7. g + full <= Capacity(t) + n * Fill(t)
    BY <1>1, <1>4, <1>5, <2>3, <2>5, <2>6, GainIsOwed
  <2>8. g + f <= Capacity(t) + n * Fill(t) BY <1>1, <1>3, <1>4, <1>6, <2>7
  <2> QED BY <2>8 DEF g, f, t
<1>8. CASE k \notin Keys(live)
  <2>1. g <= n * Fill(t)
    <3>1. CASE k \in DOMAIN entries
      <4>1. IdleFor(k, now) BY <1>8, <3>1
      <4>2. /\ touched[k] <= now
            /\ granted[k] * Cost(k[1]) <= (now + rewound[k]) * Fill(k[1])
        BY <3>1, <4>1, ForgottenIsPaid
      <4>3. n = now + rewound[k] BY <1>4, <4>2 DEF Seen, Passed
      <4> QED BY <4>2, <4>3
    <3>2. CASE k \notin DOMAIN entries
      <4>1. g <= Seen(k) * Fill(t) BY <3>2 DEF IInv, Accounted
      <4>2. Seen(k) * Fill(t) <= n * Fill(t) BY <1>1, <1>4, <1>5, TimesGrows
      <4> HIDE DEF g
      <4> QED BY <1>4, <1>6, <4>1, <4>2
    <3> QED BY <3>1, <3>2
  <2> HIDE DEF t, g, full, f
  <2>2. g + f <= Capacity(t) + n * Fill(t) BY <1>1, <1>3, <1>4, <1>6, <2>1
  <2> QED BY <2>2 DEF g, f, t
<1> QED BY <1>7, <1>8

\* A refusal that was announced to end at time p is none for who comes then,
\* and the bucket that refuses keeps the promise.
LEMMA PromiseIsKept ==
    ASSUME IInv, NEW k \in Key, NEW now \in Time, NEW live,
           Keys(live) \subseteq DOMAIN entries,
           NEW entry, Found(k, now, live, entry),
           promised[k] # Never, ~HasToken(Refilled(entry, k[1], now), k[1])
    PROVE  /\ Refilled(entry, k[1], now).tokens + (promised[k] - now) * Fill(k[1])
                  >= Cost(k[1])
           /\ promised[k] > now
<1> DEFINE t == k[1]
           d == Elapsed(entry, now)
           full == entry.tokens + d * Fill(t)
           f == Refilled(entry, t, now).tokens
           p == promised[k]
           u == touched[k]
<1>1. /\ t \in Tier /\ Capacity(t) \in Nat /\ Fill(t) \in Nat /\ Cost(t) \in Nat
      /\ Cost(t) <= Capacity(t)
  BY KeyShape, PolicyShape
<1>2. IsBucket(entry, t) BY FoundIsBucket
<1>3. /\ d \in Nat /\ full \in Nat /\ f \in Nat
      /\ f = IF full > Capacity(t) THEN Capacity(t) ELSE full
  BY <1>1, <1>2, RefilledShape
<1>4. k \in Keys(live) BY FoundIsBucket
<1>5. entry = entries[k] /\ k \in DOMAIN entries BY <1>4 DEF Found
<1>6. entry.tokens \in Nat /\ u \in Nat /\ p \in Nat /\ now \in Nat
  BY <1>5, NumbersOfKey DEF Time
<1>7. d = IF now < u THEN 0 ELSE now - u BY <1>5 DEF Elapsed, IInv, Stamps
<1>8. entry.tokens + (p - u) * Fill(t) >= Cost(t) BY <1>5 DEF IInv, WillHold
<1>9. ~(f >= Cost(t)) BY DEF HasToken
<1> HIDE DEF t, d, f, p, u
<1>10. full + (p - now) * Fill(t) >= Cost(t)
  BY <1>1, <1>3, <1>6, <1>7, <1>8, DueStays
<1> HIDE DEF full
<1>11. f = full BY <1>1, <1>3, <1>9
<1>12. ~(p <= now) BY <1>1, <1>3, <1>6, <1>9, <1>10, <1>11, DueIsEnough
<1>13. p > now BY <1>6, <1>12
<1>14. f + (p - now) * Fill(t) >= Cost(t) BY <1>10, <1>11
<1> QED BY <1>13, <1>14 DEF f, p, t

\* The property of NoWaitIsWasted, for the request that is answered.
Kept(k, now) ==
    k \in DOMAIN entries' /\ promised[k] <= now => answer' = 0

LEMMA AllowOwnStep ==
    ASSUME IInv, NEW r \in Request, r \in DOMAIN req, AllowOwn(r),
           NEW k, k = req[r].key, NEW now, now = req[r].now
    PROVE  IInv' /\ Kept(k, now)
<1> DEFINE t == k[1]
           live == Unpruned(now)
           entry == IF k \in Keys(live) THEN entries[k] ELSE NewEntry(t, now)
           f == Refilled(entry, t, now)
           new == Consumed(entry, t, now)
           gone == Keys(lru) \ Keys(live)
           due == now + RetryAfter(f, t)
<1>1. /\ k \in Key /\ now \in Time /\ now \in Nat /\ now <= MaxTime /\ now <= clock
      /\ t \in Tier
  BY NamesOK, KeyShape DEF IInv, Typed, Locals, Stamps, Time
<1>2. /\ live \in Seq(Key) /\ IsInjective(live) /\ Keys(live) \subseteq DOMAIN entries
      /\ Len(live) \in Nat /\ Len(live) <= MaxEntries
      /\ \A x \in DOMAIN entries \ Keys(live) : IdleFor(x, now)
  BY UnprunedShape DEF IInv
<1>3. Found(k, now, live, entry) BY DEF Found
<1>4. /\ k \in Keys(live) \/ HasRoom(Len(live))
      /\ lru' = Append(RemoveFirst(live, k), k)
      /\ entries' = [x \in Keys(live) \cup {k} |-> IF x = k THEN new ELSE entries[x]]
      /\ Answer(r, f, t)
      /\ Note(now, k, gone)
      /\ IF HasToken(f, t)
         THEN /\ granted' = [granted EXCEPT ![k] = @ + 1]
              /\ promised' = [promised EXCEPT ![k] = Never]
         ELSE /\ promised' = [promised EXCEPT ![k] = IF due < @ THEN due ELSE @]
              /\ UNCHANGED granted
      /\ UNCHANGED <<clock, overflow>>
  BY DEF AllowOwn
<1> HIDE DEF live, entry
<1>5. IsBucket(entry, t) /\ (k \notin Keys(live) => HasToken(f, t))
  BY <1>1, <1>2, <1>3, FoundIsBucket
<1>6. /\ f.tokens \in Nat /\ new.tokens \in Nat
      /\ IsBucket(new, t) /\ new.updatedAt = now /\ new.lastSeen = now
      /\ new.tokens = IF HasToken(f, t) THEN f.tokens - Cost(t) ELSE f.tokens
  BY <1>1, <1>5, RefilledShape, ConsumedShape
<1>7. /\ Cost(t) \in Nat /\ Fill(t) \in Nat /\ Capacity(t) \in Nat
  BY <1>1, PolicyShape
<1>8. ~HasToken(f, t) => /\ RetryAfter(f, t) \in Nat
                         /\ f.tokens + RetryAfter(f, t) * Fill(t) >= Cost(t)
  BY <1>1, <1>6, RetryAfterSuffices
<1> HIDE DEF new, f, t
<1>9. /\ DOMAIN entries' = Keys(live) \cup {k} /\ entries'[k] = new
      /\ \A x \in Keys(live) : x # k => entries'[x] = entries[x]
  BY <1>4
<1>10. /\ touched'[k] = now /\ Seen(k)' = Seen(k) + Passed(touched[k], now)
       /\ Seen(k)' \in Nat
       /\ touched' \in [Bucket -> Time] /\ rewound' \in [Bucket -> Nat]
       /\ \A x \in Bucket : touched'[x] <= clock
  <2>1. k \in Bucket BY <1>1, BucketShape
  <2>2. k \in gone => touched[k] <= now
    <3>1. k \in gone => k \in DOMAIN entries \ Keys(live) BY DEF IInv, Listed
    <3> QED BY <1>1, <1>2, <3>1, ForgottenIsPaid
  <2> HIDE DEF gone
  <2>3. Note(now, k, gone) BY <1>4
  <2>4. /\ touched'[k] = now /\ Seen(k)' = Seen(k) + Passed(touched[k], now)
        /\ Seen(k)' \in Nat
    BY <1>1, <2>1, <2>2, <2>3, UseIsNoted
  <2> QED BY <1>1, <2>3, <2>4, NotesAreTyped
<1>11. gone = DOMAIN entries \ Keys(live) BY DEF IInv, Listed
<1>12. Never \in Nat /\ Never > MaxTime BY NamesOK DEF Never
<1>13. /\ granted' \in [Bucket -> Nat] /\ promised' \in [Key -> Nat]
       /\ \A x \in Bucket : x # k => granted'[x] = granted[x]
       /\ \A x \in Key : x # k => promised'[x] = promised[x]
  <2>0. k \in Bucket BY <1>1, BucketShape
  <2>1. CASE HasToken(f, t)
    <3>1. granted[k] + 1 \in Nat BY <1>1, NumbersOfKey
    <3> QED BY <1>1, <1>4, <1>12, <2>0, <2>1, <3>1 DEF IInv, Typed
  <2>2. CASE ~HasToken(f, t)
    <3>1. due \in Nat BY <1>1, <1>8, <2>2
    <3> HIDE DEF due
    <3> QED BY <1>1, <1>4, <2>2, <3>1 DEF IInv, Typed
  <2> QED BY <2>1, <2>2
<1>14. Listed'
  <2>1. /\ lru' \in Seq(Key) /\ IsInjective(lru') /\ Keys(lru') = Keys(live) \cup {k}
        /\ Len(lru') = IF k \in Keys(live) THEN Len(live) ELSE Len(live) + 1
    BY <1>1, <1>2, <1>4, MovedToBack
  <2>2. Len(lru') <= MaxEntries
    BY <1>2, <1>4, <2>1, ConfigOK DEF HasRoom
  <2> QED BY <1>9, <2>1, <2>2 DEF Listed
<1>15. Typed'
  <2>1. DOMAIN req' = DOMAIN req \ {r} /\ \A x \in DOMAIN req' : req'[x] = req[x]
    BY <1>4 DEF Answer
  <2>2. answer' \in Nat BY <1>4, <1>8 DEF Answer
  <2>3. DOMAIN entries' \subseteq Key BY <1>1, <1>2, <1>9 DEF IInv, Typed
  <2>4. \A x \in DOMAIN entries' : IsBucket(entries'[x], x[1])
    BY <1>2, <1>6, <1>9 DEF IInv, Typed, t
  <2>5. \A x \in DOMAIN overflow' : IsBucket(overflow'[x], x) BY <1>4 DEF IInv, Typed
  <2> QED BY <1>4, <1>10, <1>13, <2>1, <2>2, <2>3, <2>4, <2>5 DEF IInv, Typed, IsBucket
<1>16. ASSUME NEW x \in Key, x # k
       PROVE  /\ Accounted(x)' /\ WillHold(x)'
              /\ x \in DOMAIN entries' => touched'[x] = touched[x]
  <2>1. granted'[x] = granted[x] /\ promised'[x] = promised[x]
    BY <1>13, <1>16, BucketShape
  <2>2. /\ x \in DOMAIN entries' <=> x \in Keys(live)
        /\ x \in Keys(live) => entries'[x] = entries[x]
    BY <1>9, <1>16
  <2>3. Note(now, k, Keys(lru) \ Keys(live)) BY <1>4
  <2> QED BY <1>1, <1>2, <1>16, <2>1, <2>2, <2>3, OtherKeys
<1>17. ASSUME NEW u \in Tier
       PROVE  /\ touched'[Shared(u)] = touched[Shared(u)]
              /\ SharedAccounted(u)'
  <2>1. Shared(u) \in Bucket /\ Shared(u) # k /\ Shared(u) \notin gone
    BY <1>1, <1>11, BucketShape DEF IInv, Typed
  <2> HIDE DEF gone
  <2>2. touched'[Shared(u)] = touched[Shared(u)] /\ Seen(Shared(u))' = Seen(Shared(u))
    BY <1>4, <2>1, NothingNoted
  <2>3. granted'[Shared(u)] = granted[Shared(u)] /\ overflow' = overflow
    BY <1>4, <1>13, <2>1
  <2>4. SharedAccounted(u) BY DEF IInv
  <2> QED BY <2>2, <2>3, <2>4 DEF SharedAccounted
<1>18. Stamps'
  <2>1. DOMAIN req' = DOMAIN req \ {r} /\ \A x \in DOMAIN req' : req'[x] = req[x]
    BY <1>4 DEF Answer
  <2>2. \A u \in DOMAIN overflow' : overflow'[u].updatedAt = touched'[Shared(u)]
    BY <1>4, <1>17 DEF IInv, Typed, Stamps
  <2>3. ASSUME NEW x \in DOMAIN entries'
        PROVE  entries'[x].updatedAt = touched'[x] /\ entries'[x].lastSeen = touched'[x]
    <3>1. CASE x = k BY <1>6, <1>9, <1>10, <3>1
    <3>2. CASE x # k
      <4>1. x \in Key /\ x \in DOMAIN entries BY <1>1, <1>2, <1>9, <3>2 DEF IInv, Typed
      <4> QED BY <1>9, <1>16, <3>2, <4>1 DEF IInv, Stamps
    <3> QED BY <3>1, <3>2
  <2> QED BY <1>4, <1>10, <2>1, <2>2, <2>3 DEF IInv, Stamps
<1>19. Accounted(k)'
  <2> DEFINE n == Seen(k)'
             h == granted'[k]
  <2> SUFFICES ASSUME ForgetsOnlyFull(t)
               PROVE  h * Cost(t) + new.tokens <= Capacity(t) + n * Fill(t)
    BY <1>1, <1>9 DEF Accounted, t
  <2>1. n = Seen(k) + Passed(touched[k], now) /\ n \in Nat BY <1>10
  <2>2. granted[k] \in Nat BY <1>1, NumbersOfKey
  <2>3. h = IF HasToken(f, t) THEN granted[k] + 1 ELSE granted[k]
    BY <1>1, <1>4, BucketShape DEF IInv, Typed
  <2> HIDE DEF n, h
  <2>4. granted[k] * Cost(t) + f.tokens <= Capacity(t) + n * Fill(t)
    BY <1>1, <1>2, <1>3, <2>1, ReadyIsAccounted DEF t, f
  <2> QED BY <1>1, <1>5, <2>1, <2>2, <2>3, <2>4, TakenIsCounted DEF new, f
<1>20. WillHold(k)'
  <2> SUFFICES ASSUME promised'[k] # Never
               PROVE  new.tokens + (promised'[k] - now) * Fill(t) >= Cost(t)
    BY <1>9, <1>10 DEF WillHold, t
  <2>1. ~HasToken(f, t) /\ new.tokens = f.tokens
    BY <1>1, <1>4, <1>6 DEF IInv, Typed
  <2>2. promised'[k] = IF due < promised[k] THEN due ELSE promised[k]
    BY <1>1, <1>4, <2>1 DEF IInv, Typed
  <2>3. CASE promised'[k] = due
    <3>1. promised'[k] - now = RetryAfter(f, t) BY <1>1, <1>8, <2>1, <2>3
    <3> QED BY <1>8, <2>1, <3>1
  <2>4. CASE promised'[k] = promised[k]
    BY <1>1, <1>2, <1>3, <2>1, <2>4, PromiseIsKept DEF t, f
  <2> QED BY <2>2, <2>3, <2>4
<1>21. Kept(k, now)
  <2> SUFFICES ASSUME promised[k] <= now PROVE HasToken(f, t)
    BY <1>4 DEF Kept, Answer
  <2>0. promised[k] \in Nat /\ promised[k] <= now BY <1>1, NumbersOfKey
  <2>1. promised[k] # Never BY <1>1, <2>0, NamesOK DEF Never
  <2>2. ~(promised[k] > now) BY <1>1, <2>0
  <2> QED BY <1>1, <1>2, <1>3, <2>1, <2>2, PromiseIsKept DEF t, f
<1> QED BY <1>14, <1>15, <1>16, <1>17, <1>18, <1>19, <1>20, <1>21 DEF IInv

\* What ReadyIsAccounted says of a client's own bucket, of the shared one.
LEMMA SharedIsAccounted ==
    ASSUME IInv, NEW t \in Tier, NEW now \in Time,
           NEW n, n = Seen(Shared(t)) + Passed(touched[Shared(t)], now)
    PROVE  granted[Shared(t)] * Cost(t) + Refilled(OverflowEntry(t, now), t, now).tokens
               <= Capacity(t) + n * Fill(t)
<1> DEFINE b == Shared(t)
           entry == OverflowEntry(t, now)
           g == granted[b] * Cost(t)
           full == entry.tokens + Elapsed(entry, now) * Fill(t)
           f == Refilled(entry, t, now).tokens
<1>1. Capacity(t) \in Nat /\ Fill(t) \in Nat /\ Cost(t) \in Nat BY PolicyShape
<1>2. b \in Bucket /\ b[1] = t BY BucketShape
<1>3. IsBucket(entry, t)
  BY NewEntryIsBucket DEF OverflowEntry, IInv, Typed
<1>4. /\ full \in Nat /\ f \in Nat /\ f <= Capacity(t)
      /\ f = IF full > Capacity(t) THEN Capacity(t) ELSE full
  BY <1>3, RefilledShape DEF IsBucket
<1>5. /\ g \in Nat /\ now \in Nat /\ touched[b] \in Nat /\ Seen(b) \in Nat
  BY <1>2, NumbersOfBucket DEF Time
<1>6. n \in Nat /\ Seen(b) <= n BY <1>5 DEF Passed
<1>7. n * Fill(t) \in Nat BY <1>1, <1>6
<1>8. CASE t \in DOMAIN overflow
  <2>1. entry = overflow[t] BY <1>8 DEF OverflowEntry
  <2>2. g + entry.tokens <= Capacity(t) + Seen(b) * Fill(t)
    BY <1>8, <2>1 DEF IInv, SharedAccounted
  <2>3. entry.updatedAt = touched[b] BY <1>8, <2>1 DEF IInv, Stamps
  <2>4. Elapsed(entry, now) = n - Seen(b) BY <1>5, <2>3 DEF Elapsed, Passed
  <2>5. entry.tokens \in Nat BY <1>3 DEF IsBucket, Entry
  <2>6. full = entry.tokens + (n - Seen(b)) * Fill(t) BY <2>4
  <2> HIDE DEF b, entry, g, full, f
  <2>7. g + full <= Capacity(t) + n * Fill(t)
    BY <1>1, <1>5, <1>6, <2>2, <2>5, <2>6, GainIsOwed
  <2>8. g + f <= Capacity(t) + n * Fill(t) BY <1>1, <1>4, <1>5, <1>7, <2>7
  <2> QED BY <2>8 DEF g, f, entry, b
<1>9. CASE t \notin DOMAIN overflow
  <2>1. granted[b] = 0 BY <1>9 DEF IInv, SharedAccounted
  <2>2. g = 0 BY <1>1, <2>1
  <2> HIDE DEF b, entry, g, full, f
  <2>3. g + f <= Capacity(t) + n * Fill(t) BY <1>1, <1>4, <1>7, <2>2
  <2> QED BY <2>3 DEF g, f, entry, b
<1> QED BY <1>8, <1>9

\* Without room: the shared bucket changes, and the list loses its idle keys.
LEMMA AllowOverflowStep ==
    ASSUME IInv, NEW r \in Request, r \in DOMAIN req, AllowOverflow(r),
           NEW k, k = req[r].key, NEW now, now = req[r].now
    PROVE  IInv' /\ k \notin DOMAIN entries'
<1> DEFINE t == k[1]
           live == Unpruned(now)
           entry == OverflowEntry(t, now)
           f == Refilled(entry, t, now)
           new == Consumed(entry, t, now)
           b == Shared(t)
           gone == Keys(lru) \ Keys(live)
<1>1. /\ k \in Key /\ now \in Time /\ now <= clock /\ t \in Tier
      /\ b \in Bucket /\ b \notin Key /\ b[1] = t
  BY NamesOK, KeyShape, BucketShape DEF IInv, Typed, Locals, Stamps
<1>2. /\ live \in Seq(Key) /\ IsInjective(live) /\ Keys(live) \subseteq DOMAIN entries
      /\ Len(live) \in Nat /\ Len(live) <= MaxEntries
      /\ \A x \in DOMAIN entries \ Keys(live) : IdleFor(x, now)
  BY UnprunedShape DEF IInv
<1>3. /\ k \notin Keys(live)
      /\ lru' = live
      /\ entries' = [x \in Keys(live) |-> entries[x]]
      /\ overflow' = [x \in DOMAIN overflow \cup {t} |->
                        IF x = t THEN new ELSE overflow[x]]
      /\ Answer(r, f, t)
      /\ Note(now, b, gone)
      /\ granted' = IF HasToken(f, t) THEN [granted EXCEPT ![b] = @ + 1] ELSE granted
      /\ UNCHANGED <<clock, promised>>
  BY DEF AllowOverflow
<1> HIDE DEF live, entry
<1>4. IsBucket(entry, t)
  <2>1. CASE t \in DOMAIN overflow BY <2>1 DEF entry, OverflowEntry, IInv, Typed
  <2>2. CASE t \notin DOMAIN overflow
    BY <1>1, <2>2, NewEntryIsBucket DEF entry, OverflowEntry
  <2> QED BY <2>1, <2>2
<1>5. f.tokens \in Nat /\ IsBucket(new, t) /\ new.updatedAt = now
  BY <1>1, <1>4, RefilledShape, ConsumedShape
<1>6. ~HasToken(f, t) => RetryAfter(f, t) \in Nat
  BY <1>1, <1>5, RetryAfterSuffices
<1> HIDE DEF f, new, t, b
<1>7. DOMAIN entries' = Keys(live) /\ \A x \in Keys(live) : entries'[x] = entries[x]
  BY <1>3
<1>8. /\ touched' \in [Bucket -> Time] /\ rewound' \in [Bucket -> Nat]
      /\ \A x \in Bucket : touched'[x] <= clock
      /\ touched'[b] = now /\ Seen(b)' = Seen(b) + Passed(touched[b], now)
      /\ Seen(b)' \in Nat
      /\ gone \subseteq Key
  <2>1. gone \subseteq Key BY DEF IInv, Listed, Typed
  <2> HIDE DEF gone
  <2>2. Note(now, b, gone) BY <1>3
  <2>3. /\ touched'[b] = now /\ Seen(b)' = Seen(b) + Passed(touched[b], now)
        /\ Seen(b)' \in Nat
    BY <1>1, <2>1, <2>2, UseIsNoted
  <2> QED BY <1>1, <2>1, <2>2, <2>3, NotesAreTyped
<1>9. /\ granted' \in [Bucket -> Nat]
      /\ \A x \in Bucket : x # b => granted'[x] = granted[x]
      /\ granted'[b] = IF HasToken(f, t) THEN granted[b] + 1 ELSE granted[b]
  <2>1. granted[b] + 1 \in Nat /\ granted \in [Bucket -> Nat]
    BY <1>1, NumbersOfBucket DEF IInv, Typed
  <2> QED BY <1>1, <1>3, <2>1
<1>10. Listed' BY <1>2, <1>3, <1>7 DEF Listed
<1>11. DOMAIN req' = DOMAIN req \ {r} /\ \A x \in DOMAIN req' : req'[x] = req[x]
  BY <1>3 DEF Answer
<1>12. Typed'
  <2>1. answer' \in Nat BY <1>3, <1>6 DEF Answer
  <2>2. DOMAIN entries' \subseteq Key BY <1>2, <1>7 DEF IInv, Typed
  <2>3. \A x \in DOMAIN entries' : IsBucket(entries'[x], x[1])
    BY <1>2, <1>7 DEF IInv, Typed
  <2>4. \A x \in DOMAIN overflow' : IsBucket(overflow'[x], x)
    BY <1>3, <1>5 DEF IInv, Typed
  <2>5. DOMAIN overflow' \subseteq Tier BY <1>1, <1>3 DEF IInv, Typed
  <2> QED BY <1>3, <1>8, <1>9, <1>11, <2>1, <2>2, <2>3, <2>4, <2>5
          DEF IInv, Typed, IsBucket
<1>13. ASSUME NEW x \in Key
       PROVE  /\ Accounted(x)' /\ WillHold(x)'
              /\ x \in DOMAIN entries' => touched'[x] = touched[x]
  <2>1. x # b /\ x \in Bucket BY <1>1, BucketShape
  <2>2. granted'[x] = granted[x] /\ promised'[x] = promised[x]
    BY <1>3, <1>9, <2>1
  <2>3. /\ x \in DOMAIN entries' <=> x \in Keys(live)
        /\ x \in Keys(live) => entries'[x] = entries[x]
    BY <1>7
  <2>4. Note(now, b, Keys(lru) \ Keys(live)) BY <1>3
  <2>5. now \in Time BY <1>1
  <2> QED BY <1>2, <2>1, <2>2, <2>3, <2>4, <2>5, OtherKeys
<1>14. ASSUME NEW u \in Tier, u # t
       PROVE  /\ touched'[Shared(u)] = touched[Shared(u)] /\ SharedAccounted(u)'
  <2>1. Shared(u) \in Bucket /\ Shared(u) # b /\ Shared(u) \notin gone
    BY <1>1, <1>8, <1>14, BucketShape DEF b
  <2> HIDE DEF gone
  <2>2. touched'[Shared(u)] = touched[Shared(u)] /\ Seen(Shared(u))' = Seen(Shared(u))
    BY <1>3, <2>1, NothingNoted
  <2>3. /\ granted'[Shared(u)] = granted[Shared(u)]
        /\ u \in DOMAIN overflow' <=> u \in DOMAIN overflow
        /\ u \in DOMAIN overflow => overflow'[u] = overflow[u]
    BY <1>3, <1>9, <1>14, <2>1
  <2>4. SharedAccounted(u) BY DEF IInv
  <2> QED BY <2>2, <2>3, <2>4 DEF SharedAccounted
<1>15. SharedAccounted(t)'
  <2> DEFINE n == Seen(b)'
             h == granted'[b]
  <2> HIDE DEF n, h
  <2>1. n = Seen(b) + Passed(touched[b], now) /\ n \in Nat BY <1>8 DEF n
  <2>2. granted[b] \in Nat BY <1>1, NumbersOfBucket
  <2>3. h = IF HasToken(f, t) THEN granted[b] + 1 ELSE granted[b]
    BY <1>9 DEF h
  <2>4. t \in DOMAIN overflow' /\ overflow'[t] = new BY <1>3
  <2> SUFFICES h * Cost(t) + new.tokens <= Capacity(t) + n * Fill(t)
    BY <2>4 DEF SharedAccounted, b, n, h
  <2>5. granted[b] * Cost(t) + f.tokens <= Capacity(t) + n * Fill(t)
    BY <1>1, <2>1, SharedIsAccounted DEF b, f, entry
  <2> QED BY <1>1, <1>4, <2>1, <2>2, <2>3, <2>5, TakenIsCounted DEF new, f
<1>16. Stamps'
  <2>1. \A u \in DOMAIN overflow' : overflow'[u].updatedAt = touched'[Shared(u)]
    <3>1. overflow'[t].updatedAt = touched'[b] BY <1>3, <1>5, <1>8
    <3>2. ASSUME NEW u \in DOMAIN overflow', u # t
          PROVE  overflow'[u].updatedAt = touched'[Shared(u)]
      <4>1. u \in DOMAIN overflow /\ u \in Tier /\ overflow'[u] = overflow[u]
        BY <1>3, <3>2 DEF IInv, Typed
      <4> QED BY <1>14, <3>2, <4>1 DEF IInv, Stamps
    <3> QED BY <3>1, <3>2 DEF b
  <2>2. ASSUME NEW x \in DOMAIN entries'
        PROVE  entries'[x].updatedAt = touched'[x] /\ entries'[x].lastSeen = touched'[x]
    <3>1. x \in Key /\ x \in DOMAIN entries BY <1>2, <1>7 DEF IInv, Typed
    <3> QED BY <1>7, <1>13, <3>1 DEF IInv, Stamps
  <2> QED BY <1>3, <1>8, <1>11, <2>1, <2>2 DEF IInv, Stamps
<1> QED BY <1>3, <1>7, <1>10, <1>12, <1>13, <1>14, <1>15, <1>16 DEF IInv

LEMMA UnchangedInv ==
    ASSUME IInv, UNCHANGED vars
    PROVE  IInv'
<1>1. Typed' BY DEF vars, history, IInv, Typed, IsBucket
<1>2. Stamps' BY DEF vars, history, IInv, Stamps
<1>3. Listed' BY DEF vars, history, IInv, Listed
<1>4. \A k \in Key : Accounted(k)' /\ WillHold(k)'
  BY DEF vars, history, IInv, Accounted, WillHold, Seen
<1>5. \A t \in Tier : SharedAccounted(t)'
  BY DEF vars, history, IInv, SharedAccounted, Seen
<1> QED BY <1>1, <1>2, <1>3, <1>4, <1>5 DEF IInv

LEMMA NextInv ==
    ASSUME IInv, [Next]_vars
    PROVE  IInv'
<1>1. ASSUME NEW r \in Request, Arrive(r) PROVE IInv' BY <1>1, ArriveInv
<1>2. ASSUME NEW r \in Request, Allow(r) PROVE IInv'
  BY <1>2, AllowOwnStep, AllowOverflowStep DEF Allow
<1>3. CASE Tick BY <1>3, TickInv
<1>4. CASE UNCHANGED vars BY <1>4, UnchangedInv
<1> QED BY <1>1, <1>2, <1>3, <1>4 DEF Next
-----------------------------------------------------------------------------
(* What the limiter promises *)

\* The inductive invariant holds in every state.
THEOREM Invariance == Spec => []IInv
<1>1. Init => IInv BY InitInv
<1>2. IInv /\ [Next]_vars => IInv' BY NextInv
<1> QED BY <1>1, <1>2, PTL DEF Spec

\* A bucket's time is not ahead of the clock.
LEMMA SeenIsPast ==
    ASSUME IInv, NEW b \in Bucket
    PROVE  /\ Seen(b) * Fill(b[1]) <= (clock + rewound[b]) * Fill(b[1])
           /\ Seen(b) * Fill(b[1]) \in Nat /\ (clock + rewound[b]) * Fill(b[1]) \in Nat
<1> DEFINE n == clock + rewound[b]
           u == Seen(b)
<1>1. Fill(b[1]) \in Nat BY BucketShape, PolicyShape
<1>2. /\ touched[b] \in Nat /\ rewound[b] \in Nat /\ clock \in Nat
      /\ touched[b] <= clock
  BY NumbersOfBucket DEF IInv, Typed, Stamps, Time
<1>3. u \in Nat /\ n \in Nat /\ u <= n BY <1>2 DEF Seen
<1> HIDE DEF n, u
<1>4. /\ u * Fill(b[1]) <= n * Fill(b[1])
      /\ u * Fill(b[1]) \in Nat /\ n * Fill(b[1]) \in Nat
  BY <1>1, <1>3, TimesGrows
<1> QED BY <1>4 DEF n, u

LEMMA RateFollows ==
    ASSUME IInv, NEW k \in Key, ForgetsOnlyFull(k[1])
    PROVE  WithinRate(k)
<1> DEFINE t == k[1]
           g == granted[k] * Cost(t)
           due == (clock + rewound[k]) * Fill(t)
           had == Seen(k) * Fill(t)
<1>1. Capacity(t) \in Nat /\ g \in Nat BY KeyShape, PolicyShape, NumbersOfKey
<1>2. had <= due /\ had \in Nat /\ due \in Nat BY BucketShape, SeenIsPast
<1>3. g <= Capacity(t) + had
  <2>1. CASE k \in DOMAIN entries
    <3>1. g + entries[k].tokens <= Capacity(t) + had BY <2>1 DEF IInv, Accounted
    <3>2. entries[k].tokens \in Nat BY <2>1, NumbersOfKey
    <3> HIDE DEF g, t, had
    <3> QED BY <1>1, <1>2, <3>1, <3>2
  <2>2. CASE k \notin DOMAIN entries
    <3>1. g <= had BY <2>2 DEF IInv, Accounted
    <3> HIDE DEF g, t, had
    <3> QED BY <1>1, <1>2, <3>1
  <2> QED BY <2>1, <2>2
<1> HIDE DEF g, t, due, had
<1>4. g <= Capacity(t) + due BY <1>1, <1>2, <1>3
<1> QED BY <1>4 DEF WithinRate, g, t, due

LEMMA SharedRateFollows ==
    ASSUME IInv, NEW t \in Tier
    PROVE  WithinRate(Shared(t))
<1> DEFINE b == Shared(t)
           g == granted[b] * Cost(t)
           due == (clock + rewound[b]) * Fill(t)
           had == Seen(b) * Fill(t)
<1>1. b \in Bucket /\ b[1] = t BY BucketShape
<1>2. Capacity(t) \in Nat /\ Cost(t) \in Nat /\ g \in Nat
  BY <1>1, PolicyShape, NumbersOfBucket
<1>3. had <= due /\ had \in Nat /\ due \in Nat BY <1>1, SeenIsPast
<1>4. g <= Capacity(t) + had
  <2>1. CASE t \in DOMAIN overflow
    <3>1. g + overflow[t].tokens <= Capacity(t) + had BY <2>1 DEF IInv, SharedAccounted
    <3>2. overflow[t].tokens \in Nat BY <2>1 DEF IInv, Typed, IsBucket, Entry
    <3> HIDE DEF g, had
    <3> QED BY <1>2, <1>3, <3>1, <3>2
  <2>2. CASE t \notin DOMAIN overflow
    <3>1. g = 0 BY <1>2, <2>2 DEF IInv, SharedAccounted
    <3> HIDE DEF g, had
    <3> QED BY <1>2, <1>3, <3>1
  <2> QED BY <2>1, <2>2
<1> HIDE DEF g, due, had
<1>5. g <= Capacity(t) + due BY <1>2, <1>3, <1>4
<1> QED BY <1>1, <1>5 DEF WithinRate, g, due, b

LEMMA TypeFollows ==
    ASSUME IInv
    PROVE  TypeOK
<1>1. /\ Len(lru) = Cardinality(DOMAIN entries) /\ Keys(lru) = DOMAIN entries
      /\ Cardinality(DOMAIN entries) <= MaxEntries
  BY DistinctCount DEF IInv, Listed
<1> QED BY <1>1 DEF IInv, Typed, TypeOK, IsBucket

\* Whatever overtakes what, the bucket a tier's clients share grants no more than
\* the rate of the tier and what overtaken requests set its time back by; neither
\* does a client's own bucket if it is full again before it is forgotten.  The
\* map never outgrows its bound.
THEOREM Sustained == Spec => []SustainedRate
<1>1. IInv => SustainedRate
  BY RateFollows, SharedRateFollows, TypeFollows DEF SustainedRate
<1> QED BY <1>1, Invariance, PTL

\* Who comes back when a refusal has told it to is not refused again.
THEOREM NoWait == Spec => NoWaitIsWasted
<1> DEFINE A == \A r \in DOMAIN req \ DOMAIN req' :
                   /\ req[r].key \in DOMAIN entries'
                   /\ promised[req[r].key] <= req[r].now
                   => answer' = 0
<1>1. IInv /\ [Next]_vars => [A]_vars
  <2> SUFFICES ASSUME IInv, Next PROVE A
    OBVIOUS
  <2>1. ASSUME NEW r \in Request, Arrive(r) PROVE DOMAIN req \subseteq DOMAIN req'
    BY <2>1 DEF Arrive
  <2>2. ASSUME NEW r \in Request, Allow(r) PROVE A
    <3>1. r \in DOMAIN req BY <2>2 DEF Allow
    <3>2. PICK k, now : k = req[r].key /\ now = req[r].now OBVIOUS
    <3>3. DOMAIN req' = DOMAIN req \ {r}
      BY <2>2 DEF Allow, AllowOwn, AllowOverflow, Answer
    <3>4. k \in DOMAIN entries' /\ promised[k] <= now => answer' = 0
      <4>1. CASE AllowOwn(r) BY <3>1, <3>2, <4>1, AllowOwnStep DEF Kept
      <4>2. CASE AllowOverflow(r) BY <3>1, <3>2, <4>2, AllowOverflowStep
      <4> QED BY <2>2, <4>1, <4>2 DEF Allow
    <3>5. \A x \in DOMAIN req \ DOMAIN req' : x = r BY <3>3
    <3> QED BY <3>2, <3>4, <3>5
  <2>3. CASE Tick BY <2>3 DEF Tick
  <2> QED BY <2>1, <2>2, <2>3 DEF Next
<1> QED BY <1>1, Invariance, PTL DEF Spec, NoWaitIsWasted
=============================================================================
