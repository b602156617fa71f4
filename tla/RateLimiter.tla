----------------------------- MODULE RateLimiter -----------------------------
(***************************************************************************)
(* The rate limiter in front of every /api route: token buckets per client *)
(* and tier, in the memory of one process.                                 *)
(*                                                                         *)
(* Source: internal/middleware/rate_limit.go.  A request reads the clock   *)
(* before it takes the mutex, so requests reach the buckets in another     *)
(* order than their times.  The buckets are touched in one critical        *)
(* section, which is one step here.                                        *)
(*                                                                         *)
(* One tick of the clock is one second.  A tier refills Requests tokens in *)
(* Window seconds; tokens are counted in units of 1/Window, so that one    *)
(* second adds Requests units and a request costs Window units.            *)
(***************************************************************************)
EXTENDS Integers, FiniteSets, SequencesExt

CONSTANTS
    Request,        \* requests under way, each followed by another one
    Address,        \* client addresses; one may stand for "ip:unknown"
    User,           \* user ids in signed tokens
    NoUser,         \* no token, or none with a valid signature
    Route,          \* the routes requests are sent to
    Policy,         \* Policy[tier]: the configured requests, window, burst
    MaxEntries,     \* RATE_LIMIT_MAX_ENTRIES
    IdleTTL,        \* RATE_LIMIT_IDLE_TTL
    MaxTime         \* bound: the clock stops here

Tier == {"login", "register", "search", "write", "read"}

Routes == {"POST /api/login", "POST /api/register", "GET /api/search",
           "GET", "HEAD", "OPTIONS", "POST /api/user/posts", "mutation"}

\* What NewTieredRateLimiter refuses to be built without.
ASSUME ConfigOK ==
    /\ \A t \in Tier :
          /\ Policy[t].requests \in Nat \ {0}
          /\ Policy[t].window \in Nat \ {0}
          /\ Policy[t].burst \in Nat \ {0}
    /\ MaxEntries \in Nat \ {0}
    /\ IdleTTL \in Nat \ {0}

ASSUME NamesOK ==
    /\ Route \subseteq Routes
    /\ Address \cap User = {}
    /\ NoUser \notin User \cup Address
    /\ MaxTime \in Nat

VARIABLES
    clock,          \* what time.Now returns
    entries,        \* the buckets, by tier and identity
    overflow,       \* the shared buckets for clients there is no room for
    lru,            \* the keys of entries, longest unused first
    req,            \* the key and the time of each request under way
    answer,         \* the last one: 0, admitted, or 429 with this Retry-After
    granted,        \* history: requests admitted from each bucket
    touched,        \* history: the time a bucket was last used or forgotten at
    rewound,        \* history: the seconds a bucket's time was set back by, in all
    promised        \* history: when the Retry-After of a refusal has passed

history == <<granted, touched, rewound, promised>>
vars == <<clock, entries, overflow, lru, req, answer, history>>

ClassifyRateTier(route) ==
    CASE route = "POST /api/login"    -> "login"
      [] route = "POST /api/register" -> "register"
      [] route = "GET /api/search"    -> "search"
      [] route \in {"GET", "HEAD", "OPTIONS", "POST /api/user/posts"} -> "read"
      [] route = "mutation"           -> "write"

Key == {ClassifyRateTier(route) : route \in Route} \X (Address \cup User)

\* The buckets: one of each key, and for each tier the one of overflow, which
\* is nobody's own.
Shared(tier) == <<tier, NoUser>>
Bucket == Key \cup {Shared(tier) : tier \in Tier}

Time == 0 .. MaxTime

Entry == [tokens : Nat, updatedAt : Time, lastSeen : Time]
Locals == [key : Key, now : Time]

Never == MaxTime + 1
Keys(seq) == ToSet(seq)

Cost(tier) == Policy[tier].window
Fill(tier) == Policy[tier].requests
Capacity(tier) == Policy[tier].burst * Cost(tier)

TypeOK ==
    /\ clock \in Time
    /\ DOMAIN entries \subseteq Key
    /\ \A k \in DOMAIN entries :
          entries[k] \in Entry /\ entries[k].tokens <= Capacity(k[1])
    /\ DOMAIN overflow \subseteq Tier
    /\ \A t \in DOMAIN overflow :
          overflow[t] \in Entry /\ overflow[t].tokens <= Capacity(t)
    \* the list holds the keys of the map, each once, and the map is bounded
    /\ Len(lru) = Cardinality(DOMAIN entries)
    /\ Keys(lru) = DOMAIN entries
    /\ Cardinality(DOMAIN entries) <= MaxEntries
    /\ DOMAIN req \subseteq Request
    /\ \A r \in DOMAIN req : req[r] \in Locals
    /\ answer \in Nat
    /\ granted \in [Bucket -> Nat]
    /\ touched \in [Bucket -> Time]
    /\ rewound \in [Bucket -> Nat]
    /\ promised \in [Key -> Nat]

Empty == [k \in {} |-> k]

Init ==
    /\ clock = 0
    /\ entries = Empty /\ overflow = Empty /\ lru = <<>>
    /\ req = Empty /\ answer = 0
    /\ granted = [b \in Bucket |-> 0]
    /\ touched = [b \in Bucket |-> 0]
    /\ rewound = [b \in Bucket |-> 0]
    /\ promised = [k \in Key |-> Never]
-----------------------------------------------------------------------------
(* A request arrives: its tier, its identity, its time *)

\* Only mutations are counted by user, and only with a valid signature.
Identity(tier, address, user) ==
    IF tier = "write" /\ user # NoUser THEN user ELSE address

Arrive(r) ==
    /\ r \notin DOMAIN req
    /\ \E route \in Route, address \in Address, user \in User \cup {NoUser} :
          LET tier == ClassifyRateTier(route) IN
          req' = [x \in DOMAIN req \cup {r} |->
                    IF x # r THEN req[x]
                    ELSE [key |-> <<tier, Identity(tier, address, user)>>,
                          now |-> clock]]
    /\ UNCHANGED <<clock, entries, overflow, lru, answer, history>>
-----------------------------------------------------------------------------
(* The buckets *)

NewEntry(tier, now) ==
    [tokens |-> Capacity(tier), updatedAt |-> now, lastSeen |-> now]

Mutant_Distance(entry, now) ==
    IF now < entry.updatedAt THEN entry.updatedAt - now ELSE now - entry.updatedAt

\* Time that runs backwards adds nothing, and yet becomes the bucket's time.
Elapsed(entry, now) ==
    IF now < entry.updatedAt THEN 0 ELSE now - entry.updatedAt

Mutant_NotStamped(entry, now) == [entry EXCEPT !.lastSeen = now]
Stamped(entry, now) == [entry EXCEPT !.updatedAt = now, !.lastSeen = now]

Refilled(entry, tier, now) ==
    LET full == entry.tokens + Elapsed(entry, now) * Fill(tier) IN
    [Stamped(entry, now) EXCEPT
        !.tokens = IF full > Capacity(tier) THEN Capacity(tier) ELSE full]

HasToken(entry, tier) == entry.tokens >= Cost(tier)

\* The bucket as consumeToken leaves it.
Consumed(entry, tier, now) ==
    LET e == Refilled(entry, tier, now) IN
    IF HasToken(e, tier) THEN [e EXCEPT !.tokens = @ - Cost(tier)] ELSE e

Mutant_RoundDown(units, tier) == units \div Fill(tier)

\* Whole seconds, rounded up, in which a tier refills so many units.
Seconds(units, tier) == (units + Fill(tier) - 1) \div Fill(tier)

\* The header of a refusal: until the bucket holds a token, at least 1.
RetryAfter(entry, tier) ==
    LET wait == Seconds(Cost(tier) - entry.tokens, tier) IN
    IF wait < 1 THEN 1 ELSE wait

IdleFor(key, now) == now - entries[key].lastSeen >= IdleTTL

\* pruneIdle: the list without the idle keys at its front.
Unpruned(now) ==
    LET idle == CHOOSE n \in 0 .. Len(lru) :
                    /\ \A i \in 1 .. n : IdleFor(lru[i], now)
                    /\ n < Len(lru) => ~IdleFor(lru[n + 1], now)
    IN  SubSeq(lru, idle + 1, Len(lru))

Mutant_OneMore(count) == count <= MaxEntries
HasRoom(count) == count < MaxEntries

Answer(r, entry, tier) ==
    /\ req' = [x \in DOMAIN req \ {r} |-> req[x]]
    /\ answer' = IF HasToken(entry, tier) THEN 0 ELSE RetryAfter(entry, tier)

\* History: bucket `used` was used at time now, those in `gone` were forgotten.
Note(now, used, gone) ==
    /\ touched' = [b \in Bucket |-> IF b \in {used} \cup gone THEN now ELSE touched[b]]
    /\ rewound' = [b \in Bucket |-> IF b = used /\ b \notin gone /\ now < touched[b]
                                   THEN rewound[b] + (touched[b] - now) ELSE rewound[b]]

\* allow with a bucket of the client's own, which may be a new one.
AllowOwn(r) ==
    LET q == req[r]
        tier == q.key[1]
        live == Unpruned(q.now)
        known == q.key \in Keys(live)
        entry == IF known THEN entries[q.key] ELSE NewEntry(tier, q.now)
        ready == Refilled(entry, tier, q.now)
    IN
    /\ known \/ HasRoom(Len(live))
    /\ lru' = Append(RemoveFirst(live, q.key), q.key)
    /\ entries' = [k \in Keys(live) \cup {q.key} |->
                     IF k = q.key THEN Consumed(entry, tier, q.now) ELSE entries[k]]
    /\ Answer(r, ready, tier)
    /\ Note(q.now, q.key, Keys(lru) \ Keys(live))
    /\ IF HasToken(ready, tier)
       THEN /\ granted' = [granted EXCEPT ![q.key] = @ + 1]
            /\ promised' = [promised EXCEPT ![q.key] = Never]
       ELSE /\ promised' = [promised EXCEPT ![q.key] =
                              LET due == q.now + RetryAfter(ready, tier)
                              IN  IF due < @ THEN due ELSE @]
            /\ UNCHANGED granted
    /\ UNCHANGED <<clock, overflow>>

Mutant_OneEach(tier, now) == NewEntry(tier, now)
OverflowEntry(tier, now) ==
    IF tier \in DOMAIN overflow THEN overflow[tier] ELSE NewEntry(tier, now)

\* allow without room: the client shares the bucket of its tier.
AllowOverflow(r) ==
    LET q == req[r]
        tier == q.key[1]
        live == Unpruned(q.now)
        entry == OverflowEntry(tier, q.now)
        ready == Refilled(entry, tier, q.now)
    IN
    /\ q.key \notin Keys(live) /\ ~HasRoom(Len(live))
    /\ lru' = live
    /\ entries' = [k \in Keys(live) |-> entries[k]]
    /\ overflow' = [t \in DOMAIN overflow \cup {tier} |->
                      IF t = tier THEN Consumed(entry, tier, q.now) ELSE overflow[t]]
    /\ Answer(r, ready, tier)
    /\ Note(q.now, Shared(tier), Keys(lru) \ Keys(live))
    /\ granted' = IF HasToken(ready, tier) THEN [granted EXCEPT ![Shared(tier)] = @ + 1]
                  ELSE granted
    /\ UNCHANGED <<clock, promised>>

Allow(r) ==
    /\ r \in DOMAIN req
    /\ AllowOwn(r) \/ AllowOverflow(r)

Tick ==
    /\ clock < MaxTime
    /\ clock' = clock + 1
    /\ UNCHANGED <<entries, overflow, lru, req, answer, history>>

Next ==
    \/ \E r \in Request : Arrive(r) \/ Allow(r)
    \/ Tick

Spec == Init /\ [][Next]_vars
-----------------------------------------------------------------------------
(* Properties *)

\* What Requests, Window and Burst promise of one bucket, counted from the start:
\* Burst requests, and Requests more for every Window that has passed.  A
\* request that is overtaken on its way to the mutex sets the bucket's time back,
\* and what lies between is refilled twice: those seconds are added, no more.
WithinRate(b) ==
    granted[b] * Cost(b[1]) <= Capacity(b[1]) + (clock + rewound[b]) * Fill(b[1])

\* A bucket forgotten after IdleTTL would have been full again by then.
ForgetsOnlyFull(tier) == IdleTTL * Fill(tier) >= Capacity(tier)

\* Whatever overtakes what, a client's own bucket grants no more than its tier's
\* rate, also when it is forgotten and made anew between two requests; and the
\* clients there is no room for get no more than that from the bucket they
\* share, all of them together.  A client that is moved from one to the other
\* may use up both.  The map never holds more than its bound (TypeOK).
SustainedRate ==
    /\ TypeOK
    /\ \A k \in Key : ForgetsOnlyFull(k[1]) => WithinRate(k)
    /\ \A tier \in Tier : WithinRate(Shared(tier))

\* Who is told to come back after some seconds, and does, is admitted, unless
\* another request of the same bucket was in the meantime or the client has
\* lost its bucket: the Retry-After header is never too short.
NoWaitIsWasted ==
    [][\A r \in DOMAIN req \ DOMAIN req' :
          /\ req[r].key \in DOMAIN entries'
          /\ promised[req[r].key] <= req[r].now
          => answer' = 0]_vars
=============================================================================
