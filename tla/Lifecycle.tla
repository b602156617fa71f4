------------------------------ MODULE Lifecycle ------------------------------
(***************************************************************************)
(* The life of one server process: the checks of the start, the two Redis  *)
(* stores and the database it opens, the requests that use them, and the   *)
(* shutdown that closes them again.                                        *)
(*                                                                         *)
(* Sources: cmd/main.go, internal/redisstore/{stores,client}.go,           *)
(* internal/database/db.go, internal/handler/health_handler.go.  Three     *)
(* kinds of threads: main, the goroutine that listens, and the requests.   *)
(* The HTTP server is net/http; what its Shutdown and ListenAndServe do is *)
(* modelled as main.go uses them.                                          *)
(***************************************************************************)
EXTENDS Naturals, Sequences

CONSTANTS
    Request,        \* the requests that may arrive
    Instance,       \* Redis processes; both addresses may lead to one
    None

ASSUME NoneIsNoAnswer == None \notin {"ok", "unavailable"}

VARIABLES
    main,           \* what main does next
    listener,       \* the goroutine that calls ListenAndServe
    shutting,       \* Shutdown was called
    asked,          \* a signal has cancelled the context
    timedOut,       \* HTTPShutdownTimeout passed before the requests ended
    open,           \* the connection pools that are open
    failing,        \* OpenStores is returning an error
    up,             \* the backends that can be reached
    at,             \* at[role]: the Redis process behind an address
    conf,           \* conf[i]: what INFO says of a Redis process
    ended,          \* how the process ended
    req             \* the requests

vars == <<main, listener, shutting, asked, timedOut, open, failing, up, at, conf,
          ended, req>>
config == <<at, conf>>
server == <<listener, shutting, asked, timedOut>>

Role == {"persist", "lru"}
Pool == Role \cup {"db"}
Backend == Instance \cup {"db"}

\* capped: maxmemory is exactly LRUMaxMemoryBytes.
Info == [policy : {"noeviction", "allkeys-lru"}, aof : BOOLEAN, capped : BOOLEAN]

Start == <<"validate", "log", "db", "ping", "persist", "lru", "roles", "migrate",
           "admins", "wire">>
Stop == <<"shutdown", "drain", "closeLru", "closePersist", "closeDb", "return">>
Stage == {Start[i] : i \in DOMAIN Start} \cup {Stop[i] : i \in DOMAIN Stop}
         \cup {"wait", "abandonLru", "abandonPersist"}

\* The pools a request uses, in order: one with a token has its revocation
\* looked up first, and the cache of counts is used last; readyz pings the
\* database, then Persist Redis.
Plan == [member |-> <<"persist", "db", "lru">>, public |-> <<"db", "lru">>,
         ready |-> <<"db", "persist">>]

TypeOK ==
    /\ main \in Stage
    /\ listener \in {"none", "starting", "bound", "serving", "closed"}
    /\ shutting \in BOOLEAN /\ asked \in BOOLEAN /\ timedOut \in BOOLEAN
    /\ open \subseteq Pool
    /\ failing \in BOOLEAN
    /\ up \subseteq Backend
    /\ at \in [Role -> Instance] /\ conf \in [Instance -> Info]
    /\ ended \in {"no", "returned", "failed", "killed"}
    /\ \A r \in Request :
          req[r] = None \/ /\ req[r].kind \in DOMAIN Plan
                           /\ req[r].n \in 0 .. Len(Plan[req[r].kind])
                           /\ req[r].answer \in {None, "ok", "unavailable"}
                           /\ req[r].answer = "ok" => req[r].n = Len(Plan[req[r].kind])

Init ==
    /\ main = "validate" /\ listener = "none"
    /\ shutting = FALSE /\ asked = FALSE /\ timedOut = FALSE
    /\ open = {} /\ failing = FALSE
    /\ up \in SUBSET Backend
    /\ at \in [Role -> Instance] /\ conf \in [Instance -> Info]
    /\ ended = "no"
    /\ req = [r \in Request |-> None]
-----------------------------------------------------------------------------
(* Main: the start *)

Running == ended = "no"
At(stage) == Running /\ main = stage

Backing(p) == IF p = "db" THEN "db" ELSE at[p]
Reaches(p) == Backing(p) \in up

\* logger.Fatal and os.Exit(1); the system takes back what is open.
Exit(how) == ended' = how

\* The next stage of the start.
After(stage) ==
    IF stage = "wire" THEN "wait"
    ELSE CHOOSE s \in Stage : \E i \in 1 .. Len(Start) - 1 :
                                 Start[i] = stage /\ Start[i + 1] = s
GoOn == main' = After(main)
GiveUp == Exit("failed") /\ UNCHANGED main

Pass == GoOn /\ UNCHANGED ended
Kept == UNCHANGED <<server, open, failing, up, config, req>>

\* Settings are missing or out of range, or both Redis addresses are the same
\* text; two texts may still lead to one process.
Validate == At("validate") /\ (Pass \/ GiveUp) /\ Kept

\* logger.Init may find no directory to write to.
InitLog == At("log") /\ (Pass \/ GiveUp) /\ Kept

\* AutoMigrate, unless the deployment does it.
Migrate == At("migrate") /\ (Pass \/ GiveUp) /\ Kept

\* ValidateExistingAdminUsers reads every administrator; one may be missing.
CheckAdmins ==
    /\ At("admins")
    /\ (Reaches("db") /\ Pass) \/ GiveUp
    /\ Kept

\* InitDB leaves an open pool behind; the ping that follows is main's own.
OpenDB ==
    /\ At("db")
    /\ \/ Reaches("db") /\ open' = open \cup {"db"} /\ Pass
       \/ ~Reaches("db") /\ GiveUp /\ UNCHANGED open
    /\ UNCHANGED <<server, failing, up, config, req>>

PingDB ==
    /\ At("ping")
    /\ IF Reaches("db") THEN Pass ELSE GiveUp
    /\ UNCHANGED <<server, open, failing, up, config, req>>

\* redisstore.Open closes its own pool again when the first PING fails.
OpenPersist ==
    /\ At("persist")
    /\ IF Reaches("persist")
       THEN open' = open \cup {"persist"} /\ Pass /\ UNCHANGED failing
       ELSE failing' = TRUE /\ GiveUp /\ UNCHANGED open
    /\ UNCHANGED <<server, up, config, req>>

OpenLRU ==
    /\ At("lru")
    /\ IF Reaches("lru")
       THEN open' = open \cup {"lru"} /\ GoOn /\ UNCHANGED failing
       ELSE failing' = TRUE /\ main' = "abandonPersist" /\ UNCHANGED open
    /\ UNCHANGED <<server, ended, up, config, req>>

RightPersist(c) == c.policy = "noeviction" /\ c.aof
RightLRU(c) == c.capped /\ c.policy = "allkeys-lru" /\ ~c.aof

\* validateRoles compares the run_id of the two processes last.
Mutant_ByAddress == RightPersist(conf[at["persist"]])
RolesAreRight ==
    /\ RightPersist(conf[at["persist"]])
    /\ RightLRU(conf[at["lru"]])
    /\ at["persist"] # at["lru"]

ValidateRoles ==
    /\ At("roles")
    /\ IF RolesAreRight /\ Reaches("persist") /\ Reaches("lru")
       THEN GoOn /\ UNCHANGED failing
       ELSE failing' = TRUE /\ main' = "abandonLru"
    /\ UNCHANGED <<server, open, ended, up, config, req>>

\* Stores.Close on the way out of OpenStores, then main's Fatal.
Abandon(p) ==
    /\ \/ p = "lru" /\ At("abandonLru") /\ main' = "abandonPersist" /\ UNCHANGED ended
       \/ p = "persist" /\ At("abandonPersist") /\ GiveUp
    /\ open' = open \ {p}
    /\ UNCHANGED <<server, failing, up, config, req>>

\* The limiter, the router, signal.NotifyContext, and the goroutine.
Wire ==
    /\ At("wire")
    /\ \/ listener' = "starting" /\ Pass
       \/ GiveUp /\ UNCHANGED listener
    /\ UNCHANGED <<shutting, asked, timedOut, open, failing, up, config, req>>
-----------------------------------------------------------------------------
(* Main: the shutdown *)

UnderWay(r) == req[r] # None /\ req[r].answer = None

Mutant_DontWait == TRUE
Quiet == \A r \in Request : ~UnderWay(r)

Wait ==
    /\ At("wait") /\ asked
    /\ main' = "shutdown"
    /\ UNCHANGED <<server, open, failing, ended, up, config, req>>

\* Shutdown first closes the listeners the server tracks.
Shutdown ==
    /\ At("shutdown")
    /\ shutting' = TRUE
    /\ listener' = IF listener = "serving" THEN "closed" ELSE listener
    /\ main' = "drain"
    /\ UNCHANGED <<asked, timedOut, open, failing, ended, up, config, req>>

\* shutdownCtx carries a deadline.
Mutant_Background(stage) == FALSE
HasDeadline(stage) == stage = "drain"

Drain ==
    /\ At("drain")
    /\ \/ Quiet /\ UNCHANGED timedOut
       \/ ~Quiet /\ HasDeadline(main) /\ timedOut' = TRUE
    /\ main' = "closeLru"
    /\ UNCHANGED <<listener, shutting, asked, open, failing, ended, up, config, req>>

\* Stores.Close closes LRU, then Persist; the database comes last.
Close(p) ==
    /\ \/ p = "lru" /\ At("closeLru") /\ main' = "closePersist"
       \/ p = "persist" /\ At("closePersist") /\ main' = "closeDb"
       \/ p = "db" /\ At("closeDb") /\ main' = "return"
    /\ open' = open \ {p}
    /\ UNCHANGED <<server, failing, ended, up, config, req>>

Return ==
    /\ At("return")
    /\ Exit("returned")
    /\ UNCHANGED <<main, server, open, failing, up, config, req>>

MainStep ==
    \/ Validate \/ InitLog \/ Migrate \/ CheckAdmins
    \/ OpenDB \/ PingDB \/ OpenPersist \/ OpenLRU \/ ValidateRoles
    \/ \E p \in Role : Abandon(p)
    \/ Wire \/ Wait \/ Shutdown \/ Drain
    \/ \E p \in Pool : Close(p)
    \/ Return
-----------------------------------------------------------------------------
(* The goroutine that listens, signals, and backends *)

\* ListenAndServe looks at inShutdown before it binds the port, and again
\* before Serve tracks the listener.
StillWanted == ~shutting

Listen ==
    /\ Running /\ listener \in {"starting", "bound", "serving"}
    /\ \/ /\ StillWanted /\ listener # "serving"
          /\ listener' = IF listener = "starting" THEN "bound" ELSE "serving"
          /\ UNCHANGED ended
       \/ ~StillWanted /\ listener' = "closed" /\ UNCHANGED ended
       \/ StillWanted /\ Exit("failed") /\ UNCHANGED listener
    /\ UNCHANGED <<main, shutting, asked, timedOut, open, failing, up, config, req>>

\* SIGINT or SIGTERM cancels the context between NotifyContext and stop, and
\* ends the process at once at any other time.
Signal ==
    /\ Running
    /\ IF main = "wait" /\ ~asked THEN asked' = TRUE /\ UNCHANGED ended
       ELSE IF main = "wait" THEN UNCHANGED <<asked, ended>>
       ELSE Exit("killed") /\ UNCHANGED asked
    /\ UNCHANGED <<main, listener, shutting, timedOut, open, failing, up, config, req>>

\* A backend goes away or comes back.
Toggle(b) ==
    /\ Running
    /\ up' = IF b \in up THEN up \ {b} ELSE up \cup {b}
    /\ UNCHANGED <<main, server, open, failing, config, ended, req>>
-----------------------------------------------------------------------------
(* Requests *)

Accept(r, kind) ==
    /\ Running /\ listener = "serving" /\ req[r] = None
    /\ req' = [req EXCEPT ![r] = [kind |-> kind, n |-> 0, answer |-> None]]
    /\ UNCHANGED <<main, server, open, failing, up, config, ended>>

Mutant_SkipLast(q) == q.n + 1 = Len(Plan[q.kind])
Finished(q) == q.n = Len(Plan[q.kind])

\* What a request finds: a pool that is closed answers like a backend that is
\* away.  The cache may fail without the request failing.
Works(p) == p \in open /\ Reaches(p)
Optional(p) == p = "lru"

\* One operation of a request, or its answer.
Serve(r) ==
    LET q == req[r]
        p == Plan[q.kind][q.n + 1]
    IN
    /\ Running /\ UnderWay(r)
    /\ req' = [req EXCEPT ![r] =
                IF Finished(q) THEN [q EXCEPT !.answer = "ok"]
                ELSE IF Works(p) \/ Optional(p) THEN [q EXCEPT !.n = @ + 1]
                ELSE [q EXCEPT !.answer = "unavailable"]]
    /\ UNCHANGED <<main, server, open, failing, up, config, ended>>

Next ==
    \/ MainStep \/ Listen \/ Signal
    \/ \E b \in Backend : Toggle(b)
    \/ \E r \in Request : Serve(r) \/ \E kind \in DOMAIN Plan : Accept(r, kind)

\* Main is scheduled, and the timer of the shutdown runs out.  Nothing is
\* asked of requests, of backends or of the signals.
Spec == Init /\ [][Next]_vars /\ WF_vars(MainStep)
-----------------------------------------------------------------------------
(* Properties *)

\* A request never finds a pool closed under it, unless the shutdown has run
\* out of time (main.go, steps 8 and 9).
RequestsFindTheirPools ==
    \A r \in Request : Running /\ UnderWay(r) =>
        \/ timedOut
        \/ \A i \in DOMAIN Plan[req[r].kind] : Plan[req[r].kind][i] \in open

\* "If any check fails, every connection opened by this function is closed"
\* (stores.go, OpenStores): when main gives up over it, no store is open.
FailedOpeningLeavesNothing == failing /\ ended = "failed" => open \cap Role = {}

\* No request is let in before both stores were found to be what they are
\* for: the revocations are never in an evicting cache.
ServesWithRightStores ==
    listener = "serving" =>
        /\ conf[at["persist"]].policy = "noeviction" /\ conf[at["persist"]].aof
        /\ conf[at["lru"]].policy = "allkeys-lru"
        /\ at["persist"] # at["lru"]

\* The process keeps its parts in the states they may be in, requests included.
PoolsOutliveRequests ==
    /\ TypeOK
    /\ RequestsFindTheirPools /\ FailedOpeningLeavesNothing /\ ServesWithRightStores

\* Once a signal was taken, the process ends, whatever its requests do.
StopsWhenAsked == asked ~> ended # "no"
=============================================================================
