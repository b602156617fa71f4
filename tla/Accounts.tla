------------------------------ MODULE Accounts ------------------------------
(***************************************************************************)
(* Login, authentication, logout, password change, password reset and mute *)
(* of my-bbs, as concurrent HTTP requests.                                 *)
(*                                                                         *)
(* Sources: internal/service/user_service.go, internal/middleware/auth.go, *)
(* internal/authsession/revocation.go, pkg/jwt/jwt.go and the user         *)
(* repository.  Each request is a goroutine; one SQL statement or one      *)
(* Redis command of it is one atomic step, so every gap between two of     *)
(* them is a place where other requests, time or a failure can come in.    *)
(*                                                                         *)
(* A JWT is its claims: the server keeps no table of tokens.  `proven` is  *)
(* the one ghost field, the password the login checked.  A bcrypt hash is  *)
(* modelled by the password it accepts.                                    *)
(***************************************************************************)
EXTENDS Naturals

CONSTANTS
    Users,          \* rows of the users table
    Admins,         \* accounts whose username is in ADMIN_USERS
    LongNames,      \* accounts whose username exceeds bcrypt's 72 bytes
    Passwords,      \* every password in play
    Acceptable,     \* those validatePassword accepts as a new password
    NamePassword,   \* NamePassword[u]: the username of u as a password
    Requests,       \* HTTP requests; each is issued once
    OldSessions,    \* JTIs of tokens that were issued before the model starts
    SessionOwner,   \* SessionOwner[s]: the account of an old session
    FirstPassword,  \* FirstPassword[u]: the password u starts with
    FirstMuted,     \* the accounts that start muted
    Workload,       \* bound: Workload[r], the kinds of request r may be
    TokenLife,      \* lifetime of a token (24 hours), in clock ticks
    MaxTime,        \* bound: the clock stops here
    None            \* no value

ASSUME ConstantsOK ==
    /\ Admins \subseteq Users
    /\ LongNames \subseteq Users
    /\ Acceptable \subseteq Passwords
    /\ NamePassword \in [Users -> Passwords]
    /\ FirstPassword \in [Users -> Passwords]
    /\ FirstMuted \subseteq Users
    /\ SessionOwner \in [OldSessions -> Users]
    /\ Requests \cap OldSessions = {}
    /\ TokenLife \in Nat \ {0}
    /\ MaxTime \in Nat

VARIABLES
    password, version, status,  \* users: password, session_version, status
    tokens,                     \* every JWT handed to a client
    revokedUntil, persistUp,    \* Persist Redis: when each revocation key expires
    now,                        \* the clock of the server and of Redis
    req, pc,                    \* each request: its local variables, its next step
    acknowledged,               \* ghost: JTIs whose logout was answered with success
    loggedOut, superseded       \* ghosts: requests that came with a dead token

db == <<password, version, status>>
redis == <<revokedUntil, persistUp>>
arrivals == <<loggedOut, superseded>>
vars == <<password, version, status, tokens, revokedUntil, persistUp, now,
          req, pc, acknowledged, loggedOut, superseded>>

TokenIds == Requests \cup OldSessions
Statuses == {"normal", "muted"}

Token == [id : TokenIds, owner : Users, version : Nat, exp : Nat,
          proven : Passwords]

Managing == {"mute", "unmute", "reset"}
\* "me" is a read behind Auth, "browse" one behind OptionalAuth.
Kinds == {"login", "me", "browse", "change", "logout"} \cup Managing

\* The locals of a request, one shape for all kinds: what a kind does not use
\* is None.  `seen` is the value carried from one statement to the next.
Request == [kind : Kinds, claims : Token \cup {None}, target : Users \cup {None},
            old : Passwords \cup {None}, new : Passwords \cup {None}, seen : Nat]

Answers == {"ok", "anonymous", "rejected", "error"}
\* The steps of a handler behind Auth.
Inside == {"change", "cas", "remaining", "set", "actor", "target", "status",
           "reset"}
Steps == {"issue", "revocation", "load"} \cup Inside

TypeOK ==
    /\ password \in [Users -> Passwords]
    /\ version \in [Users -> Nat]
    /\ status \in [Users -> Statuses]
    /\ tokens \subseteq Token
    /\ revokedUntil \in [TokenIds -> Nat]
    /\ persistUp \in BOOLEAN
    /\ now \in Nat
    /\ req \in [Requests -> Request \cup {None}]
    /\ pc \in [Requests -> Steps \cup Answers \cup {"idle"}]
    /\ acknowledged \subseteq TokenIds
    /\ loggedOut \subseteq Requests
    /\ superseded \subseteq Requests

Init ==
    /\ password = FirstPassword
    /\ version = [u \in Users |-> 0]
    /\ status = [u \in Users |-> IF u \in FirstMuted THEN "muted" ELSE "normal"]
    /\ tokens = {[id |-> s, owner |-> SessionOwner[s], version |-> 0,
                  exp |-> TokenLife, proven |-> password[SessionOwner[s]]] :
                     s \in OldSessions}
    /\ revokedUntil = [i \in TokenIds |-> 0]
    /\ persistUp = TRUE
    /\ now = 0
    /\ req = [r \in Requests |-> None]
    /\ pc = [r \in Requests |-> "idle"]
    /\ acknowledged = {}
    /\ loggedOut = {}
    /\ superseded = {}
-----------------------------------------------------------------------------
Claims(r) == req[r].claims
Owner(r) == Claims(r).owner
Target(r) == req[r].target
Seen(r) == req[r].seen

\* The request goes on to its next statement,
Goto(r, step) ==
    /\ pc' = [pc EXCEPT ![r] = step]
    /\ UNCHANGED req

\* with a value it has just read or computed,
GotoWith(r, step, value) ==
    /\ pc' = [pc EXCEPT ![r] = step]
    /\ req' = [req EXCEPT ![r].seen = value]

\* or is answered, and its locals are gone.
Reply(r, answer) ==
    /\ pc' = [pc EXCEPT ![r] = answer]
    /\ req' = [req EXCEPT ![r] = None]

\* A write whose acknowledgement is lost is answered as an error.
ReplyWritten(r) == \E answer \in {"ok", "error"} : Reply(r, answer)

IsActive(u) == status[u] = "normal"
-----------------------------------------------------------------------------
(* Login *)

\* FindUserByUsername, and the bcrypt comparison with the row it read.
BeginLogin(r) ==
    /\ pc[r] = "idle"
    /\ "login" \in Workload[r]
    /\ \E u \in Users, given \in Passwords :
           IF given = password[u]
           THEN /\ pc' = [pc EXCEPT ![r] = "issue"]
                /\ req' = [req EXCEPT ![r] =
                       [kind |-> "login", claims |-> None, target |-> u,
                        old |-> given, new |-> None, seen |-> version[u]]]
           ELSE Reply(r, "rejected")
    /\ UNCHANGED <<db, tokens, redis, now, acknowledged, arrivals>>

\* The token carries the session version read together with the password.
Mutant_LatestVersion(r) == version[Target(r)]
SignedVersion(r) == Seen(r)

IssueToken(r) ==
    /\ pc[r] = "issue"
    /\ tokens' = tokens \cup
           {[id |-> r, owner |-> Target(r), version |-> SignedVersion(r),
             exp |-> now + TokenLife, proven |-> req[r].old]}
    /\ Reply(r, "ok")
    /\ UNCHANGED <<db, redis, now, acknowledged, arrivals>>
-----------------------------------------------------------------------------
(* Auth and OptionalAuth *)

\* The requests a client can make with token tk.
Inputs(tk) ==
    {[kind |-> k, claims |-> tk, target |-> None, old |-> None, new |-> None,
      seen |-> 0] : k \in {"me", "browse", "logout"}} \cup
    {[kind |-> "change", claims |-> tk, target |-> None, old |-> o, new |-> n,
      seen |-> 0] : o \in Passwords, n \in Passwords} \cup
    {[kind |-> k, claims |-> tk, target |-> u, old |-> None, new |-> None,
      seen |-> 0] : k \in Managing, u \in Users}

\* The expiry check of ParseClaims.
NotExpired(tk) == now < tk.exp

\* What a bad token costs: Auth refuses, OptionalAuth goes on without identity.
Refuse(r, kind) == Reply(r, IF kind = "browse" THEN "anonymous" ELSE "rejected")

BeginAuthenticated(r) ==
    /\ pc[r] = "idle"
    /\ \E tk \in tokens : \E input \in Inputs(tk) :
           /\ input.kind \in Workload[r]
           /\ IF NotExpired(tk)
              THEN /\ pc' = [pc EXCEPT ![r] = "revocation"]
                   /\ req' = [req EXCEPT ![r] = input]
              ELSE Refuse(r, input.kind)
           /\ loggedOut' = IF tk.id \in acknowledged
                           THEN loggedOut \cup {r} ELSE loggedOut
           /\ superseded' = IF tk.version # version[tk.owner]
                            THEN superseded \cup {r} ELSE superseded
    /\ UNCHANGED <<db, tokens, redis, now, acknowledged>>

IsRevoked(id) == now < revokedUntil[id]

\* authsession.IsRevoked: an unreachable Redis fails the request.  The ghost
\* forgets a request whose token expired between ParseClaims and this command.
CheckRevocation(r) ==
    /\ pc[r] = "revocation"
    /\ \/ ~persistUp /\ Reply(r, "error")
       \/ persistUp /\ IsRevoked(Claims(r).id) /\ Refuse(r, req[r].kind)
       \/ persistUp /\ ~IsRevoked(Claims(r).id) /\ Goto(r, "load")
    /\ loggedOut' = IF NotExpired(Claims(r)) THEN loggedOut ELSE loggedOut \ {r}
    /\ UNCHANGED <<db, tokens, redis, now, acknowledged, superseded>>

Mutant_AnyVersion(tk) == TRUE
VersionMatches(tk) == tk.version = version[tk.owner]

\* RequireActiveUser guards the managing routes, with the status just read.
EnterHandler(r) ==
    \/ req[r].kind \in {"me", "browse"} /\ Reply(r, "ok")
    \/ req[r].kind = "change" /\ Goto(r, "change")
    \/ req[r].kind = "logout" /\ Goto(r, "remaining")
    \/ req[r].kind \in Managing /\ IsActive(Owner(r)) /\ Goto(r, "actor")
    \/ req[r].kind \in Managing /\ ~IsActive(Owner(r)) /\ Reply(r, "rejected")

\* FindUserByID and the comparison of its session version with the claims'.
LoadUser(r) ==
    /\ pc[r] = "load"
    /\ IF VersionMatches(Claims(r)) THEN EnterHandler(r)
                                    ELSE Refuse(r, req[r].kind)
    /\ UNCHANGED <<db, tokens, redis, now, acknowledged, arrivals>>
-----------------------------------------------------------------------------
(* ChangePassword *)

\* UserService.ChangePassword up to the repository call, on the row it reads.
CheckPasswordChange(r) ==
    /\ pc[r] = "change"
    /\ IF /\ VersionMatches(Claims(r))
          /\ req[r].new \in Acceptable
          /\ req[r].old = password[Owner(r)]
          /\ req[r].old # req[r].new
       THEN Goto(r, "cas")
       ELSE Reply(r, "rejected")
    /\ UNCHANGED <<db, tokens, redis, now, acknowledged, arrivals>>

\* The WHERE clause of UpdatePasswordHash.
Mutant_CasAlways(u, expected) == TRUE
CasMatches(u, expected) == version[u] = expected

Mutant_SameVersion(v) == v
NextVersion(v) == v + 1

\* One UPDATE: compare session_version, store the hash, increment.
UpdatePasswordHash(r, u, expected, hash) ==
    IF CasMatches(u, expected)
    THEN /\ password' = [password EXCEPT ![u] = hash]
         /\ version' = [version EXCEPT ![u] = NextVersion(@)]
         /\ ReplyWritten(r)
    ELSE /\ UNCHANGED <<password, version>>
         /\ Reply(r, "rejected")

WritePasswordChange(r) ==
    /\ pc[r] = "cas"
    /\ UpdatePasswordHash(r, Owner(r), Claims(r).version, req[r].new)
    /\ UNCHANGED <<status, tokens, redis, now, acknowledged, arrivals>>
-----------------------------------------------------------------------------
(* Logout *)

Mutant_ShortTTL(tk) == tk.exp - now - 1
Remaining(tk) == tk.exp - now

\* Revoke computes the TTL; an expired token needs no record.
ComputeRemaining(r) ==
    /\ pc[r] = "remaining"
    /\ IF NotExpired(Claims(r))
       THEN /\ GotoWith(r, "set", Remaining(Claims(r)))
            /\ UNCHANGED acknowledged
       ELSE /\ Reply(r, "ok")
            /\ acknowledged' = acknowledged \cup {Claims(r).id}
    /\ UNCHANGED <<db, tokens, redis, now, arrivals>>

\* SET with the TTL, which runs from the moment Redis executes the command.
StoreRevocation(r) ==
    /\ persistUp
    /\ revokedUntil' = [revokedUntil EXCEPT ![Claims(r).id] = now + Seen(r)]
    /\ \/ /\ Reply(r, "ok")
          /\ acknowledged' = acknowledged \cup {Claims(r).id}
       \/ /\ Reply(r, "error")      \* stored, but the acknowledgement is lost
          /\ UNCHANGED acknowledged

Mutant_WaitForRedis(r) == FALSE
FailRevocation(r) ==
    /\ ~persistUp
    /\ Reply(r, "error")
    /\ UNCHANGED <<revokedUntil, acknowledged>>

SetRevocation(r) ==
    /\ pc[r] = "set"
    /\ StoreRevocation(r) \/ FailRevocation(r)
    /\ UNCHANGED <<db, tokens, persistUp, now, arrivals>>
-----------------------------------------------------------------------------
(* SetUserStatus and ResetUserPassword *)

\* The service reads the actor's row again.
CheckActor(r) ==
    /\ pc[r] = "actor"
    /\ IF IsActive(Owner(r)) /\ Owner(r) \in Admins
       THEN Goto(r, "target")
       ELSE Reply(r, "rejected")
    /\ UNCHANGED <<db, tokens, redis, now, acknowledged, arrivals>>

Mutant_AnyTarget(r) == req[r].kind = "reset" => Target(r) \notin LongNames
TargetAllowed(r) ==
    /\ Target(r) \notin Admins
    /\ req[r].kind = "reset" => Target(r) \notin LongNames

CheckTarget(r) ==
    /\ pc[r] = "target"
    /\ IF TargetAllowed(r)
       THEN IF req[r].kind = "reset"
            THEN GotoWith(r, "reset", version[Target(r)])
            ELSE Goto(r, "status")
       ELSE Reply(r, "rejected")
    /\ UNCHANGED <<db, tokens, redis, now, acknowledged, arrivals>>

\* The status each of the two routes passes to SetUserStatus.
Mutant_RouteName(kind) == kind
StatusFor(kind) == IF kind = "mute" THEN "muted" ELSE "normal"

WriteStatus(r) ==
    /\ pc[r] = "status"
    /\ status' = [status EXCEPT ![Target(r)] = StatusFor(req[r].kind)]
    /\ ReplyWritten(r)
    /\ UNCHANGED <<password, version, tokens, redis, now, acknowledged, arrivals>>

WriteReset(r) ==
    /\ pc[r] = "reset"
    /\ UpdatePasswordHash(r, Target(r), Seen(r), NamePassword[Target(r)])
    /\ UNCHANGED <<status, tokens, redis, now, acknowledged, arrivals>>
-----------------------------------------------------------------------------
(* Environment *)

\* The database fails or the client's context ends before the next statement.
Abort(r) ==
    /\ pc[r] \in Steps
    /\ Reply(r, "error")
    /\ UNCHANGED <<db, tokens, redis, now, acknowledged, arrivals>>

\* Persist Redis becomes unreachable, or reachable again with its records.
TogglePersist ==
    /\ persistUp' = ~persistUp
    /\ UNCHANGED <<db, tokens, revokedUntil, now, req, pc, acknowledged, arrivals>>

Tick ==
    /\ now < MaxTime
    /\ now' = now + 1
    /\ UNCHANGED <<db, tokens, redis, req, pc, acknowledged, arrivals>>
-----------------------------------------------------------------------------
Step(r) ==
    \/ IssueToken(r)
    \/ CheckRevocation(r)
    \/ LoadUser(r)
    \/ CheckPasswordChange(r)
    \/ WritePasswordChange(r)
    \/ ComputeRemaining(r)
    \/ SetRevocation(r)
    \/ CheckActor(r)
    \/ CheckTarget(r)
    \/ WriteStatus(r)
    \/ WriteReset(r)

Next ==
    \/ \E r \in Requests : BeginLogin(r) \/ BeginAuthenticated(r)
                           \/ Step(r) \/ Abort(r)
    \/ TogglePersist
    \/ Tick

Spec == Init /\ [][Next]_vars
-----------------------------------------------------------------------------
(* Properties *)

\* A token whose session version is still current was issued to someone who
\* proved the password now in force, however login, password change and reset
\* interleave (Login reads the row once and signs what it read).
TokenBindsPassword ==
    \A tk \in tokens : tk.version = version[tk.owner]
                           => tk.proven = password[tk.owner]

\* Let through by Auth, or identified by OptionalAuth.
Admitted(r) == pc[r] \in Inside \cup {"ok"}

\* Once a logout was answered with success, a request that arrives later with
\* the same token is not let through.  The exception is the instant of expiry:
\* the claims are parsed just before it and Redis is asked just after it.
LoggedOutStaysOut == \A r \in loggedOut : ~Admitted(r)

\* A request that arrives with a token older than the last replacement of the
\* password is never let through, whatever happens while it is checked.
SupersededStaysOut == \A r \in superseded : ~Admitted(r)

\* The stored password changes in two ways only: its owner replaces exactly the
\* password it proved, or an administrator resets the row of another account
\* that nobody changed since it was read.  A concurrent change or reset is never overwritten.
OwnedPasswordWrite ==
    \A u \in Users : version'[u] # version[u] \/ password'[u] # password[u] =>
        \E r \in Requests :
            \/ /\ pc[r] = "cas" /\ pc'[r] # "cas"
               /\ Owner(r) = u
               /\ req[r].old = password[u] /\ req[r].new = password'[u]
            \/ /\ pc[r] = "reset" /\ pc'[r] # "reset"
               /\ Target(r) = u /\ u \notin Admins /\ Owner(r) \in Admins
               /\ Seen(r) = version[u] /\ NamePassword[u] = password'[u]
PasswordWritesAreOwned == [][OwnedPasswordWrite]_vars

\* A status only changes by the request of a configured administrator, and
\* never the status of one: the actor and target checks still hold at the write.
AuthorisedStatusWrite ==
    \A u \in Users : status'[u] # status[u] =>
        /\ u \notin Admins
        /\ \E r \in Requests : /\ pc[r] = "status" /\ pc'[r] # "status"
                                /\ Target(r) = u /\ Owner(r) \in Admins
ManagementIsAuthorised == [][AuthorisedStatusWrite]_vars

\* The requests implement the atomic promise of Sessions: a session is live
\* while its version is current, no revocation was stored and it is not expired.
LiveTokens == {tk \in tokens : /\ tk.version = version[tk.owner]
                               /\ revokedUntil[tk.id] = 0
                               /\ NotExpired(tk)}

Abstract == INSTANCE Sessions WITH
    SessionIds <- TokenIds,
    live <- {[id |-> tk.id, owner |-> tk.owner, proven |-> tk.proven] :
                 tk \in LiveTokens},
    used <- {tk.id : tk \in tokens}

ImplementsSessions == Abstract!AbsSpec
=============================================================================
