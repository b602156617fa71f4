--------------------------- MODULE MembersProofs ---------------------------
(***************************************************************************)
(* Theorems about Accounts, for any accounts, administrators, passwords,   *)
(* requests and token lifetime; and about Members, which gives the         *)
(* admitted requests of Accounts their errands, for any avatars, collation *)
(* and interval.                                                           *)
(***************************************************************************)
EXTENDS Members, TLAPS
-----------------------------------------------------------------------------
(***************************************************************************)
(* Accounts.                                                               *)
(*                                                                         *)
(* The inductive invariant IInv says what each request in flight still     *)
(* knows about the rows and keys it has read (Local), and how the tokens   *)
(* relate to the users table and to Redis (Global). Everything a request   *)
(* knows survives the steps of the others because versions, tokens,        *)
(* acknowledged logouts and time only grow (Grows).                        *)
(*                                                                         *)
(* The last part shows that the requests implement the atomic sessions of  *)
(* Sessions.tla: four statements and the clock are steps of it, every      *)
(* other step leaves what it speaks of alone.                              *)
(***************************************************************************)

\* What the locals of a request are at each step.
Shaped(r) ==
    /\ pc[r] \in Steps => req[r] \in Request
    /\ pc[r] = "issue" => Target(r) \in Users /\ req[r].old \in Passwords
    /\ pc[r] \in Steps \ {"issue"} =>
           /\ Claims(r) \in tokens
           /\ req[r].kind \in Kinds \ {"login"}
           /\ req[r].kind = "change" => /\ req[r].old \in Passwords
                                        /\ req[r].new \in Passwords
           /\ req[r].kind \in Managing => Target(r) \in Users
    /\ pc[r] \in {"change", "cas"} => req[r].kind = "change"
    /\ pc[r] \in {"actor", "target", "status", "reset"} => req[r].kind \in Managing

\* What a login or a password change has read holds of the row as long as the
\* version of the row is the one it read.
LoginReads(r) ==
    pc[r] = "issue" => /\ Seen(r) <= version[Target(r)]
                       /\ Seen(r) = version[Target(r)]
                              => req[r].old = password[Target(r)]

ChangeReads(r) ==
    pc[r] = "cas" => /\ req[r].old # req[r].new
                     /\ VersionMatches(Claims(r)) => req[r].old = password[Owner(r)]

\* The TTL computed by a logout reaches the token's expiry, however late
\* Redis executes the command.
LogoutReads(r) == pc[r] = "set" => now + Seen(r) >= Claims(r).exp

\* Behind the actor check the actor is an administrator; behind the target
\* check the target is not.
ManagementReads(r) ==
    /\ pc[r] \in {"target", "status", "reset"} => Owner(r) \in Admins
    /\ pc[r] \in {"status", "reset"} => Target(r) \notin Admins

\* Where a request that came with a dead token can be.
DeadOnArrival(r) ==
    /\ r \in loggedOut =>
           \/ pc[r] \in {"rejected", "anonymous", "error"}
           \/ pc[r] = "revocation" /\ Claims(r).id \in acknowledged
    /\ r \in superseded =>
           \/ pc[r] \in {"rejected", "anonymous", "error"}
           \/ pc[r] \in {"revocation", "load"} /\ ~VersionMatches(Claims(r))

Local(r) ==
    /\ Shaped(r)
    /\ LoginReads(r)
    /\ ChangeReads(r)
    /\ LogoutReads(r)
    /\ ManagementReads(r)
    /\ DeadOnArrival(r)

\* A token's JTI is the request that issued it, which is over.
TokensUnique ==
    /\ \A t1, t2 \in tokens : t1.id = t2.id => t1 = t2
    /\ \A tk \in tokens : tk.id \in Requests => pc[tk.id] \in Answers

TokenVersions == \A tk \in tokens : tk.version <= version[tk.owner]

\* The revocation of an acknowledged logout lasts as long as the token.
RevocationsLast ==
    /\ \A i \in acknowledged : \E tk \in tokens : tk.id = i
    /\ \A tk \in tokens : tk.id \in acknowledged =>
           revokedUntil[tk.id] >= tk.exp \/ now >= tk.exp

Global ==
    /\ TokensUnique
    /\ TokenVersions
    /\ TokenBindsPassword
    /\ RevocationsLast

IInv == TypeOK /\ Global /\ \A r \in Requests : Local(r)

-----------------------------------------------------------------------------
\* The row of an account either keeps its password or gets a higher version.
RowsGrow ==
    \A u \in Users : \/ version'[u] = version[u] /\ password'[u] = password[u]
                     \/ version'[u] > version[u]

Grows ==
    /\ RowsGrow
    /\ tokens \subseteq tokens'
    /\ acknowledged \subseteq acknowledged'
    /\ now <= now'

\* Only request r moves.
OnlyMoves(r) ==
    \A x \in Requests \ {r} : /\ pc'[x] = pc[x] /\ req'[x] = req[x]
                              /\ x \in loggedOut' => x \in loggedOut
                              /\ x \in superseded' => x \in superseded

\* What a request that does not move knows survives any growth.
LEMMA LocalSurvives ==
    ASSUME TypeOK, TypeOK', TokenVersions, Grows,
           NEW x \in Requests, Local(x), pc'[x] = pc[x], req'[x] = req[x],
           x \in loggedOut' => x \in loggedOut,
           x \in superseded' => x \in superseded
    PROVE  Local(x)'
<1> USE DEF Claims, Owner, Target, Seen
<1>1. Shaped(x)'
  BY DEF Local, Shaped, Grows
<1>2. LoginReads(x)'
  <2> SUFFICES ASSUME pc[x] = "issue"
               PROVE  /\ Seen(x) <= version'[Target(x)]
                      /\ Seen(x) = version'[Target(x)]
                            => req[x].old = password'[Target(x)]
    BY DEF LoginReads
  <2>1. req[x] \in Request /\ Target(x) \in Users
    BY DEF Local, Shaped, Steps
  <2>2. Seen(x) \in Nat /\ version[Target(x)] \in Nat /\ version'[Target(x)] \in Nat
    BY <2>1 DEF Request, TypeOK
  <2>3. QED BY <2>1, <2>2 DEF Local, LoginReads, Grows, RowsGrow
<1>3. pc[x] \in Steps \ {"issue"} =>
          /\ Claims(x) \in Token
          /\ VersionMatches(Claims(x))' => /\ VersionMatches(Claims(x))
                                           /\ password'[Owner(x)] = password[Owner(x)]
  <2> SUFFICES ASSUME pc[x] \in Steps \ {"issue"}
               PROVE  /\ Claims(x) \in Token
                      /\ VersionMatches(Claims(x))' =>
                             /\ VersionMatches(Claims(x))
                             /\ password'[Owner(x)] = password[Owner(x)]
    OBVIOUS
  <2>1. Claims(x) \in tokens /\ Claims(x) \in Token
    BY DEF Local, Shaped, TypeOK
  <2>2. /\ Owner(x) \in Users /\ Claims(x).version \in Nat
        /\ version[Owner(x)] \in Nat /\ version'[Owner(x)] \in Nat
    BY <2>1 DEF Token, TypeOK
  <2>3. Claims(x).version <= version[Owner(x)]
    BY <2>1 DEF TokenVersions
  <2>4. QED BY <2>1, <2>2, <2>3 DEF VersionMatches, Grows, RowsGrow
<1>4. ChangeReads(x)'
  BY <1>3 DEF Local, ChangeReads, Steps, Inside
<1>5. LogoutReads(x)'
  <2> SUFFICES ASSUME pc[x] = "set" PROVE now' + Seen(x) >= Claims(x).exp
    BY DEF LogoutReads
  <2>1. req[x] \in Request /\ Claims(x) \in Token
    BY <1>3 DEF Local, Shaped, Steps, Inside
  <2>2. Seen(x) \in Nat /\ Claims(x).exp \in Nat /\ now \in Nat /\ now' \in Nat
    BY <2>1 DEF Request, Token, TypeOK
  <2>3. QED BY <2>2 DEF Local, LogoutReads, Grows
<1>6. ManagementReads(x)'
  BY DEF Local, ManagementReads
<1>7. DeadOnArrival(x)'
  BY <1>3 DEF Local, DeadOnArrival, Grows, Steps, Inside
<1>8. QED BY <1>1, <1>2, <1>4, <1>5, <1>6, <1>7 DEF Local

\* What the tokens promise survives growth that adds no token.
LEMMA GlobalSurvives ==
    ASSUME TypeOK, TypeOK', Global, Grows, tokens' = tokens,
           acknowledged' = acknowledged, revokedUntil' = revokedUntil,
           NEW r \in Requests, OnlyMoves(r),
           pc[r] \notin Answers
    PROVE  Global'
<1>1. TokensUnique'
  BY DEF Global, TokensUnique, OnlyMoves
<1>2. TokenVersions' /\ TokenBindsPassword'
  <2> SUFFICES ASSUME NEW tk \in tokens
               PROVE  /\ tk.version <= version'[tk.owner]
                      /\ tk.version = version'[tk.owner] =>
                             tk.proven = password'[tk.owner]
    BY DEF TokenVersions, TokenBindsPassword
  <2>1. /\ tk.owner \in Users /\ tk.version \in Nat
        /\ version[tk.owner] \in Nat /\ version'[tk.owner] \in Nat
    BY DEF TypeOK, Token
  <2>2. QED BY <2>1 DEF Global, TokenVersions, TokenBindsPassword, Grows, RowsGrow
<1>3. RevocationsLast'
  <2> SUFFICES ASSUME NEW tk \in tokens, tk.id \in acknowledged
               PROVE  revokedUntil[tk.id] >= tk.exp \/ now' >= tk.exp
    BY DEF Global, RevocationsLast
  <2>1. tk.exp \in Nat /\ now \in Nat /\ now' \in Nat
    BY DEF TypeOK, Token
  <2>2. QED BY <2>1 DEF Global, RevocationsLast, Grows
<1>4. QED BY <1>1, <1>2, <1>3 DEF Global

LEMMA OthersSurvive ==
    ASSUME IInv, TypeOK', Grows, NEW r \in Requests, OnlyMoves(r), Local(r)', Global'
    PROVE  IInv'
<1>1. ASSUME NEW x \in Requests PROVE Local(x)'
  <2>1. CASE x = r
    BY <2>1
  <2>2. CASE x # r
    BY <2>2, LocalSurvives DEF IInv, Global, OnlyMoves
  <2>3. QED BY <2>1, <2>2
<1>2. QED BY <1>1 DEF IInv

\* An answered request knows nothing; it must only not have been let in by a
\* dead token.
LEMMA Answered ==
    ASSUME NEW r \in Requests, pc'[r] \in Answers,
           pc'[r] = "ok" => r \notin loggedOut' /\ r \notin superseded'
    PROVE  Local(r)'
  BY DEF Local, Shaped, LoginReads, ChangeReads, LogoutReads, ManagementReads,
         DeadOnArrival, Answers, Steps, Inside

\* A step that only ends a request, or only moves it on, touches nothing else.
Quiet == UNCHANGED <<db, tokens, redis, now, acknowledged>>

LEMMA QuietGrows == ASSUME TypeOK, Quiet PROVE Grows
  BY DEF TypeOK, Quiet, Grows, RowsGrow, db

LEMMA ReplyTyped ==
    ASSUME TypeOK, NEW r \in Requests, NEW a \in Answers, Reply(r, a)
    PROVE  /\ pc' \in [Requests -> Steps \cup Answers \cup {"idle"}]
           /\ req' \in [Requests -> Request \cup {None}]
           /\ pc'[r] = a
           /\ \A x \in Requests \ {r} : pc'[x] = pc[x] /\ req'[x] = req[x]
  BY DEF TypeOK, Reply

\* Any request, at any point, can be answered without having been served.
LEMMA ReplyKeeps ==
    ASSUME IInv, NEW r \in Requests, NEW a \in Answers, Reply(r, a), Quiet,
           pc[r] \notin Answers,
           loggedOut' \subseteq loggedOut, superseded' \subseteq superseded,
           a = "ok" => r \notin loggedOut' /\ r \notin superseded'
    PROVE  IInv'
<1>1. TypeOK'
  BY ReplyTyped DEF IInv, TypeOK, Quiet, db, redis
<1>2. OnlyMoves(r) /\ pc'[r] = a
  BY ReplyTyped DEF IInv, OnlyMoves
<1>3. Grows
  BY QuietGrows DEF IInv
<1>4. Local(r)'
  BY <1>2, Answered
<1>5. Global'
  BY <1>1, <1>2, <1>3, GlobalSurvives DEF IInv, Quiet, redis
<1>6. QED BY <1>1, <1>2, <1>3, <1>4, <1>5, OthersSurvive

\* A request goes on to its next step, with the same locals or a new `seen`.
LEMMA GotoKeeps ==
    ASSUME IInv, NEW r \in Requests, NEW step \in Steps \ {"issue"},
           NEW v \in Nat, GotoWith(r, step, v), Quiet,
           pc[r] \in Steps \ {"issue"},
           loggedOut' \subseteq loggedOut, superseded' = superseded,
           \* what holds at the step it goes to
           step \in {"change", "cas"} => req[r].kind = "change",
           step \in {"actor", "target", "status", "reset"} => req[r].kind \in Managing,
           step = "cas" => /\ req[r].old # req[r].new
                           /\ VersionMatches(Claims(r)) => req[r].old = password[Owner(r)],
           step = "set" => now + v >= Claims(r).exp,
           step \in {"target", "status", "reset"} => Owner(r) \in Admins,
           step \in {"status", "reset"} => Target(r) \notin Admins,
           r \notin loggedOut',
           r \in superseded => step = "load" /\ ~VersionMatches(Claims(r))
    PROVE  IInv'
<1>1. /\ req[r] \in Request
      /\ Claims(r) \in tokens
      /\ req[r].kind \in Kinds \ {"login"}
      /\ req[r].kind = "change" => /\ req[r].old \in Passwords
                                   /\ req[r].new \in Passwords
      /\ req[r].kind \in Managing => Target(r) \in Users
  BY DEF IInv, Local, Shaped
<1>2. /\ [req[r] EXCEPT !.seen = v] \in Request
      /\ [req[r] EXCEPT !.seen = v].kind = req[r].kind
      /\ [req[r] EXCEPT !.seen = v].claims = req[r].claims
      /\ [req[r] EXCEPT !.seen = v].target = req[r].target
      /\ [req[r] EXCEPT !.seen = v].old = req[r].old
      /\ [req[r] EXCEPT !.seen = v].new = req[r].new
      /\ [req[r] EXCEPT !.seen = v].seen = v
  BY <1>1 DEF Request
<1>3. /\ pc' \in [Requests -> Steps \cup Answers \cup {"idle"}]
      /\ req' \in [Requests -> Request \cup {None}]
      /\ pc'[r] = step
      /\ req'[r] = [req[r] EXCEPT !.seen = v]
      /\ \A x \in Requests \ {r} : pc'[x] = pc[x] /\ req'[x] = req[x]
  BY <1>2 DEF GotoWith, IInv, TypeOK
<1>4. TypeOK'
  BY <1>3 DEF IInv, TypeOK, Quiet, db, redis
<1>5. OnlyMoves(r)
  BY <1>3 DEF OnlyMoves
<1>6. Grows
  BY QuietGrows DEF IInv
<1>7. Local(r)'
  <2> USE <1>1, <1>2, <1>3 DEF Claims, Owner, Target, Seen
  <2>1. Shaped(r)'
    BY DEF Shaped, Quiet
  <2>2. LoginReads(r)' /\ LogoutReads(r)' /\ ManagementReads(r)'
    BY DEF LoginReads, LogoutReads, ManagementReads, Quiet
  <2>3. ChangeReads(r)'
    BY DEF ChangeReads, VersionMatches, Quiet, db
  <2>4. DeadOnArrival(r)'
    BY DEF DeadOnArrival, VersionMatches, Quiet, db
  <2>5. QED BY <2>1, <2>2, <2>3, <2>4 DEF Local
<1>8. Global'
  BY <1>4, <1>5, <1>6, GlobalSurvives DEF IInv, Quiet, redis, Steps, Inside, Answers
<1>9. QED BY <1>4, <1>5, <1>6, <1>7, <1>8, OthersSurvive

\* Goto is the special case that keeps `seen`.
LEMMA GotoIsGotoWith ==
    ASSUME TypeOK, NEW r \in Requests, req[r] \in Request, NEW step, Goto(r, step)
    PROVE  Seen(r) \in Nat /\ GotoWith(r, step, Seen(r))
<1>1. Seen(r) \in Nat /\ [req[r] EXCEPT !.seen = Seen(r)] = req[r]
  BY DEF Request, Seen
<1>2. [req EXCEPT ![r] = [req[r] EXCEPT !.seen = Seen(r)]] = req
  BY <1>1 DEF TypeOK
<1>3. QED BY <1>1, <1>2 DEF Goto, GotoWith
-----------------------------------------------------------------------------
(* One lemma per action. *)

LEMMA InFlight ==
    ASSUME IInv, NEW r \in Requests, pc[r] \in Steps
    PROVE  /\ req[r] \in Request
           /\ pc[r] # "issue" => /\ Claims(r) \in tokens
                                 /\ Claims(r) \in Token
                                 /\ Owner(r) \in Users
                                 /\ req[r].kind \in Kinds \ {"login"}
                                 /\ req[r].kind \in Managing => Target(r) \in Users
           /\ pc[r] \in Inside => r \notin loggedOut /\ r \notin superseded
  BY DEF IInv, TypeOK, Local, Shaped, DeadOnArrival, Token, Owner, Steps, Inside

LEMMA BeginLoginKeeps ==
    ASSUME IInv, NEW r \in Requests, BeginLogin(r) PROVE IInv'
<1> DEFINE Login(u, given) ==
        [kind |-> "login", claims |-> None, target |-> u,
         old |-> given, new |-> None, seen |-> version[u]]
<1>1. PICK u \in Users, given \in Passwords :
          IF given = password[u]
          THEN /\ pc' = [pc EXCEPT ![r] = "issue"]
               /\ req' = [req EXCEPT ![r] = Login(u, given)]
          ELSE Reply(r, "rejected")
  BY DEF BeginLogin
<1>2. Quiet /\ UNCHANGED arrivals /\ pc[r] = "idle"
  BY DEF BeginLogin, Quiet
<1>3. CASE given # password[u]
  BY <1>1, <1>2, <1>3, ReplyKeeps DEF Answers, arrivals
<1>4. CASE given = password[u]
  <2>1. Login(u, given) \in Request
    BY DEF IInv, TypeOK, Request, Kinds
  <2>2. /\ pc' \in [Requests -> Steps \cup Answers \cup {"idle"}]
        /\ req' \in [Requests -> Request \cup {None}]
        /\ pc'[r] = "issue" /\ req'[r] = Login(u, given)
        /\ OnlyMoves(r)
    BY <1>1, <1>2, <1>4, <2>1 DEF IInv, TypeOK, OnlyMoves, arrivals, Steps
  <2>3. TypeOK'
    BY <1>2, <2>2 DEF IInv, TypeOK, Quiet, db, redis, arrivals
  <2>4. Grows
    BY <1>2, QuietGrows DEF IInv
  <2>5. r \notin loggedOut /\ r \notin superseded
    BY <1>2 DEF IInv, Local, DeadOnArrival
  <2>6. Local(r)'
    <3>1. version[u] \in Nat
      BY DEF IInv, TypeOK
    <3>2. QED BY <1>2, <1>4, <2>1, <2>2, <2>5, <3>1
          DEF Local, Shaped, LoginReads, ChangeReads, LogoutReads, ManagementReads,
              DeadOnArrival, Seen, Target, Quiet, db, arrivals
  <2>7. Global'
    BY <1>2, <2>2, <2>3, <2>4, GlobalSurvives DEF IInv, Quiet, redis, Answers
  <2>8. QED BY <2>2, <2>3, <2>4, <2>6, <2>7, OthersSurvive
<1>5. QED BY <1>3, <1>4

LEMMA IssueTokenKeeps ==
    ASSUME IInv, NEW r \in Requests, IssueToken(r) PROVE IInv'
<1> DEFINE new == [id |-> r, owner |-> Target(r), version |-> Seen(r),
                   exp |-> now + TokenLife, proven |-> req[r].old]
<1>1. /\ pc[r] = "issue"
      /\ tokens' = tokens \cup {new}
      /\ Reply(r, "ok")
      /\ UNCHANGED <<db, redis, now, acknowledged, arrivals>>
  BY DEF IssueToken, SignedVersion
<1>2. /\ new \in Token
      /\ Seen(r) <= version[Target(r)]
      /\ Seen(r) = version[Target(r)] => req[r].old = password[Target(r)]
      /\ r \notin loggedOut /\ r \notin superseded
  <2>1. /\ req[r] \in Request /\ Target(r) \in Users /\ req[r].old \in Passwords
        /\ Seen(r) <= version[Target(r)]
        /\ Seen(r) = version[Target(r)] => req[r].old = password[Target(r)]
        /\ r \notin loggedOut /\ r \notin superseded
    BY <1>1 DEF IInv, Local, Shaped, LoginReads, DeadOnArrival, Steps
  <2>2. Seen(r) \in Nat /\ now + TokenLife \in Nat
    BY <2>1, ConstantsOK DEF Request, Seen, IInv, TypeOK
  <2>3. QED BY <2>1, <2>2 DEF Token, TokenIds
<1>3. /\ pc' \in [Requests -> Steps \cup Answers \cup {"idle"}]
      /\ req' \in [Requests -> Request \cup {None}]
      /\ pc'[r] = "ok" /\ OnlyMoves(r)
  BY <1>1, ReplyTyped DEF IInv, Answers, OnlyMoves, arrivals
<1>4. TypeOK'
  BY <1>1, <1>2, <1>3 DEF IInv, TypeOK, db, redis, arrivals
<1>5. Grows
  BY <1>1, <1>4 DEF Grows, RowsGrow, db, TypeOK
<1>6. Local(r)'
  BY <1>1, <1>2, <1>3, Answered DEF Answers, arrivals
<1>7. \A tk \in tokens : tk.id # r
  BY <1>1 DEF IInv, Global, TokensUnique, Answers
<1>8. TokensUnique'
  BY <1>1, <1>3, <1>7 DEF IInv, Global, TokensUnique, OnlyMoves, Answers
<1>9. TokenVersions' /\ TokenBindsPassword'
  BY <1>1, <1>2 DEF IInv, Global, TokenVersions, TokenBindsPassword, db
<1>10. RevocationsLast'
  BY <1>1, <1>7 DEF IInv, Global, RevocationsLast, redis
<1>11. QED BY <1>3, <1>4, <1>5, <1>6, <1>8, <1>9, <1>10, OthersSurvive DEF Global

LEMMA InputsTyped ==
    ASSUME NEW tk \in Token, NEW input \in Inputs(tk)
    PROVE  /\ input \in Request /\ input.claims = tk
           /\ input.kind \in Kinds \ {"login"}
           /\ input.kind = "change" => input.old \in Passwords /\ input.new \in Passwords
           /\ input.kind \in Managing => input.target \in Users
  BY DEF Inputs, Request, Kinds, Managing

LEMMA RefuseReplies ==
    ASSUME NEW r, NEW kind, Refuse(r, kind)
    PROVE  \E a \in {"anonymous", "rejected"} : Reply(r, a)
  BY DEF Refuse

LEMMA BeginAuthenticatedKeeps ==
    ASSUME IInv, NEW r \in Requests, BeginAuthenticated(r) PROVE IInv'
<1>0. PICK tk \in tokens : \E input \in Inputs(tk) :
          /\ IF NotExpired(tk)
             THEN /\ pc' = [pc EXCEPT ![r] = "revocation"]
                  /\ req' = [req EXCEPT ![r] = input]
             ELSE Refuse(r, input.kind)
          /\ loggedOut' = IF tk.id \in acknowledged
                          THEN loggedOut \cup {r} ELSE loggedOut
          /\ superseded' = IF tk.version # version[tk.owner]
                           THEN superseded \cup {r} ELSE superseded
  BY DEF BeginAuthenticated
<1>1. PICK input \in Inputs(tk) :
          /\ IF NotExpired(tk)
             THEN /\ pc' = [pc EXCEPT ![r] = "revocation"]
                  /\ req' = [req EXCEPT ![r] = input]
             ELSE Refuse(r, input.kind)
          /\ loggedOut' = IF tk.id \in acknowledged
                          THEN loggedOut \cup {r} ELSE loggedOut
          /\ superseded' = IF tk.version # version[tk.owner]
                           THEN superseded \cup {r} ELSE superseded
  BY <1>0
<1>2. Quiet /\ pc[r] = "idle"
  BY DEF BeginAuthenticated, Quiet
<1>3. tk \in Token
  BY DEF IInv, TypeOK
<1>4. Grows
  BY <1>2, QuietGrows DEF IInv
<1>5. r \notin loggedOut /\ r \notin superseded
  BY <1>2 DEF IInv, Local, DeadOnArrival
<1>6. /\ pc' \in [Requests -> Steps \cup Answers \cup {"idle"}]
      /\ req' \in [Requests -> Request \cup {None}]
      /\ OnlyMoves(r)
      /\ \/ pc'[r] \in {"anonymous", "rejected"}
         \/ pc'[r] = "revocation" /\ req'[r] = input
  <2>1. CASE NotExpired(tk)
    BY <1>1, <1>3, <2>1, InputsTyped DEF IInv, TypeOK, OnlyMoves, Steps
  <2>2. CASE ~NotExpired(tk)
    <3>1. PICK a \in {"anonymous", "rejected"} : Reply(r, a)
      BY <1>1, <2>2, RefuseReplies
    <3>2. QED BY <1>1, <3>1, ReplyTyped DEF IInv, Answers, OnlyMoves
  <2>3. QED BY <2>1, <2>2
<1>7. TypeOK'
  BY <1>1, <1>2, <1>6 DEF IInv, TypeOK, Quiet, db, redis
<1>8. Local(r)'
  <2>1. CASE pc'[r] \in {"anonymous", "rejected"}
    BY <2>1, Answered DEF Answers
  <2>2. CASE pc'[r] = "revocation" /\ req'[r] = input
    BY <1>1, <1>2, <1>3, <1>5, <2>2, InputsTyped
    DEF Local, Shaped, LoginReads, ChangeReads, LogoutReads, ManagementReads,
        DeadOnArrival, VersionMatches, Claims, Owner, Target, Quiet, db
  <2>3. QED BY <1>6, <2>1, <2>2
<1>9. Global'
  BY <1>2, <1>4, <1>6, <1>7, GlobalSurvives DEF IInv, Quiet, redis, Answers
<1>10. QED BY <1>4, <1>6, <1>7, <1>8, <1>9, OthersSurvive

LEMMA CheckRevocationKeeps ==
    ASSUME IInv, NEW r \in Requests, CheckRevocation(r) PROVE IInv'
<1>1. Quiet /\ pc[r] = "revocation" /\ superseded' = superseded
  BY DEF CheckRevocation, Quiet
<1>2. loggedOut' = IF NotExpired(Claims(r)) THEN loggedOut ELSE loggedOut \ {r}
  BY DEF CheckRevocation
<1>3. /\ req[r] \in Request /\ Claims(r) \in tokens /\ Claims(r) \in Token
  BY <1>1, InFlight DEF Steps
<1>4. ASSUME NEW a \in {"anonymous", "rejected", "error"}, Reply(r, a) PROVE IInv'
  BY <1>1, <1>2, <1>4, ReplyKeeps DEF Answers
<1>5. CASE ~persistUp
  BY <1>4, <1>5 DEF CheckRevocation
<1>6. CASE persistUp /\ IsRevoked(Claims(r).id)
  BY <1>4, <1>6, RefuseReplies DEF CheckRevocation
<1>7. CASE persistUp /\ ~IsRevoked(Claims(r).id)
  <2>1. Goto(r, "load")
    BY <1>7 DEF CheckRevocation
  <2>2. Seen(r) \in Nat /\ GotoWith(r, "load", Seen(r))
    BY <1>3, <2>1, GotoIsGotoWith DEF IInv
  <2>3. r \notin loggedOut'
    <3> SUFFICES ASSUME r \in loggedOut, NotExpired(Claims(r)) PROVE FALSE
      BY <1>2
    <3>1. Claims(r).id \in acknowledged
      BY <1>1 DEF IInv, Local, DeadOnArrival
    <3>2. revokedUntil[Claims(r).id] >= Claims(r).exp \/ now >= Claims(r).exp
      BY <1>3, <3>1 DEF IInv, Global, RevocationsLast
    <3>3. revokedUntil[Claims(r).id] \in Nat /\ Claims(r).exp \in Nat /\ now \in Nat
      BY <1>3 DEF IInv, TypeOK, Token
    <3>4. QED BY <1>7, <3>2, <3>3 DEF IsRevoked, NotExpired
  <2>4. r \in superseded => ~VersionMatches(Claims(r))
    BY <1>1 DEF IInv, Local, DeadOnArrival
  <2>5. QED BY <1>1, <1>2, <2>2, <2>3, <2>4, GotoKeeps DEF Steps
<1>8. QED BY <1>5, <1>6, <1>7

LEMMA LoadUserKeeps ==
    ASSUME IInv, NEW r \in Requests, LoadUser(r) PROVE IInv'
<1>1. Quiet /\ UNCHANGED arrivals /\ pc[r] = "load"
  BY DEF LoadUser, Quiet
<1>2. loggedOut' = loggedOut /\ superseded' = superseded /\ r \notin loggedOut
  BY <1>1 DEF IInv, Local, DeadOnArrival, arrivals
<1>3. req[r] \in Request /\ req[r].kind \in Kinds \ {"login"}
  BY <1>1, InFlight DEF Steps
<1>4. CASE ~VersionMatches(Claims(r))
  BY <1>1, <1>2, <1>4, RefuseReplies, ReplyKeeps DEF LoadUser, Answers
<1>5. CASE VersionMatches(Claims(r))
  <2>1. r \notin superseded /\ EnterHandler(r)
    BY <1>1, <1>5 DEF IInv, Local, DeadOnArrival, LoadUser
  <2>2. ASSUME NEW a \in {"ok", "rejected"}, Reply(r, a) PROVE IInv'
    BY <1>1, <1>2, <2>1, <2>2, ReplyKeeps DEF Answers
  <2>3. ASSUME NEW step \in {"change", "remaining", "actor"}, Goto(r, step),
               step = "change" => req[r].kind = "change",
               step = "actor" => req[r].kind \in Managing
        PROVE  IInv'
    <3>1. Seen(r) \in Nat /\ GotoWith(r, step, Seen(r))
      BY <1>3, <2>3, GotoIsGotoWith DEF IInv
    <3>2. QED BY <1>1, <1>2, <2>1, <2>3, <3>1, GotoKeeps DEF Steps, Inside
  <2>4. QED BY <2>1, <2>2, <2>3 DEF EnterHandler
<1>6. QED BY <1>4, <1>5

\* The steps inside a handler that read, then go on or refuse.
LEMMA HandlerReads ==
    ASSUME IInv, NEW r \in Requests, pc[r] \in Inside, Quiet, UNCHANGED arrivals
    PROVE  /\ \A a \in Answers : Reply(r, a) => IInv'
           /\ \A step \in Inside, v \in Nat :
                 /\ GotoWith(r, step, v)
                 /\ step \in {"change", "cas"} => req[r].kind = "change"
                 /\ step \in {"actor", "target", "status", "reset"} => req[r].kind \in Managing
                 /\ step = "cas" => /\ req[r].old # req[r].new
                                    /\ VersionMatches(Claims(r)) => req[r].old = password[Owner(r)]
                 /\ step = "set" => now + v >= Claims(r).exp
                 /\ step \in {"target", "status", "reset"} => Owner(r) \in Admins
                 /\ step \in {"status", "reset"} => Target(r) \notin Admins
                 => IInv'
<1>1. r \notin loggedOut /\ r \notin superseded /\ UNCHANGED <<loggedOut, superseded>>
  BY InFlight DEF Steps, arrivals
<1>2. pc[r] \notin Answers /\ pc[r] \in Steps \ {"issue"}
  BY DEF Inside, Steps, Answers
<1>3. ASSUME NEW a \in Answers, Reply(r, a) PROVE IInv'
  BY <1>1, <1>2, <1>3, ReplyKeeps
<1>4. \A step \in Inside : step \in Steps \ {"issue"}
  BY DEF Inside, Steps
<1>5. QED BY <1>1, <1>2, <1>3, <1>4, GotoKeeps

LEMMA CheckPasswordChangeKeeps ==
    ASSUME IInv, NEW r \in Requests, CheckPasswordChange(r) PROVE IInv'
<1>1. Quiet /\ UNCHANGED arrivals /\ pc[r] = "change"
  BY DEF CheckPasswordChange, Quiet
<1>2. req[r] \in Request /\ req[r].kind = "change"
  BY <1>1, InFlight DEF Steps, Inside, IInv, Local, Shaped
<1>3. CASE Reply(r, "rejected")
  BY <1>1, <1>3, HandlerReads DEF Inside, Answers
<1>4. CASE /\ req[r].old = password[Owner(r)] /\ req[r].old # req[r].new
           /\ Goto(r, "cas")
  <2>1. Seen(r) \in Nat /\ GotoWith(r, "cas", Seen(r))
    BY <1>2, <1>4, GotoIsGotoWith DEF IInv
  <2>2. QED BY <1>1, <1>2, <1>4, <2>1, HandlerReads DEF Inside
<1>5. QED BY <1>3, <1>4 DEF CheckPasswordChange

LEMMA CheckActorKeeps ==
    ASSUME IInv, NEW r \in Requests, CheckActor(r) PROVE IInv'
<1>1. Quiet /\ UNCHANGED arrivals /\ pc[r] = "actor"
  BY DEF CheckActor, Quiet
<1>2. req[r] \in Request /\ req[r].kind \in Managing
  BY <1>1, InFlight DEF Steps, Inside, IInv, Local, Shaped
<1>3. CASE Reply(r, "rejected")
  BY <1>1, <1>3, HandlerReads DEF Inside, Answers
<1>4. CASE Owner(r) \in Admins /\ Goto(r, "target")
  <2>1. Seen(r) \in Nat /\ GotoWith(r, "target", Seen(r))
    BY <1>2, <1>4, GotoIsGotoWith DEF IInv
  <2>2. QED BY <1>1, <1>2, <1>4, <2>1, HandlerReads DEF Inside
<1>5. QED BY <1>3, <1>4 DEF CheckActor

LEMMA CheckTargetKeeps ==
    ASSUME IInv, NEW r \in Requests, CheckTarget(r) PROVE IInv'
<1>1. Quiet /\ UNCHANGED arrivals /\ pc[r] = "target"
  BY DEF CheckTarget, Quiet
<1>2. /\ req[r] \in Request /\ req[r].kind \in Managing
      /\ Owner(r) \in Admins /\ Target(r) \in Users
  BY <1>1, InFlight DEF Steps, Inside, IInv, Local, Shaped, ManagementReads
<1>3. CASE Reply(r, "rejected")
  BY <1>1, <1>3, HandlerReads DEF Inside, Answers
<1>4. CASE TargetAllowed(r) /\ Goto(r, "status")
  <2>1. Seen(r) \in Nat /\ GotoWith(r, "status", Seen(r))
    BY <1>2, <1>4, GotoIsGotoWith DEF IInv
  <2>2. QED BY <1>1, <1>2, <1>4, <2>1, HandlerReads DEF Inside, TargetAllowed
<1>5. CASE TargetAllowed(r) /\ GotoWith(r, "reset", version[Target(r)])
  <2>1. version[Target(r)] \in Nat
    BY <1>2 DEF IInv, TypeOK
  <2>2. QED BY <1>1, <1>2, <1>5, <2>1, HandlerReads DEF Inside, TargetAllowed
<1>6. QED BY <1>3, <1>4, <1>5 DEF CheckTarget

LEMMA ComputeRemainingKeeps ==
    ASSUME IInv, NEW r \in Requests, ComputeRemaining(r) PROVE IInv'
<1>1. pc[r] = "remaining" /\ UNCHANGED arrivals
  BY DEF ComputeRemaining
<1>2. /\ req[r] \in Request /\ Claims(r) \in tokens /\ Claims(r) \in Token
      /\ r \notin loggedOut /\ r \notin superseded
  BY <1>1, InFlight DEF Steps, Inside
<1>3. Claims(r).exp \in Nat /\ now \in Nat
  BY <1>2 DEF Token, IInv, TypeOK
<1>4. CASE NotExpired(Claims(r))
  <2>1. Quiet /\ GotoWith(r, "set", Remaining(Claims(r)))
    BY <1>4 DEF ComputeRemaining, Quiet
  <2>2. /\ Remaining(Claims(r)) \in Nat
        /\ now + Remaining(Claims(r)) >= Claims(r).exp
    BY <1>3, <1>4 DEF Remaining, NotExpired
  <2>3. QED BY <1>1, <2>1, <2>2, HandlerReads DEF Inside
<1>5. CASE ~NotExpired(Claims(r))
  <2>1. /\ Reply(r, "ok") /\ acknowledged' = acknowledged \cup {Claims(r).id}
        /\ UNCHANGED <<db, tokens, redis, now>>
    BY <1>5 DEF ComputeRemaining
  <2>2. /\ pc' \in [Requests -> Steps \cup Answers \cup {"idle"}]
        /\ req' \in [Requests -> Request \cup {None}]
        /\ pc'[r] = "ok" /\ OnlyMoves(r)
    BY <1>1, <2>1, ReplyTyped DEF IInv, Answers, OnlyMoves, arrivals
  <2>3. TypeOK'
    BY <1>1, <1>2, <2>1, <2>2 DEF IInv, TypeOK, db, redis, arrivals, Token
  <2>4. Grows
    BY <2>1, <1>3 DEF Grows, RowsGrow, db
  <2>5. Local(r)'
    BY <1>1, <1>2, <2>2, Answered DEF Answers, arrivals
  <2>6. TokensUnique'
    BY <1>1, <2>1, <2>2 DEF IInv, Global, TokensUnique, OnlyMoves, Answers
  <2>7. TokenVersions' /\ TokenBindsPassword'
    BY <2>1 DEF IInv, Global, TokenVersions, TokenBindsPassword, db
  <2>8. RevocationsLast'
    BY <1>2, <1>3, <1>5, <2>1 DEF IInv, Global, TokensUnique, RevocationsLast, redis, NotExpired
  <2>9. QED BY <2>2, <2>3, <2>4, <2>5, <2>6, <2>7, <2>8, OthersSurvive DEF Global
<1>6. QED BY <1>4, <1>5

LEMMA UpdatePasswordHashKeeps ==
    ASSUME IInv, NEW r \in Requests, pc[r] \in {"cas", "reset"},
           NEW u \in Users, NEW expected, NEW hash \in Passwords,
           UpdatePasswordHash(r, u, expected, hash),
           UNCHANGED <<status, tokens, redis, now, acknowledged, arrivals>>
    PROVE  IInv'
<1>1. CASE ~CasMatches(u, expected)
  <2>1. Quiet /\ Reply(r, "rejected")
    BY <1>1 DEF UpdatePasswordHash, Quiet, db
  <2>2. QED BY <2>1, HandlerReads DEF Inside, Answers
<1>2. CASE CasMatches(u, expected)
  <2>1. /\ password' = [password EXCEPT ![u] = hash]
        /\ version' = [version EXCEPT ![u] = @ + 1]
        /\ \E a \in {"ok", "error"} : Reply(r, a)
    BY <1>2 DEF UpdatePasswordHash, NextVersion, ReplyWritten
  <2>2. /\ pc' \in [Requests -> Steps \cup Answers \cup {"idle"}]
        /\ req' \in [Requests -> Request \cup {None}]
        /\ pc'[r] \in {"ok", "error"} /\ OnlyMoves(r)
    BY <2>1, ReplyTyped DEF IInv, Answers, OnlyMoves, arrivals
  <2>3. TypeOK'
    BY <2>1, <2>2 DEF IInv, TypeOK, redis, arrivals
  <2>4. Grows
    <3>1. now \in Nat /\ \A w \in Users : version[w] \in Nat
      BY DEF IInv, TypeOK
    <3>2. RowsGrow
      BY <2>1, <3>1 DEF IInv, TypeOK, RowsGrow
    <3>3. QED BY <3>1, <3>2 DEF Grows
  <2>5. r \notin loggedOut /\ r \notin superseded
    BY InFlight DEF Steps, Inside
  <2>6. Local(r)'
    BY <2>2, <2>5, Answered DEF Answers, arrivals
  <2>7. Global'
    BY <2>2, <2>3, <2>4, GlobalSurvives DEF IInv, redis, Answers
  <2>8. QED BY <2>2, <2>3, <2>4, <2>6, <2>7, OthersSurvive
<1>3. QED BY <1>1, <1>2

LEMMA WritePasswordChangeKeeps ==
    ASSUME IInv, NEW r \in Requests, WritePasswordChange(r) PROVE IInv'
<1>1. pc[r] = "cas" /\ Owner(r) \in Users /\ req[r].new \in Passwords
  BY InFlight DEF WritePasswordChange, Steps, Inside, IInv, Local, Shaped
<1>2. QED BY <1>1, UpdatePasswordHashKeeps DEF WritePasswordChange

LEMMA WriteResetKeeps ==
    ASSUME IInv, NEW r \in Requests, WriteReset(r) PROVE IInv'
<1>1. pc[r] = "reset" /\ Target(r) \in Users
  BY InFlight DEF WriteReset, Steps, Inside, IInv, Local, Shaped
<1>2. NamePassword[Target(r)] \in Passwords
  BY <1>1, ConstantsOK
<1>3. QED BY <1>1, <1>2, UpdatePasswordHashKeeps DEF WriteReset

LEMMA SetRevocationKeeps ==
    ASSUME IInv, NEW r \in Requests, SetRevocation(r) PROVE IInv'
<1>1. pc[r] = "set" /\ UNCHANGED <<db, tokens, persistUp, now, arrivals>>
  BY DEF SetRevocation
<1>2. CASE FailRevocation(r)
  <2>1. Quiet /\ Reply(r, "error")
    BY <1>1, <1>2 DEF FailRevocation, Quiet, redis
  <2>2. QED BY <1>1, <2>1, HandlerReads DEF Inside, Answers
<1>3. CASE StoreRevocation(r)
  <2>1. /\ req[r] \in Request /\ Claims(r) \in tokens /\ Claims(r) \in Token
        /\ r \notin loggedOut /\ r \notin superseded
    BY <1>1, InFlight DEF Steps, Inside
  <2>2. /\ revokedUntil' = [revokedUntil EXCEPT ![Claims(r).id] = now + Seen(r)]
        /\ acknowledged' \subseteq acknowledged \cup {Claims(r).id}
        /\ acknowledged \subseteq acknowledged'
        /\ \E a \in {"ok", "error"} : Reply(r, a)
    BY <1>3 DEF StoreRevocation
  <2>3. /\ now + Seen(r) \in Nat /\ now + Seen(r) >= Claims(r).exp
        /\ Claims(r).id \in TokenIds
    BY <1>1, <2>1 DEF Request, Seen, Token, IInv, TypeOK, Local, LogoutReads
  <2>4. /\ pc' \in [Requests -> Steps \cup Answers \cup {"idle"}]
        /\ req' \in [Requests -> Request \cup {None}]
        /\ pc'[r] \in {"ok", "error"} /\ OnlyMoves(r)
    BY <1>1, <2>2, ReplyTyped DEF IInv, Answers, OnlyMoves, arrivals
  <2>5. TypeOK'
    BY <1>1, <2>2, <2>3, <2>4 DEF IInv, TypeOK, db, arrivals
  <2>6. Grows
    <3>1. now <= now'
      BY <1>1 DEF IInv, TypeOK
    <3>2. QED BY <1>1, <2>2, <3>1 DEF Grows, RowsGrow, db
  <2>7. Local(r)'
    BY <1>1, <2>1, <2>4, Answered DEF Answers, arrivals
  <2>8. TokensUnique'
    BY <1>1, <2>4 DEF IInv, Global, TokensUnique, OnlyMoves, Answers
  <2>9. TokenVersions' /\ TokenBindsPassword'
    BY <1>1 DEF IInv, Global, TokenVersions, TokenBindsPassword, db
  <2>10. RevocationsLast'
    <3>1. \A i \in acknowledged' : \E tk \in tokens : tk.id = i
      BY <2>1, <2>2 DEF IInv, Global, RevocationsLast
    <3>2. ASSUME NEW tk \in tokens, tk.id \in acknowledged'
          PROVE  revokedUntil'[tk.id] >= tk.exp \/ now >= tk.exp
      <4>1. CASE tk.id = Claims(r).id
        BY <2>1, <2>2, <2>3, <4>1 DEF IInv, TypeOK, Global, TokensUnique
      <4>2. CASE tk.id # Claims(r).id
        BY <2>2, <3>2, <4>2 DEF IInv, TypeOK, Global, RevocationsLast
      <4>3. QED BY <4>1, <4>2
    <3>3. QED BY <1>1, <3>1, <3>2 DEF RevocationsLast
  <2>11. QED BY <2>4, <2>5, <2>6, <2>7, <2>8, <2>9, <2>10, OthersSurvive DEF Global
<1>4. QED BY <1>2, <1>3 DEF SetRevocation

LEMMA WriteStatusKeeps ==
    ASSUME IInv, NEW r \in Requests, WriteStatus(r) PROVE IInv'
<1>1. /\ pc[r] = "status"
      /\ UNCHANGED <<password, version, tokens, redis, now, acknowledged, arrivals>>
      /\ status' = [status EXCEPT ![Target(r)] = StatusFor(req[r].kind)]
      /\ \E a \in {"ok", "error"} : Reply(r, a)
  BY DEF WriteStatus, ReplyWritten
<1>2. r \notin loggedOut /\ r \notin superseded
  BY <1>1, InFlight DEF Steps, Inside
<1>3. /\ pc' \in [Requests -> Steps \cup Answers \cup {"idle"}]
      /\ req' \in [Requests -> Request \cup {None}]
      /\ pc'[r] \in {"ok", "error"} /\ OnlyMoves(r)
  BY <1>1, ReplyTyped DEF IInv, Answers, OnlyMoves, arrivals
<1>4. TypeOK'
  BY <1>1, <1>3 DEF IInv, TypeOK, redis, arrivals, StatusFor, Statuses
<1>5. Grows
  BY <1>1, <1>4 DEF Grows, RowsGrow, TypeOK
<1>6. Local(r)'
  BY <1>1, <1>2, <1>3, Answered DEF Answers, arrivals
<1>7. Global'
  BY <1>1, <1>3, <1>4, <1>5, GlobalSurvives DEF IInv, redis, Answers
<1>8. QED BY <1>3, <1>4, <1>5, <1>6, <1>7, OthersSurvive

LEMMA AbortKeeps ==
    ASSUME IInv, NEW r \in Requests, Abort(r) PROVE IInv'
  BY ReplyKeeps DEF Abort, Quiet, arrivals, Answers, Steps, Inside

\* A step of the environment moves no request.
LEMMA EnvironmentKeeps ==
    ASSUME IInv, TogglePersist \/ Tick PROVE IInv'
<1>1. /\ UNCHANGED <<db, tokens, revokedUntil, req, pc, acknowledged, arrivals>>
      /\ now' \in Nat /\ now <= now' /\ persistUp' \in BOOLEAN
  <2>1. now \in Nat /\ persistUp \in BOOLEAN
    BY DEF IInv, TypeOK
  <2>2. CASE TogglePersist
    BY <2>1, <2>2 DEF TogglePersist
  <2>3. CASE Tick
    BY <2>1, <2>3 DEF Tick, redis
  <2>4. QED BY <2>2, <2>3
<1>2. TypeOK'
  BY <1>1 DEF IInv, TypeOK, db, arrivals
<1>3. Grows
  BY <1>1 DEF Grows, RowsGrow, db
<1>4. ASSUME NEW x \in Requests PROVE Local(x)'
  BY <1>1, <1>2, <1>3, LocalSurvives DEF IInv, Global, arrivals
<1>5. TokensUnique' /\ TokenVersions' /\ TokenBindsPassword'
  BY <1>1 DEF IInv, Global, TokensUnique, TokenVersions, TokenBindsPassword, db
<1>6. RevocationsLast'
  <2>1. \A tk \in tokens : tk.exp \in Nat /\ now \in Nat
    BY DEF IInv, TypeOK, Token
  <2>2. QED BY <1>1, <2>1 DEF IInv, Global, RevocationsLast
<1>7. QED BY <1>2, <1>4, <1>5, <1>6 DEF IInv, Global
-----------------------------------------------------------------------------
LEMMA InitIInv == Init => IInv
<1> SUFFICES ASSUME Init PROVE IInv
  OBVIOUS
<1>1. TypeOK
  <2>1. tokens \subseteq Token
    BY ConstantsOK DEF Init, Token, TokenIds
  <2>2. QED BY <2>1, ConstantsOK DEF Init, TypeOK, Statuses
<1>2. TokensUnique /\ TokenVersions /\ TokenBindsPassword
  BY ConstantsOK DEF Init, TokensUnique, TokenVersions, TokenBindsPassword
<1>3. RevocationsLast
  BY DEF Init, RevocationsLast
<1>4. ASSUME NEW r \in Requests PROVE Local(r)
  BY DEF Init, Local, Shaped, LoginReads, ChangeReads, LogoutReads,
         ManagementReads, DeadOnArrival, Steps, Inside
<1>5. QED BY <1>1, <1>2, <1>3, <1>4 DEF IInv, Global

LEMMA NextKeepsIInv == IInv /\ [Next]_vars => IInv'
<1> SUFFICES ASSUME IInv, [Next]_vars PROVE IInv'
  OBVIOUS
<1>1. CASE UNCHANGED vars
  BY <1>1 DEF vars, IInv, Global, Local, TypeOK, TokensUnique, TokenVersions,
              TokenBindsPassword, RevocationsLast, Shaped, LoginReads, ChangeReads,
              LogoutReads, ManagementReads, DeadOnArrival, VersionMatches,
              Claims, Owner, Target, Seen
<1>2. CASE \E r \in Requests : BeginLogin(r) \/ BeginAuthenticated(r) \/ Abort(r)
  BY <1>2, BeginLoginKeeps, BeginAuthenticatedKeeps, AbortKeeps
<1>3. CASE \E r \in Requests : Step(r)
  BY <1>3, IssueTokenKeeps, CheckRevocationKeeps, LoadUserKeeps,
     CheckPasswordChangeKeeps, WritePasswordChangeKeeps, ComputeRemainingKeeps,
     SetRevocationKeeps, CheckActorKeeps, CheckTargetKeeps, WriteStatusKeeps,
     WriteResetKeeps DEF Step
<1>4. CASE TogglePersist \/ Tick
  BY <1>4, EnvironmentKeeps
<1>5. QED BY <1>1, <1>2, <1>3, <1>4 DEF Next

\* The inductive invariant holds in every reachable state.
THEOREM Invariance == Spec => []IInv
  BY InitIInv, NextKeepsIInv, PTL DEF Spec

\* Every variable keeps its type.
THEOREM TypeCorrect == Spec => []TypeOK
<1>1. IInv => TypeOK
  BY DEF IInv
<1>2. QED BY Invariance, <1>1, PTL

\* A current token was issued for the password now in force (user_service.go,
\* Login and ChangePassword).
THEOREM TokenBinding == Spec => []TokenBindsPassword
<1>1. IInv => TokenBindsPassword
  BY DEF IInv, Global
<1>2. QED BY Invariance, <1>1, PTL

\* After an acknowledged logout the token lets nobody in (revocation.go, auth.go).
THEOREM LogoutIsFinal == Spec => []LoggedOutStaysOut
<1>1. IInv => LoggedOutStaysOut
  BY DEF IInv, Local, DeadOnArrival, LoggedOutStaysOut, Admitted, Inside, TypeOK
<1>2. QED BY Invariance, <1>1, PTL

\* A password replacement ends all earlier sessions (auth.go).
THEOREM ReplacementEndsSessions == Spec => []SupersededStaysOut
<1>1. IInv => SupersededStaysOut
  BY DEF IInv, Local, DeadOnArrival, SupersededStaysOut, Admitted, Inside, TypeOK
<1>2. QED BY Invariance, <1>1, PTL
-----------------------------------------------------------------------------
(* Action properties *)

\* Which actions write the credentials of a row, and with what.
LEMMA CredentialWrites ==
    ASSUME IInv, [Next]_vars, NEW u \in Users,
           version'[u] # version[u] \/ password'[u] # password[u]
    PROVE  \E r \in Requests :
               \/ /\ WritePasswordChange(r) /\ CasMatches(u, Claims(r).version)
                  /\ pc[r] = "cas" /\ pc'[r] # "cas"
                  /\ Owner(r) = u /\ req[r].new = password'[u]
               \/ /\ WriteReset(r) /\ CasMatches(u, Seen(r))
                  /\ pc[r] = "reset" /\ pc'[r] # "reset"
                  /\ Target(r) = u /\ NamePassword[u] = password'[u]
<1>1. ~ UNCHANGED db
  BY DEF db
<1>2. \E r \in Requests : WritePasswordChange(r) \/ WriteReset(r) \/ WriteStatus(r)
  BY <1>1 DEF Next, vars, db, Step, BeginLogin, BeginAuthenticated, Abort, IssueToken,
     CheckRevocation, LoadUser, CheckPasswordChange, ComputeRemaining, SetRevocation,
     CheckActor, CheckTarget, TogglePersist, Tick
<1>3. PICK r \in Requests : WritePasswordChange(r) \/ WriteReset(r)
  BY <1>2 DEF WriteStatus
<1>4. ASSUME NEW w \in Users, NEW expected, NEW hash \in Passwords,
             UpdatePasswordHash(r, w, expected, hash)
      PROVE  /\ pc'[r] \in Answers
             /\ w = u /\ CasMatches(u, expected) /\ password'[u] = hash
  <2>1. pc'[r] \in Answers
    BY <1>4, ReplyTyped DEF IInv, UpdatePasswordHash, ReplyWritten, Answers
  <2>2. /\ CasMatches(w, expected)
        /\ password' = [password EXCEPT ![w] = hash]
        /\ version' = [version EXCEPT ![w] = NextVersion(@)]
    BY <1>4 DEF UpdatePasswordHash
  <2>3. w = u
    BY <2>2 DEF IInv, TypeOK
  <2>4. QED BY <2>1, <2>2, <2>3 DEF IInv, TypeOK
<1>5. CASE WritePasswordChange(r)
  <2>1. pc[r] = "cas" /\ Owner(r) \in Users /\ req[r].new \in Passwords
    BY <1>5, InFlight DEF WritePasswordChange, Steps, Inside, IInv, Local, Shaped
  <2>2. QED BY <1>4, <1>5, <2>1 DEF WritePasswordChange, Answers
<1>6. CASE WriteReset(r)
  <2>1. pc[r] = "reset" /\ Target(r) \in Users
    BY <1>6, InFlight DEF WriteReset, Steps, Inside, IInv, Local, Shaped
  <2>2. NamePassword[Target(r)] \in Passwords
    BY <2>1, ConstantsOK
  <2>3. QED BY <1>4, <1>6, <2>1, <2>2 DEF WriteReset, Answers
<1>7. QED BY <1>3, <1>5, <1>6

\* The password is only replaced by whoever proved it, or reset on the row that
\* was read (UpdatePasswordHash and its two callers).
THEOREM PasswordOwnership == Spec => PasswordWritesAreOwned
<1>1. ASSUME IInv, [Next]_vars, NEW u \in Users,
             version'[u] # version[u] \/ password'[u] # password[u]
      PROVE  \E r \in Requests :
               \/ /\ pc[r] = "cas" /\ pc'[r] # "cas"
                  /\ Owner(r) = u
                  /\ req[r].old = password[u] /\ req[r].new = password'[u]
               \/ /\ pc[r] = "reset" /\ pc'[r] # "reset"
                  /\ Target(r) = u /\ u \notin Admins /\ Owner(r) \in Admins
                  /\ Seen(r) = version[u] /\ NamePassword[u] = password'[u]
  <2>1. ASSUME NEW r \in Requests, pc[r] = "cas", Owner(r) = u,
               CasMatches(u, Claims(r).version)
        PROVE  req[r].old = password[u]
    <3>1. VersionMatches(Claims(r)) => req[r].old = password[Owner(r)]
      BY <2>1, <1>1 DEF IInv, Local, ChangeReads
    <3>2. QED BY <2>1, <3>1 DEF VersionMatches, CasMatches, Owner
  <2>2. ASSUME NEW r \in Requests, pc[r] = "reset"
        PROVE  Owner(r) \in Admins /\ Target(r) \notin Admins
    BY <1>1, <2>2 DEF IInv, Local, ManagementReads
  <2>3. QED BY <1>1, <2>1, <2>2, CredentialWrites DEF CasMatches
<1>2. IInv /\ [Next]_vars => [OwnedPasswordWrite]_vars
  BY <1>1 DEF OwnedPasswordWrite
<1>3. QED BY <1>2, Invariance, PTL DEF Spec, PasswordWritesAreOwned

\* Mute and unmute are done by administrators, to others (SetUserStatus).
THEOREM ManagementAuthority == Spec => ManagementIsAuthorised
<1>1. ASSUME IInv, [Next]_vars, NEW u \in Users, status'[u] # status[u]
      PROVE  /\ u \notin Admins
             /\ \E r \in Requests : /\ pc[r] = "status" /\ pc'[r] # "status"
                                     /\ Target(r) = u /\ Owner(r) \in Admins
  <2>1. PICK r \in Requests : WriteStatus(r)
    BY <1>1 DEF Next, vars, db, Step, BeginLogin, BeginAuthenticated, Abort, IssueToken,
       CheckRevocation, LoadUser, CheckPasswordChange, ComputeRemaining, SetRevocation,
       CheckActor, CheckTarget, TogglePersist, Tick, WritePasswordChange, WriteReset
  <2>2. pc[r] = "status" /\ Owner(r) \in Admins /\ Target(r) \notin Admins
    BY <1>1, <2>1 DEF WriteStatus, IInv, Local, ManagementReads
  <2>3. Target(r) = u
    BY <1>1, <2>1 DEF WriteStatus, IInv, TypeOK
  <2>4. pc'[r] # "status"
    BY <1>1, <2>1, ReplyTyped DEF WriteStatus, ReplyWritten, IInv, Answers
  <2>5. QED BY <2>2, <2>3, <2>4
<1>2. IInv /\ [Next]_vars => [AuthorisedStatusWrite]_vars
  BY <1>1 DEF AuthorisedStatusWrite
<1>3. QED BY <1>2, Invariance, PTL DEF Spec, ManagementIsAuthorised
-----------------------------------------------------------------------------
(* Refinement *)

\* What Accounts means by the variables of Sessions.
SessionOf(tk) == [id |-> tk.id, owner |-> tk.owner, proven |-> tk.proven]
LiveSessions == {SessionOf(tk) : tk \in LiveTokens}
UsedIds == {tk.id : tk \in tokens}

\* Lost access alone is the end of the sessions that are gone.
LEMMA SessionsEnd ==
    ASSUME LiveSessions' \subseteq LiveSessions, UsedIds' = UsedIds,
           UNCHANGED password
    PROVE  Abstract!AbsNext
<1>1. PICK dead \in SUBSET LiveSessions : dead = LiveSessions \ LiveSessions'
  OBVIOUS
<1>2. Abstract!End(dead)
  BY <1>1 DEF Abstract!End, LiveSessions, UsedIds, SessionOf
<1>3. QED BY <1>1, <1>2 DEF Abstract!AbsNext, LiveSessions, SessionOf

\* A step that leaves the tokens and their revocations alone, and raises no
\* version, can only end sessions: those whose token expires.
LEMMA OnlyTimePasses ==
    ASSUME IInv, UNCHANGED <<password, version, tokens, revokedUntil>>,
           now' \in Nat, now <= now'
    PROVE  Abstract!AbsNext
<1>1. \A tk \in tokens : tk.exp \in Nat /\ now \in Nat
  BY DEF IInv, TypeOK, Token
<1>2. LiveTokens' \subseteq LiveTokens
  BY <1>1 DEF LiveTokens, NotExpired
<1>3. LiveSessions' \subseteq LiveSessions
  BY <1>2 DEF LiveSessions
<1>4. QED BY <1>3, SessionsEnd DEF UsedIds

\* Login opens a session, dead from the start if the password was replaced
\* since the login read it.
LEMMA IssueTokenRefines ==
    ASSUME IInv, NEW r \in Requests, IssueToken(r) PROVE Abstract!AbsNext
<1> DEFINE new == [id |-> r, owner |-> Target(r), version |-> Seen(r),
                   exp |-> now + TokenLife, proven |-> req[r].old]
<1>1. /\ pc[r] = "issue" /\ tokens' = tokens \cup {new}
      /\ UNCHANGED <<password, version, revokedUntil, now>>
  BY DEF IssueToken, SignedVersion, db, redis
<1>2. /\ Target(r) \in Users
      /\ Seen(r) = version[Target(r)] => req[r].old = password[Target(r)]
  BY <1>1 DEF IInv, Local, Shaped, LoginReads
<1>3. r \in TokenIds /\ r \notin UsedIds
  BY <1>1 DEF IInv, Global, TokensUnique, UsedIds, TokenIds, Answers
<1>4. UsedIds' = UsedIds \cup {r}
  <2>1. new.id = r
    OBVIOUS
  <2>2. QED BY <1>1, <2>1 DEF UsedIds
<1>5. \A tk \in tokens : tk \in LiveTokens' <=> tk \in LiveTokens
  BY <1>1 DEF LiveTokens, NotExpired
<1>6. CASE new \in LiveTokens'
  <2>1. LiveTokens' = LiveTokens \cup {new}
    BY <1>1, <1>5, <1>6 DEF LiveTokens
  <2>2. LiveSessions' = LiveSessions \cup {SessionOf(new)}
    BY <2>1 DEF LiveSessions
  <2>3. Seen(r) = version[Target(r)]
    BY <1>1, <1>6 DEF LiveTokens
  <2>4. SessionOf(new) = [id |-> r, owner |-> Target(r),
                          proven |-> password[Target(r)]]
    BY <1>2, <2>3 DEF SessionOf
  <2>5. Abstract!Open(Target(r), r)
    BY <1>1, <1>3, <1>4, <2>2, <2>4 DEF Abstract!Open, LiveSessions, UsedIds, SessionOf
  <2>6. QED BY <1>2, <1>3, <2>5 DEF Abstract!AbsNext
<1>7. CASE new \notin LiveTokens'
  <2>1. LiveTokens' = LiveTokens
    BY <1>1, <1>5, <1>7 DEF LiveTokens
  <2>2. LiveSessions' = LiveSessions
    BY <2>1 DEF LiveSessions
  <2>3. Abstract!OpenDead(r)
    BY <1>1, <1>3, <1>4, <2>2 DEF Abstract!OpenDead, LiveSessions, UsedIds, SessionOf
  <2>4. QED BY <1>3, <2>3 DEF Abstract!AbsNext
<1>8. QED BY <1>6, <1>7

\* A higher version of a row ends exactly the sessions of its account.
LEMMA HigherVersionEndsSessions ==
    ASSUME IInv, NEW u \in Users, version' = [version EXCEPT ![u] = @ + 1],
           UNCHANGED <<tokens, revokedUntil, now>>
    PROVE  LiveSessions' = LiveSessions \ {s \in LiveSessions : s.owner = u}
<1>1. ASSUME NEW tk \in tokens
      PROVE  tk \in LiveTokens' <=> tk \in LiveTokens /\ tk.owner # u
  <2>1. /\ tk.owner \in Users /\ tk.version \in Nat /\ version[tk.owner] \in Nat
        /\ version \in [Users -> Nat]
    BY DEF IInv, TypeOK, Token
  <2>2. tk.version <= version[tk.owner]
    BY DEF IInv, Global, TokenVersions
  <2>3. CASE tk.owner = u
    BY <2>1, <2>2, <2>3 DEF LiveTokens
  <2>4. CASE tk.owner # u
    BY <2>1, <2>4 DEF LiveTokens, NotExpired
  <2>5. QED BY <2>3, <2>4
<1>2. LiveTokens' = {tk \in LiveTokens : tk.owner # u}
  BY <1>1 DEF LiveTokens
<1>3. \A tk : SessionOf(tk).owner = tk.owner
  BY DEF SessionOf
<1>4. QED BY <1>2, <1>3 DEF LiveSessions

LEMMA WritePasswordChangeRefines ==
    ASSUME IInv, NEW r \in Requests, WritePasswordChange(r) PROVE Abstract!AbsNext
<1>1. /\ pc[r] = "cas" /\ Owner(r) \in Users
      /\ req[r].old \in Passwords /\ req[r].new \in Passwords /\ req[r].old # req[r].new
      /\ VersionMatches(Claims(r)) => req[r].old = password[Owner(r)]
  BY InFlight DEF WritePasswordChange, Steps, Inside, IInv, Local, Shaped, ChangeReads
<1>2. CASE ~CasMatches(Owner(r), Claims(r).version)
  BY <1>2, OnlyTimePasses DEF WritePasswordChange, UpdatePasswordHash, redis, IInv, TypeOK
<1>3. CASE CasMatches(Owner(r), Claims(r).version)
  <2>1. PICK u \in Users, old, new \in Passwords :
            u = Owner(r) /\ old = req[r].old /\ new = req[r].new
    BY <1>1
  <2>2. /\ version' = [version EXCEPT ![u] = @ + 1]
        /\ password' = [password EXCEPT ![u] = new]
        /\ UNCHANGED <<tokens, revokedUntil, now>>
    BY <1>3, <2>1 DEF WritePasswordChange, UpdatePasswordHash, NextVersion, redis
  <2>3. password[u] = old /\ new # old
    BY <1>1, <1>3, <2>1 DEF CasMatches, VersionMatches, Owner
  <2>4. LiveSessions' = LiveSessions \ {s \in LiveSessions : s.owner = u}
    BY <2>2, HigherVersionEndsSessions
  <2>5. Abstract!Replace(u, old, new)
    BY <2>2, <2>3, <2>4 DEF Abstract!Replace, Abstract!OwnedBy, LiveSessions, SessionOf
  <2>6. QED BY <2>5 DEF Abstract!AbsNext
<1>4. QED BY <1>2, <1>3

LEMMA WriteResetRefines ==
    ASSUME IInv, NEW r \in Requests, WriteReset(r) PROVE Abstract!AbsNext
<1>1. pc[r] = "reset" /\ Target(r) \in Users /\ Target(r) \notin Admins
  BY InFlight DEF WriteReset, Steps, Inside, IInv, Local, Shaped, ManagementReads
<1>2. CASE ~CasMatches(Target(r), Seen(r))
  BY <1>2, OnlyTimePasses DEF WriteReset, UpdatePasswordHash, redis, IInv, TypeOK
<1>3. CASE CasMatches(Target(r), Seen(r))
  <2>1. PICK u \in Users : u = Target(r)
    BY <1>1
  <2>2. /\ version' = [version EXCEPT ![u] = @ + 1]
        /\ password' = [password EXCEPT ![u] = NamePassword[u]]
        /\ UNCHANGED <<tokens, revokedUntil, now>>
    BY <1>3, <2>1 DEF WriteReset, UpdatePasswordHash, NextVersion, redis
  <2>3. LiveSessions' = LiveSessions \ {s \in LiveSessions : s.owner = u}
    BY <2>2, HigherVersionEndsSessions
  <2>4. Abstract!Reset(u)
    BY <1>1, <2>1, <2>2, <2>3
       DEF Abstract!Reset, Abstract!OwnedBy, LiveSessions, SessionOf
  <2>5. QED BY <2>4 DEF Abstract!AbsNext
<1>4. QED BY <1>2, <1>3

\* A revocation ends one session and never revives one: the record reaches the
\* expiry of the only token it is about.
LEMMA SetRevocationRefines ==
    ASSUME IInv, NEW r \in Requests, SetRevocation(r) PROVE Abstract!AbsNext
<1>1. /\ pc[r] = "set" /\ UNCHANGED <<password, version, tokens, now>>
      /\ Claims(r) \in tokens /\ req[r] \in Request
      /\ now + Seen(r) >= Claims(r).exp
  BY InFlight DEF SetRevocation, db, Steps, Inside, IInv, Local, LogoutReads
<1>2. CASE FailRevocation(r)
  BY <1>1, <1>2, OnlyTimePasses DEF FailRevocation, IInv, TypeOK
<1>3. CASE StoreRevocation(r)
  <2>1. revokedUntil' = [revokedUntil EXCEPT ![Claims(r).id] = now + Seen(r)]
    BY <1>3 DEF StoreRevocation
  <2>2. ASSUME NEW tk \in tokens, tk \in LiveTokens' PROVE tk \in LiveTokens
    <3>1. /\ tk.exp \in Nat /\ now \in Nat /\ Seen(r) \in Nat
          /\ revokedUntil \in [TokenIds -> Nat] /\ tk.id \in TokenIds
      BY <1>1 DEF IInv, TypeOK, Token, Request, Seen
    <3>2. now < tk.exp /\ revokedUntil'[tk.id] = 0 /\ tk.version = version[tk.owner]
      BY <1>1, <2>2 DEF LiveTokens, NotExpired
    <3>3. tk.id # Claims(r).id
      <4> SUFFICES ASSUME tk = Claims(r) PROVE FALSE
        BY <1>1 DEF IInv, Global, TokensUnique
      <4>1. now + Seen(r) = 0 /\ now + Seen(r) >= tk.exp
        BY <1>1, <2>1, <3>1, <3>2
      <4>2. \A t, v, e \in Nat : t + v = 0 /\ t + v >= e => ~ (t < e)
        OBVIOUS
      <4>3. QED BY <3>1, <3>2, <4>1, <4>2
    <3>4. revokedUntil[tk.id] = 0
      BY <2>1, <3>1, <3>2, <3>3
    <3>5. QED BY <3>2, <3>4 DEF LiveTokens, NotExpired
  <2>3. LiveTokens' \subseteq LiveTokens
    BY <1>1, <2>2 DEF LiveTokens
  <2>4. LiveSessions' \subseteq LiveSessions
    BY <2>3 DEF LiveSessions
  <2>5. QED BY <1>1, <2>4, SessionsEnd DEF UsedIds
<1>4. QED BY <1>2, <1>3 DEF SetRevocation

LEMMA InitRefines == Init => Abstract!AbsInit
<1> SUFFICES ASSUME Init PROVE Abstract!AbsInit
  OBVIOUS
<1>1. IInv
  BY InitIInv
<1>2. LiveSessions \subseteq Abstract!Session
  BY <1>1 DEF LiveSessions, LiveTokens, SessionOf, Abstract!Session, IInv, TypeOK, Token
<1>3. \A s \in LiveSessions : s.proven = password[s.owner]
  BY <1>1 DEF LiveSessions, LiveTokens, SessionOf, IInv, Global, TokenBindsPassword
<1>4. UsedIds \subseteq TokenIds
  BY <1>1 DEF UsedIds, IInv, TypeOK, Token
<1>5. {s.id : s \in LiveSessions} \subseteq UsedIds
  BY DEF LiveSessions, LiveTokens, SessionOf, UsedIds
<1>6. password \in [Users -> Passwords]
  BY <1>1 DEF IInv, TypeOK
<1>7. QED BY <1>2, <1>3, <1>4, <1>5, <1>6
            DEF Abstract!AbsInit, LiveSessions, SessionOf, UsedIds

LEMMA NextRefines == IInv /\ [Next]_vars => [Abstract!AbsNext]_Abstract!absVars
<1> SUFFICES ASSUME IInv, [Next]_vars
             PROVE  Abstract!AbsNext \/ UNCHANGED Abstract!absVars
  OBVIOUS
<1>1. CASE UNCHANGED <<password, version, tokens, revokedUntil, now>>
  BY <1>1 DEF Abstract!absVars, LiveTokens, NotExpired
<1>2. CASE \E r \in Requests : \/ IssueToken(r) \/ WritePasswordChange(r)
                               \/ WriteReset(r) \/ SetRevocation(r)
  BY <1>2, IssueTokenRefines, WritePasswordChangeRefines, WriteResetRefines,
     SetRevocationRefines
<1>3. CASE Tick
  BY <1>3, OnlyTimePasses DEF Tick, db, redis, IInv, TypeOK
<1>4. \/ UNCHANGED <<password, version, tokens, revokedUntil, now>>
      \/ Tick
      \/ \E r \in Requests : \/ IssueToken(r) \/ WritePasswordChange(r)
                             \/ WriteReset(r) \/ SetRevocation(r)
  BY DEF Next, vars, db, redis, Step, BeginLogin, BeginAuthenticated, Abort,
     CheckRevocation, LoadUser, CheckPasswordChange, ComputeRemaining,
     CheckActor, CheckTarget, WriteStatus, TogglePersist
<1>5. QED BY <1>1, <1>2, <1>3, <1>4

\* The handlers, the claims, the revocation records and the session_version
\* column together behave as if every operation on passwords and sessions were
\* one atomic step (user_service.go, auth.go, revocation.go).
THEOREM Refinement == Spec => ImplementsSessions
  BY InitRefines, NextRefines, Invariance, PTL DEF Spec, ImplementsSessions, Abstract!AbsSpec
-----------------------------------------------------------------------------
(***************************************************************************)
(* Members.                                                                *)
(*                                                                         *)
(* The handlers change nothing of Accounts, so every behaviour of Members  *)
(* is one of Accounts and all theorems above hold of it. The limit follows *)
(* from what a handler knows of avatar_updated_at, which stays true        *)
(* because the column only moves forward.                                  *)
(***************************************************************************)

\* The change a handler has read is still the last one, or a later one is.
StampIsPast(r) == at[r] = "clock" /\ task[r].stamp # None =>
    /\ changedAt[Member(r)] # None
    /\ changedAt[Member(r)] >= task[r].stamp

\* Where only the URL can have saved the UPDATE, the limit is used up.
LimitIsUsed(r) == at[r] = "last" =>
    /\ changedAt[Member(r)] # None
    /\ changedAt[Member(r)] + Interval > Time(r)

HandlerInv(r) ==
    /\ at[r] \in Statements => task[r] \in Task
    /\ StampIsPast(r)
    /\ LimitIsUsed(r)

MembersInv == MembersTypeOK /\ \A r \in Requests : HandlerInv(r)

\* avatar_updated_at is never cleared and never goes back.
StampsGrow ==
    \A u \in Users : changedAt[u] # None =>
        changedAt'[u] # None /\ changedAt'[u] >= changedAt[u]
-----------------------------------------------------------------------------
(* Every behaviour of Members is one of Accounts *)

LEMMA MembersNextIsNext == [MembersNext]_memberVars => [Next]_vars
<1> SUFFICES ASSUME [MembersNext]_memberVars PROVE [Next]_vars
  OBVIOUS
<1>1. ASSUME NEW r \in Requests, MembersStep(r)
      PROVE  Step(r)
  BY <1>1 DEF MembersStep, Admit, Step
<1>2. ASSUME NEW r \in Requests,
             BeginLogin(r) \/ BeginAuthenticated(r) \/ Abort(r)
      PROVE  Next
  BY <1>2 DEF Next
<1>3. CASE MembersNext
  BY <1>1, <1>2, <1>3 DEF MembersNext, Next
<1>4. CASE UNCHANGED memberVars
  BY <1>4 DEF memberVars
<1> QED BY <1>3, <1>4

\* The profile, avatar and message handlers touch nothing that login, Auth,
\* logout, password change, reset and mute rely on: composed with them, all
\* that is proved of the sessions holds as it stands.
THEOREM MembersKeepAccounts == MembersSpec => Spec
<1>1. MembersInit => Init
  BY DEF MembersInit
<1> QED BY <1>1, MembersNextIsNext, PTL DEF MembersSpec, Spec

LEMMA MembersHaveIInv == MembersSpec => []IInv
BY MembersKeepAccounts, Invariance, PTL

\* What is proved of a state with IInv, for the steps of the handlers.
LEMMA AdmittedIsTyped ==
    ASSUME IInv, NEW r \in Requests, pc[r] = "load"
    PROVE  Owner(r) \in Users
<1>1. Claims(r) \in tokens /\ tokens \subseteq Token
  BY DEF IInv, Local, Shaped, TypeOK, Steps
<1> QED BY <1>1 DEF Owner, Token

\* A handler that ends leaves nothing behind.
LEMMA FinishKeeps ==
    ASSUME MembersInv, IInv', NEW r \in Requests, NEW outcome \in Outcomes,
           Finish(r, outcome), UNCHANGED columns
    PROVE  MembersInv' /\ StampsGrow
<1>1. MembersTypeOK'
  BY DEF MembersInv, MembersTypeOK, Finish, columns, IInv
<1>2. ASSUME NEW s \in Requests
      PROVE  HandlerInv(s)'
  <2>1. CASE s = r
    BY <2>1 DEF MembersInv, MembersTypeOK, Finish, HandlerInv, StampIsPast, LimitIsUsed,
                Outcomes, Statements
  <2>2. CASE s # r
    <3>1. at'[s] = at[s] /\ task'[s] = task[s] /\ HandlerInv(s)
      BY <2>2 DEF MembersInv, MembersTypeOK, Finish
    <3> QED BY <3>1 DEF columns, HandlerInv, StampIsPast, LimitIsUsed, Member, Time
  <2> QED BY <2>1, <2>2
<1>3. StampsGrow
  BY MembersConstantsOK DEF StampsGrow, columns, MembersInv, MembersTypeOK
<1> QED BY <1>1, <1>2, <1>3 DEF MembersInv

\* A handler that goes on, with what it has read.
LEMMA ProceedKeeps ==
    ASSUME MembersInv, IInv', NEW r \in Requests, NEW statement \in Statements,
           NEW t \in Task,
           at' = [at EXCEPT ![r] = statement], task' = [task EXCEPT ![r] = t],
           statement = "clock" /\ t.stamp # None =>
               /\ changedAt[t.user] # None
               /\ changedAt[t.user] >= t.stamp,
           statement = "last" =>
               /\ changedAt[t.user] # None
               /\ changedAt[t.user] + Interval > t.time,
           UNCHANGED columns
    PROVE  MembersInv' /\ StampsGrow
<1>1. MembersTypeOK'
  BY DEF MembersInv, MembersTypeOK, columns, IInv
<1>2. ASSUME NEW s \in Requests
      PROVE  HandlerInv(s)'
  <2>1. CASE s = r
    <3>1. at'[s] = statement /\ task'[s] = t
      BY <2>1 DEF MembersInv, MembersTypeOK
    <3> QED BY <3>1 DEF columns, HandlerInv, StampIsPast, LimitIsUsed, Member, Time
  <2>2. CASE s # r
    <3>1. at'[s] = at[s] /\ task'[s] = task[s] /\ HandlerInv(s)
      BY <2>2 DEF MembersInv, MembersTypeOK
    <3> QED BY <3>1 DEF columns, HandlerInv, StampIsPast, LimitIsUsed, Member, Time
  <2> QED BY <2>1, <2>2
<1>3. StampsGrow
  BY MembersConstantsOK DEF StampsGrow, columns, MembersInv, MembersTypeOK
<1> QED BY <1>1, <1>2, <1>3 DEF MembersInv

LEMMA GoOnKeeps ==
    ASSUME MembersInv, IInv', NEW r \in Requests, NEW statement \in Statements,
           at[r] \in Statements, Proceed(r, statement),
           statement # "clock",
           statement = "last" =>
               /\ changedAt[Member(r)] # None
               /\ changedAt[Member(r)] + Interval > Time(r),
           UNCHANGED columns
    PROVE  MembersInv' /\ StampsGrow
<1>1. task[r] \in Task
  BY DEF MembersInv, HandlerInv
<1>2. task' = [task EXCEPT ![r] = task[r]]
  BY DEF Proceed, MembersInv, MembersTypeOK
<1>3. at' = [at EXCEPT ![r] = statement]
  BY DEF Proceed
<1> QED BY <1>1, <1>2, <1>3, ProceedKeeps DEF Member, Time

\* The write of a column: what the others know of avatar_updated_at holds still
\* when that column only grows.
LEMMA WriteKeeps ==
    ASSUME MembersInv, IInv', NEW r \in Requests, Finish(r, "answered"),
           avatar' \in [Users -> Avatars],
           changedAt' \in [Users -> Nat \cup {None}],
           profile' \in [Users -> Requests \cup {None}],
           messages' \in [Requests -> Users \cup {None}],
           StampsGrow
    PROVE  MembersInv'
<1>1. MembersTypeOK'
  BY DEF MembersInv, MembersTypeOK, Finish, Outcomes, IInv
<1>2. ASSUME NEW s \in Requests
      PROVE  HandlerInv(s)'
  <2>1. CASE s = r
    BY <2>1 DEF MembersInv, MembersTypeOK, Finish, HandlerInv, StampIsPast, LimitIsUsed,
                Statements
  <2>2. CASE s # r
    <3>1. at'[s] = at[s] /\ task'[s] = task[s] /\ HandlerInv(s)
      BY <2>2 DEF MembersInv, MembersTypeOK, Finish
    <3>2. at[s] \in Statements => task[s].user \in Users /\ task[s].time \in Nat
      BY <3>1 DEF HandlerInv, Task
    <3>3. at[s] \in Statements /\ changedAt[task[s].user] # None =>
              /\ changedAt'[task[s].user] \in Nat
              /\ changedAt[task[s].user] \in Nat
              /\ changedAt'[task[s].user] # None
              /\ changedAt'[task[s].user] >= changedAt[task[s].user]
      BY <3>2 DEF StampsGrow, MembersInv, MembersTypeOK
    <3>4. StampIsPast(s)'
      <4>1. CASE at[s] = "clock" /\ task[s].stamp # None
        <5>1. task[s].stamp \in Nat
          BY <3>1, <4>1 DEF HandlerInv, Task, Statements
        <5> QED BY <3>1, <3>3, <4>1, <5>1 DEF HandlerInv, StampIsPast, Member, Statements
      <4>2. CASE ~(at[s] = "clock" /\ task[s].stamp # None)
        BY <3>1, <4>2 DEF StampIsPast
      <4> QED BY <4>1, <4>2
    <3>5. LimitIsUsed(s)'
      <4>1. CASE at[s] = "last"
        BY <3>1, <3>2, <3>3, <4>1, MembersConstantsOK
        DEF HandlerInv, LimitIsUsed, Member, Time, Statements
      <4>2. CASE at[s] # "last"
        BY <3>1, <4>2 DEF LimitIsUsed
      <4> QED BY <4>1, <4>2
    <3> QED BY <3>1, <3>4, <3>5 DEF HandlerInv
  <2> QED BY <2>1, <2>2
<1> QED BY <1>1, <1>2 DEF MembersInv

\* The UPDATE of an avatar, where its time condition holds.
LEMMA StoreAvatarKeeps ==
    ASSUME MembersInv, IInv', NEW r \in Requests, at[r] \in Statements,
           LimitAllows(r), StoreAvatar(r)
    PROVE  MembersInv' /\ ChangesAreSpaced
<1>1. /\ Member(r) \in Users /\ Url(r) \in Avatars /\ Time(r) \in Nat
      /\ Time(r) # None
  BY MembersConstantsOK DEF MembersInv, HandlerInv, Task, Member, Url, Time
<1>2. /\ avatar' = [avatar EXCEPT ![Member(r)] = Url(r)]
      /\ changedAt' = [changedAt EXCEPT ![Member(r)] = Time(r)]
      /\ avatar \in [Users -> Avatars] /\ changedAt \in [Users -> Nat \cup {None}]
  BY DEF StoreAvatar, MembersInv, MembersTypeOK
<1>3. changedAt[Member(r)] # None => Time(r) >= changedAt[Member(r)] + Interval
  <2>1. changedAt[Member(r)] # None => changedAt[Member(r)] \in Nat
    BY <1>1, <1>2
  <2> QED BY <1>1, <2>1, MembersConstantsOK DEF LimitAllows, IsOver
<1>4. ChangesAreSpaced
  BY <1>1, <1>2, <1>3 DEF ChangesAreSpaced
<1>5. StampsGrow
  <2>1. ASSUME NEW u \in Users, changedAt[u] # None
        PROVE  changedAt'[u] # None /\ changedAt'[u] >= changedAt[u]
    <3>1. changedAt[u] \in Nat
      BY <1>2, <2>1
    <3>2. CASE u = Member(r)
      BY <1>1, <1>2, <1>3, <2>1, <3>1, <3>2, MembersConstantsOK
    <3>3. CASE u # Member(r)
      BY <1>2, <2>1, <3>1, <3>3
    <3> QED BY <3>2, <3>3
  <2> QED BY <2>1 DEF StampsGrow
<1>6. MembersInv'
  <2>1. /\ avatar' \in [Users -> Avatars]
        /\ changedAt' \in [Users -> Nat \cup {None}]
    BY <1>1, <1>2
  <2>2. /\ profile' \in [Users -> Requests \cup {None}]
        /\ messages' \in [Requests -> Users \cup {None}]
        /\ Finish(r, "answered")
    BY DEF StoreAvatar, MembersInv, MembersTypeOK
  <2> QED BY <1>5, <2>1, <2>2, WriteKeeps
<1> QED BY <1>4, <1>6

\* A refusal of r is the only one of its step.
LEMMA OneRefusal ==
    ASSUME MembersInv, NEW r \in Requests, NEW outcome,
           at' = [at EXCEPT ![r] = outcome],
           outcome = "refused" =>
               LET time == IF at[r] = "clock" THEN now ELSE Time(r)
               IN  /\ changedAt[Member(r)] # None
                   /\ changedAt[Member(r)] + Interval > time
    PROVE  RefusalsAreTrue
<1>1. ASSUME NEW s \in Requests, at[s] \in Statements, at'[s] = "refused"
      PROVE  s = r /\ outcome = "refused"
  BY <1>1 DEF MembersInv, MembersTypeOK, Statements
<1> QED BY <1>1 DEF RefusalsAreTrue

LEMMA SpacedWhenUnchanged ==
    ASSUME UNCHANGED <<avatar, changedAt>>
    PROVE  ChangesAreSpaced
BY DEF ChangesAreSpaced
-----------------------------------------------------------------------------
(* Each step keeps the invariant and the limit *)

Exact == MembersInv' /\ ChangesAreSpaced /\ RefusalsAreTrue

LEMMA AnsweredIsExact ==
    ASSUME MembersInv, IInv', NEW r \in Requests, Finish(r, "answered"),
           UNCHANGED columns
    PROVE  Exact
<1>1. MembersInv'
  BY FinishKeeps DEF Outcomes
<1>2. RefusalsAreTrue
  <2>1. at' = [at EXCEPT ![r] = "answered"]
    BY DEF Finish
  <2> QED BY <2>1, OneRefusal
<1> QED BY <1>1, <1>2, SpacedWhenUnchanged DEF Exact, columns

LEMMA RefusedIsExact ==
    ASSUME MembersInv, IInv', NEW r \in Requests, Finish(r, "refused"),
           UNCHANGED columns,
           LET time == IF at[r] = "clock" THEN now ELSE Time(r)
           IN  /\ changedAt[Member(r)] # None
               /\ changedAt[Member(r)] + Interval > time
    PROVE  Exact
<1>1. MembersInv'
  BY FinishKeeps DEF Outcomes
<1>2. RefusalsAreTrue
  <2>1. at' = [at EXCEPT ![r] = "refused"]
    BY DEF Finish
  <2> QED BY <2>1, OneRefusal
<1> QED BY <1>1, <1>2, SpacedWhenUnchanged DEF Exact, columns

LEMMA GoOnIsExact ==
    ASSUME MembersInv, IInv', NEW r \in Requests, at[r] \in Statements,
           NEW statement \in Statements \ {"clock"}, Proceed(r, statement),
           statement = "last" =>
               /\ changedAt[Member(r)] # None
               /\ changedAt[Member(r)] + Interval > Time(r),
           UNCHANGED columns
    PROVE  Exact
<1>1. MembersInv'
  BY GoOnKeeps
<1>2. RefusalsAreTrue
  <2>1. at' = [at EXCEPT ![r] = statement] /\ statement # "refused"
    BY DEF Proceed, Statements
  <2> QED BY <2>1, OneRefusal
<1> QED BY <1>1, <1>2, SpacedWhenUnchanged DEF Exact, columns

\* Without the room the limit leaves, there is a change to wait for.
LEMMA NoRoom ==
    ASSUME MembersInv, NEW r \in Requests, at[r] \in Statements
    PROVE  /\ ~LimitAllows(r) => /\ changedAt[Member(r)] # None
                                 /\ changedAt[Member(r)] + Interval > Time(r)
           /\ ~IsOver(task[r].stamp, now) /\ at[r] = "clock" /\ now \in Nat =>
                  /\ changedAt[Member(r)] # None
                  /\ changedAt[Member(r)] + Interval > now
<1>1. /\ task[r].user \in Users /\ task[r].time \in Nat
      /\ task[r].stamp \in Nat \cup {None}
  BY DEF MembersInv, HandlerInv, Task
<1>2. changedAt[Member(r)] \in Nat \cup {None}
  BY <1>1 DEF MembersInv, MembersTypeOK, Member
<1>3. StampIsPast(r)
  BY DEF MembersInv, HandlerInv
<1> QED BY <1>1, <1>2, <1>3, MembersConstantsOK
        DEF LimitAllows, IsOver, StampIsPast, Time

LEMMA CheckMemberIsExact ==
    ASSUME MembersInv, IInv', NEW r \in Requests, CheckMember(r)
    PROVE  Exact
<1>1. at[r] \in Statements /\ at[r] = "member" /\ UNCHANGED columns
  BY DEF CheckMember, Statements
<1>2. CASE Finish(r, "answered")
  BY <1>1, <1>2, AnsweredIsExact
<1>3. CASE Proceed(r, "profile")
  <2>1. "profile" \in Statements \ {"clock"} /\ "profile" # "last"
    BY DEF Statements
  <2> QED BY <1>1, <1>3, <2>1, GoOnIsExact
<1>4. CASE /\ task' = [task EXCEPT ![r].stamp = changedAt[Member(r)]]
           /\ at' = [at EXCEPT ![r] = "clock"]
  <2> DEFINE t == [task[r] EXCEPT !.stamp = changedAt[Member(r)]]
  <2>1. task[r] \in Task /\ changedAt[Member(r)] \in Nat \cup {None}
    BY <1>1 DEF MembersInv, MembersTypeOK, HandlerInv, Task, Member
  <2>2. /\ t \in Task /\ t.user = Member(r) /\ t.stamp = changedAt[Member(r)]
        /\ task' = [task EXCEPT ![r] = t]
    BY <1>4, <2>1 DEF Task, Member
  <2>3. "clock" \in Statements /\ "clock" # "last"
    BY DEF Statements
  <2>4. t.stamp # None => /\ changedAt[t.user] # None
                          /\ changedAt[t.user] >= t.stamp
    BY <2>1, <2>2
  <2> HIDE DEF t
  <2>5. MembersInv'
    BY <1>1, <1>4, <2>2, <2>3, <2>4, ProceedKeeps
  <2>6. RefusalsAreTrue
    BY <1>4, OneRefusal
  <2> QED BY <1>1, <2>5, <2>6, SpacedWhenUnchanged DEF Exact, columns
<1> QED BY <1>2, <1>3, <1>4 DEF CheckMember

LEMMA ReadClockIsExact ==
    ASSUME MembersInv, IInv', now \in Nat, NEW r \in Requests, ReadClock(r)
    PROVE  Exact
<1>1. at[r] \in Statements /\ at[r] = "clock" /\ UNCHANGED columns
  BY DEF ReadClock, Statements
<1>2. CASE ~IsOver(task[r].stamp, now)
  <2>1. Finish(r, "refused")
    BY <1>2 DEF ReadClock
  <2> QED BY <1>1, <1>2, <2>1, NoRoom, RefusedIsExact
<1>3. CASE IsOver(task[r].stamp, now)
  <2> DEFINE t == [task[r] EXCEPT !.time = now]
  <2>1. task[r] \in Task
    BY <1>1 DEF MembersInv, HandlerInv
  <2>2. /\ t \in Task
        /\ task' = [task EXCEPT ![r] = t]
        /\ at' = [at EXCEPT ![r] = "cas"]
    BY <1>3, <2>1 DEF Task, ReadClock
  <2>3. "cas" \in Statements /\ "cas" # "last" /\ "cas" # "clock"
    BY DEF Statements
  <2> HIDE DEF t
  <2>4. MembersInv'
    BY <1>1, <2>2, <2>3, ProceedKeeps
  <2>5. RefusalsAreTrue
    BY <2>2, OneRefusal
  <2> QED BY <1>1, <2>4, <2>5, SpacedWhenUnchanged DEF Exact, columns
<1> QED BY <1>2, <1>3

LEMMA StoreIsExact ==
    ASSUME MembersInv, IInv', NEW r \in Requests, at[r] \in Statements,
           LimitAllows(r), StoreAvatar(r)
    PROVE  Exact
<1>1. RefusalsAreTrue
  <2>1. at' = [at EXCEPT ![r] = "answered"]
    BY DEF StoreAvatar, Finish
  <2> QED BY <2>1, OneRefusal
<1> QED BY <1>1, StoreAvatarKeeps DEF Exact

LEMMA WriteAvatarIsExact ==
    ASSUME MembersInv, IInv', NEW r \in Requests, WriteAvatar(r)
    PROVE  Exact
<1>1. at[r] \in Statements
  BY DEF WriteAvatar, Statements
<1>2. CASE LimitAllows(r) /\ StoreAvatar(r)
  BY <1>1, <1>2, StoreIsExact
<1>3. CASE Proceed(r, "again") /\ UNCHANGED columns
  <2>1. "again" \in Statements \ {"clock"} /\ "again" # "last"
    BY DEF Statements
  <2> QED BY <1>1, <1>3, <2>1, GoOnIsExact
<1> QED BY <1>2, <1>3 DEF WriteAvatar

LEMMA ReadAgainIsExact ==
    ASSUME MembersInv, IInv', NEW r \in Requests, ReadAgain(r)
    PROVE  Exact
<1>1. at[r] \in Statements /\ at[r] # "clock" /\ UNCHANGED columns
  BY DEF ReadAgain, Statements
<1>2. CASE Finish(r, "answered")
  BY <1>1, <1>2, AnsweredIsExact
<1>3. CASE Proceed(r, "recas")
  <2>1. "recas" \in Statements \ {"clock"} /\ "recas" # "last"
    BY DEF Statements
  <2> QED BY <1>1, <1>3, <2>1, GoOnIsExact
<1>4. CASE ~LimitAllows(r) /\ Finish(r, "refused")
  BY <1>1, <1>4, NoRoom, RefusedIsExact
<1> QED BY <1>2, <1>3, <1>4 DEF ReadAgain

LEMMA WriteAvatarAgainIsExact ==
    ASSUME MembersInv, IInv', NEW r \in Requests, WriteAvatarAgain(r)
    PROVE  Exact
<1>1. at[r] \in Statements
  BY DEF WriteAvatarAgain, Statements
<1>2. CASE LimitAllows(r) /\ StoreAvatar(r)
  BY <1>1, <1>2, StoreIsExact
<1>3. CASE ~LimitAllows(r) /\ Proceed(r, "last") /\ UNCHANGED columns
  <2>1. "last" \in Statements \ {"clock"}
    BY DEF Statements
  <2>2. /\ changedAt[Member(r)] # None
        /\ changedAt[Member(r)] + Interval > Time(r)
    BY <1>1, <1>3, NoRoom
  <2> QED BY <1>1, <1>3, <2>1, <2>2, GoOnIsExact
<1> QED BY <1>2, <1>3 DEF WriteAvatarAgain

LEMMA ReadLastIsExact ==
    ASSUME MembersInv, IInv', NEW r \in Requests, ReadLast(r)
    PROVE  Exact
<1>1. at[r] = "last" /\ UNCHANGED columns
  BY DEF ReadLast
<1>2. CASE Finish(r, "answered")
  BY <1>1, <1>2, AnsweredIsExact
<1>3. CASE Finish(r, "refused")
  <2>1. LimitIsUsed(r)
    BY DEF MembersInv, HandlerInv
  <2> QED BY <1>1, <1>3, <2>1, RefusedIsExact DEF LimitIsUsed
<1> QED BY <1>2, <1>3 DEF ReadLast

\* WriteProfile and CreateMessage leave the avatar alone.
LEMMA OtherWriteIsExact ==
    ASSUME MembersInv, IInv', NEW r \in Requests, WriteProfile(r) \/ CreateMessage(r)
    PROVE  Exact
<1>1. /\ Finish(r, "answered") /\ UNCHANGED <<avatar, changedAt>>
      /\ at[r] \in Statements
  BY DEF WriteProfile, CreateMessage, Statements
<1>2. Member(r) \in Users
  BY <1>1 DEF MembersInv, HandlerInv, Task, Member
<1>3. /\ profile' \in [Users -> Requests \cup {None}]
      /\ messages' \in [Requests -> Users \cup {None}]
      /\ avatar' \in [Users -> Avatars]
      /\ changedAt' \in [Users -> Nat \cup {None}]
  BY <1>1, <1>2 DEF WriteProfile, CreateMessage, MembersInv, MembersTypeOK
<1>4. StampsGrow
  BY <1>1 DEF StampsGrow, MembersInv, MembersTypeOK
<1>5. MembersInv'
  BY <1>1, <1>3, <1>4, WriteKeeps
<1>6. RefusalsAreTrue
  <2>1. at' = [at EXCEPT ![r] = "answered"]
    BY <1>1 DEF Finish
  <2> QED BY <2>1, OneRefusal
<1> QED BY <1>1, <1>5, <1>6, SpacedWhenUnchanged DEF Exact

LEMMA AdmitIsExact ==
    ASSUME IInv, MembersInv, IInv', NEW r \in Requests, Admit(r)
    PROVE  Exact
<1>1. UNCHANGED columns /\ Owner(r) \in Users
  BY AdmittedIsTyped DEF Admit, Admits
<1>2. PICK e \in Errand \cap Doing[r] :
          IF EndsAtOnce(r, e.op)
          THEN Finish(r, "answered")
          ELSE /\ at' = [at EXCEPT ![r] =
                      IF e.op = "message" THEN "insert" ELSE "member"]
               /\ task' = [task EXCEPT ![r] =
                      [op |-> e.op, user |-> Owner(r), url |-> e.url,
                       stamp |-> None, time |-> 0]]
  BY DEF Admit
<1>3. CASE Finish(r, "answered")
  BY <1>1, <1>3, AnsweredIsExact
<1>4. CASE ~EndsAtOnce(r, e.op)
  <2> DEFINE t == [op |-> e.op, user |-> Owner(r), url |-> e.url,
                   stamp |-> None, time |-> 0]
             first == IF e.op = "message" THEN "insert" ELSE "member"
  <2>1. t \in Task /\ task' = [task EXCEPT ![r] = t]
    BY <1>1, <1>2, <1>4 DEF Errand, Task
  <2>2. /\ first \in Statements /\ first # "clock" /\ first # "last"
        /\ first # "refused" /\ at' = [at EXCEPT ![r] = first]
    BY <1>2, <1>4 DEF Statements
  <2> HIDE DEF t, first
  <2>3. MembersInv'
    BY <1>1, <2>1, <2>2, ProceedKeeps
  <2>4. RefusalsAreTrue
    BY <2>2, OneRefusal
  <2> QED BY <1>1, <2>3, <2>4, SpacedWhenUnchanged DEF Exact, columns
<1> QED BY <1>2, <1>3, <1>4

\* The other steps of Accounts, time included, leave the handlers alone.
LEMMA ElsewhereIsExact ==
    ASSUME MembersInv, IInv', UNCHANGED members
    PROVE  Exact
<1>1. MembersInv'
  BY DEF MembersInv, MembersTypeOK, members, IInv, HandlerInv, StampIsPast,
         LimitIsUsed, Member, Time
<1>2. RefusalsAreTrue
  BY DEF RefusalsAreTrue, members, Statements
<1> QED BY <1>1, <1>2, SpacedWhenUnchanged DEF Exact, members

LEMMA MembersStepIsExact ==
    ASSUME IInv, MembersInv, IInv', [MembersNext]_memberVars
    PROVE  Exact
<1>1. now \in Nat
  BY DEF IInv, TypeOK
<1>2. ASSUME NEW r \in Requests, Handle(r)
      PROVE  Exact
  BY <1>1, <1>2, CheckMemberIsExact, ReadClockIsExact, WriteAvatarIsExact,
     ReadAgainIsExact, WriteAvatarAgainIsExact, ReadLastIsExact, OtherWriteIsExact
  DEF Handle
<1>3. ASSUME NEW r \in Requests, Break(r)
      PROVE  Exact
  BY <1>3, AnsweredIsExact DEF Break
<1>4. ASSUME NEW r \in Requests, MembersStep(r)
      PROVE  Exact
  BY <1>4, AdmitIsExact, ElsewhereIsExact DEF MembersStep
<1>5. CASE UNCHANGED members
  BY <1>5, ElsewhereIsExact
<1> QED BY <1>2, <1>3, <1>4, <1>5 DEF MembersNext, memberVars

LEMMA InitMembersInv == MembersInit => MembersInv
<1> SUFFICES ASSUME MembersInit PROVE MembersInv
  OBVIOUS
<1>1. TypeOK
  BY InitIInv DEF MembersInit, IInv
<1> QED BY <1>1, MembersConstantsOK
        DEF MembersInit, MembersInv, MembersTypeOK, HandlerInv, StampIsPast,
            LimitIsUsed, Statements
-----------------------------------------------------------------------------
(* The theorems *)

\* What the handlers of UpdateProfile, UpdateAvatar and CreateMessage store has
\* the types of the columns, whoever is let through and whatever they ask for.
THEOREM MembersTypeCorrect == MembersSpec => []MembersTypeOK
<1>1. IInv /\ MembersInv /\ IInv' /\ [MembersNext]_memberVars => MembersInv'
  BY MembersStepIsExact DEF Exact
<1>2. MembersInv => MembersTypeOK
  BY DEF MembersInv
<1> QED BY <1>1, <1>2, InitMembersInv, MembersHaveIInv, PTL DEF MembersSpec

\* UpdateAvatar grants no two changes of one avatar within the interval and
\* refuses nobody who has not had one, for any number of concurrent requests,
\* any collation of the column and any way the clock goes forward between the
\* statements.
THEOREM AvatarLimit == MembersSpec => AvatarLimitIsExact
<1>1. IInv /\ MembersInv /\ IInv' /\ [MembersNext]_memberVars => MembersInv'
  BY MembersStepIsExact DEF Exact
<1>2. IInv /\ MembersInv /\ IInv' /\ [MembersNext]_memberVars
          => [ChangesAreSpaced /\ RefusalsAreTrue]_memberVars
  BY MembersStepIsExact DEF Exact
<1> QED BY <1>1, <1>2, InitMembersInv, MembersHaveIInv, PTL
        DEF MembersSpec, AvatarLimitIsExact
=============================================================================
