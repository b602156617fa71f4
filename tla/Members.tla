------------------------------ MODULE Members ------------------------------
(***************************************************************************)
(* What a member does behind Auth: the profile, the avatar with its limit  *)
(* of one change a day, and messages to the administrators.                *)
(*                                                                         *)
(* Sources: UpdateProfile and UpdateAvatar of user_service.go and of the   *)
(* user repository, and message_service.go.  The requests are those of     *)
(* Accounts, with every step of Auth: where a request of kind "me" is let  *)
(* through, a handler begins, whose statements go on between those of the  *)
(* other requests.  Members.Spec is Accounts.Spec with more variables.     *)
(***************************************************************************)
EXTENDS Accounts

CONSTANTS
    Avatars,        \* normalised URLs, the empty one included
    FirstAvatar,    \* the avatar everyone starts with
    Folded,         \* Folded[url]: what the collation of avatar_url compares
    Interval,       \* AvatarUpdateInterval (24 hours), in clock ticks
    Doing           \* bound: Doing[r], the errands of request r when let through

ASSUME MembersConstantsOK ==
    /\ FirstAvatar \in Avatars
    /\ DOMAIN Folded = Avatars
    /\ Interval \in Nat \ {0}
    /\ None \notin Nat

VARIABLES
    avatar,         \* users: avatar_url
    changedAt,      \* users: avatar_updated_at, None until the first change
    profile,        \* users: who wrote nickname and introduction, by request
    messages,       \* the messages table, by the request that wrote each
    task, at        \* each handler: its local variables, its next statement

columns == <<avatar, changedAt, profile, messages>>
members == <<avatar, changedAt, profile, messages, task, at>>
memberVars == <<vars, members>>

\* "read" stands for the own row and the own messages, "all" lists those of
\* everyone.
Writing == {"profile", "avatar"}
Operations == {"read", "message", "all"} \cup Writing

\* `stamp` is avatar_updated_at as it was read, `time` the clock after it.
Errand == [op : Operations, url : Avatars]
Task == [op : Operations, user : Users, url : Avatars,
         stamp : Nat \cup {None}, time : Nat]

\* A handler ends "refused" with ErrAvatarUpdateTooFrequent, and "answered"
\* with everything else, which no property tells apart.
Statements == {"member", "clock", "profile", "cas", "again", "recas", "last",
               "insert"}
Outcomes == {"answered", "refused"}

MembersTypeOK ==
    /\ TypeOK
    /\ avatar \in [Users -> Avatars]
    /\ changedAt \in [Users -> Nat \cup {None}]
    /\ profile \in [Users -> Requests \cup {None}]
    /\ messages \in [Requests -> Users \cup {None}]
    /\ task \in [Requests -> Task \cup {None}]
    /\ at \in [Requests -> Statements \cup Outcomes \cup {"idle"}]

MembersInit ==
    /\ Init
    /\ avatar = [u \in Users |-> FirstAvatar]
    /\ changedAt = [u \in Users |-> None]
    /\ profile = [u \in Users |-> None]
    /\ messages = [r \in Requests |-> None]
    /\ task = [r \in Requests |-> None]
    /\ at = [r \in Requests |-> "idle"]
-----------------------------------------------------------------------------
Member(r) == task[r].user
Url(r) == task[r].url
Time(r) == task[r].time

Proceed(r, statement) ==
    /\ at' = [at EXCEPT ![r] = statement]
    /\ UNCHANGED task

Finish(r, outcome) ==
    /\ at' = [at EXCEPT ![r] = outcome]
    /\ task' = [task EXCEPT ![r] = None]

\* Auth is about to let a request of kind "me" through.
Admits(r) == pc[r] = "load" /\ req[r].kind = "me" /\ VersionMatches(Claims(r))

\* RequireActiveUser, on the routes that write to the user, looks at the row
\* Auth has loaded; a read of one's own rows changes nothing.
EndsAtOnce(r, op) == op = "read" \/ (op \in Writing /\ ~IsActive(Owner(r)))

\* CreateMessage reads the sender only to see that the row is there, which it
\* always is: the muted may write to the administrators.
Admit(r) ==
    /\ Admits(r)
    /\ LoadUser(r)
    /\ \E e \in Errand \cap Doing[r] :
           IF EndsAtOnce(r, e.op)
           THEN Finish(r, "answered")
           ELSE /\ at' = [at EXCEPT ![r] =
                       IF e.op = "message" THEN "insert" ELSE "member"]
                /\ task' = [task EXCEPT ![r] =
                       [op |-> e.op, user |-> Owner(r), url |-> e.url,
                        stamp |-> None, time |-> 0]]
    /\ UNCHANGED columns

-----------------------------------------------------------------------------
(* Handlers *)

\* requireActiveActor; ListAllMessages asks for an administrator as well.
MayGoOn(r) == /\ IsActive(Member(r))
              /\ task[r].op = "all" => Member(r) \in Admins

CheckMember(r) ==
    /\ at[r] = "member"
    /\ \/ ~MayGoOn(r) /\ Finish(r, "answered")
       \/ MayGoOn(r) /\ task[r].op = "profile" /\ Proceed(r, "profile")
       \/ MayGoOn(r) /\ task[r].op = "all" /\ Finish(r, "answered")
       \/ /\ MayGoOn(r) /\ task[r].op = "avatar"
          /\ IF avatar[Member(r)] = Url(r) THEN Finish(r, "answered")
             ELSE /\ task' = [task EXCEPT ![r].stamp = changedAt[Member(r)]]
                  /\ at' = [at EXCEPT ![r] = "clock"]
    /\ UNCHANGED columns

\* A change at this stamp leaves room for another at this time.
IsOver(stamp, time) == stamp # None => stamp + Interval <= time

\* The service reads the clock once; every condition is about this time.
ReadClock(r) ==
    /\ at[r] = "clock"
    /\ IF IsOver(task[r].stamp, now)
       THEN /\ task' = [task EXCEPT ![r].time = now]
            /\ at' = [at EXCEPT ![r] = "cas"]
       ELSE Finish(r, "refused")
    /\ UNCHANGED columns

\* The time condition of both UPDATEs.
Mutant_Unlimited(r) == TRUE
LimitAllows(r) == IsOver(changedAt[Member(r)], Time(r))

StoreAvatar(r) ==
    /\ avatar' = [avatar EXCEPT ![Member(r)] = Url(r)]
    /\ changedAt' = [changedAt EXCEPT ![Member(r)] = Time(r)]
    /\ Finish(r, "answered")
    /\ UNCHANGED <<profile, messages>>

\* The first UPDATE also asks for another URL than the stored one, by the
\* collation of the column; a database of a developer may ignore the case.
WriteAvatar(r) ==
    /\ at[r] = "cas"
    /\ IF Folded[avatar[Member(r)]] # Folded[Url(r)] /\ LimitAllows(r)
       THEN StoreAvatar(r)
       ELSE Proceed(r, "again") /\ UNCHANGED columns

\* No row was affected: is it there already, or was there a change?
ReadAgain(r) ==
    /\ at[r] = "again"
    /\ \/ avatar[Member(r)] = Url(r) /\ Finish(r, "answered")
       \/ avatar[Member(r)] # Url(r) /\ LimitAllows(r) /\ Proceed(r, "recas")
       \/ avatar[Member(r)] # Url(r) /\ ~LimitAllows(r) /\ Finish(r, "refused")
    /\ UNCHANGED columns

\* The second UPDATE.
WriteAvatarAgain(r) ==
    /\ at[r] = "recas"
    /\ IF LimitAllows(r)
       THEN StoreAvatar(r)
       ELSE Proceed(r, "last") /\ UNCHANGED columns

ReadLast(r) ==
    /\ at[r] = "last"
    /\ Finish(r, IF avatar[Member(r)] = Url(r) THEN "answered" ELSE "refused")
    /\ UNCHANGED columns

\* One UPDATE of nickname and introduction.
WriteProfile(r) ==
    /\ at[r] = "profile"
    /\ profile' = [profile EXCEPT ![Member(r)] = r]
    /\ Finish(r, "answered")
    /\ UNCHANGED <<avatar, changedAt, messages>>

CreateMessage(r) ==
    /\ at[r] = "insert"
    /\ messages' = [messages EXCEPT ![r] = Member(r)]
    /\ Finish(r, "answered")
    /\ UNCHANGED <<avatar, changedAt, profile>>

\* The database fails or the client's context ends before the next statement.
Break(r) ==
    /\ at[r] \in Statements
    /\ Finish(r, "answered")
    /\ UNCHANGED columns

Handle(r) ==
    \/ CheckMember(r)
    \/ ReadClock(r)
    \/ WriteAvatar(r)
    \/ ReadAgain(r)
    \/ WriteAvatarAgain(r)
    \/ ReadLast(r)
    \/ WriteProfile(r)
    \/ CreateMessage(r)
-----------------------------------------------------------------------------
\* A step of Accounts begins a handler exactly where Auth lets "me" through.
MembersStep(r) ==
    \/ Admit(r)
    \/ ~Admits(r) /\ Step(r) /\ UNCHANGED members

MembersNext ==
    \/ \E r \in Requests :
           \/ MembersStep(r)
           \/ (BeginLogin(r) \/ BeginAuthenticated(r) \/ Abort(r)) /\ UNCHANGED members
           \/ (Handle(r) \/ Break(r)) /\ UNCHANGED vars
    \/ (TogglePersist \/ Tick) /\ UNCHANGED members

MembersSpec == MembersInit /\ [][MembersNext]_memberVars

\* net/http runs each request in a goroutine of its own, which the scheduler
\* does not starve; every SQL and Redis call returns, with an error if need be.
Goroutine(r) == MembersStep(r) \/ (Handle(r) /\ UNCHANGED vars)

FairMembersSpec == MembersSpec /\ \A r \in Requests : WF_memberVars(Goroutine(r))
-----------------------------------------------------------------------------
(* Properties *)

\* Between two changes of one avatar lies the whole interval, however many
\* requests have found the limit open before either of them writes.
ChangesAreSpaced ==
    \A u \in Users : avatar'[u] # avatar[u] \/ changedAt'[u] # changedAt[u] =>
        /\ changedAt'[u] # None
        /\ changedAt[u] # None => changedAt'[u] >= changedAt[u] + Interval

\* Nobody is told to wait who has no change within the interval behind them,
\* also when the UPDATE found no row for another reason.
RefusalsAreTrue ==
    \A r \in Requests : at[r] \in Statements /\ at'[r] = "refused" =>
        LET u == Member(r)
            time == IF at[r] = "clock" THEN now ELSE Time(r)
        IN  changedAt[u] # None /\ changedAt[u] + Interval > time

\* "At least 24 hours between two real changes ... guaranteed atomically by the
\* conditional update" (user_service.go, UpdateAvatar), and no less is granted.
AvatarLimitIsExact == [][ChangesAreSpaced /\ RefusalsAreTrue]_memberVars

\* Every request is answered, by Auth or by its handler, also while Persist
\* Redis is unreachable and however often the UPDATE of an avatar is repeated.
\* A request is issued once: when all are answered, none is open again.
MembersAreAnswered ==
    <>[](\A r \in Requests : pc[r] \notin Steps /\ at[r] \notin Statements)
=============================================================================
