----------------------------- MODULE WebSession -----------------------------
(***************************************************************************)
(* The session of the web client: the tabs of one browser, which share the *)
(* token in localStorage, against API answers that arrive in any order.    *)
(*                                                                         *)
(* Sources: web/src/context/AuthContext.tsx, the token store of            *)
(* web/src/lib/api.ts, and the pages that call them.                       *)
(*                                                                         *)
(* JavaScript runs one continuation at a time: what happens between two    *)
(* awaits is one step.  A step changes tokenRef and the session at once;   *)
(* what the callbacks of a page have captured is the session last          *)
(* rendered, and effects run with the rendering.  A call is answered       *)
(* "unauthorized" if the server has ended its token, "ok" if the token was *)
(* accepted when the call was sent, and may always fail otherwise          *)
(* (network, timeout, HTTP 5xx).                                           *)
(***************************************************************************)
EXTENDS WebTokens, Naturals, FiniteSets

CONSTANTS
    Tabs,           \* tabs of one browser
    Calls,          \* bound: operations under way at a time
    Users           \* accounts

ASSUME NamesOK ==
    /\ None \notin Tokens \cup Users
    /\ IsFiniteSet(Tabs)

VARIABLES
    storage,        \* localStorage[TOKEN_STORAGE_KEY]
    tokenRef,       \* tokenRef.current of each tab
    session,        \* the session each tab has set
    shown,          \* the session each tab has rendered
    isBootstrapping,
    boot,           \* the getMe the effect of a tab waits for, not cancelled
    call,           \* the other operations under way
    owner,          \* server: whom a token was issued to
    accepted        \* server: the tokens that are valid

tabVars == <<tokenRef, session, shown, isBootstrapping, boot>>
server == <<owner, accepted>>
vars == <<storage, tabVars, call, server>>

Session == [token : MaybeToken, user : Users \cup {None}]
NoSession == [token |-> None, user |-> None]

\* `timely`: the token was valid when the call was sent.
GetMe == [token : Tokens, timely : BOOLEAN]

ASSUME NoneIsNoGetMe == None \notin GetMe

\* login and register wait in "submit" or "login", then in "me"; saving the
\* profile waits in "save", then in "me".
Kinds == {"login", "register", "profile", "password", "page"}
Operation == [kind : Kinds, tab : Tabs, user : Users \cup {None},
              step : {"submit", "login", "save", "me"},
              token : MaybeToken, timely : BOOLEAN]

TypeOK ==
    /\ storage \in MaybeToken
    /\ tokenRef \in [Tabs -> MaybeToken]
    /\ session \in [Tabs -> Session] /\ shown \in [Tabs -> Session]
    /\ isBootstrapping \in [Tabs -> BOOLEAN]
    /\ boot \in [Tabs -> GetMe \cup {None}]
    /\ call \in [Calls -> Operation \cup {None}]
    /\ owner \in [Tokens -> Users \cup {None}]
    /\ accepted \subseteq {t \in Tokens : owner[t] # None}

Init ==
    /\ storage = None
    /\ tokenRef = [t \in Tabs |-> None]
    /\ session = [t \in Tabs |-> NoSession] /\ shown = session
    /\ isBootstrapping = [t \in Tabs |-> FALSE]
    /\ boot = [t \in Tabs |-> None]
    /\ call = [c \in Calls |-> None]
    /\ owner = [t \in Tokens |-> None]
    /\ accepted = {}
-----------------------------------------------------------------------------
(* What a tab does to its session *)

Mutant_AnyToken(t, token) == TRUE
\* isCurrentSession
StillCurrent(t, token) == tokenRef[t] = token

\* tokenStore.clear(token): another tab may have stored another token.
ClearStored(token) == storage' = IF storage = token THEN None ELSE storage

\* setSession, and the ref with it.
SetSession(t, token, user) ==
    /\ tokenRef' = [tokenRef EXCEPT ![t] = token]
    /\ session' = [session EXCEPT ![t] = [token |-> token, user |-> user]]

StopBootstrapping(t) == isBootstrapping' = [isBootstrapping EXCEPT ![t] = FALSE]

KeepSession == UNCHANGED <<storage, tokenRef, session, isBootstrapping>>

\* clearSession(token)
ClearSession(t, token) ==
    IF StillCurrent(t, token)
    THEN /\ ClearStored(token)
         /\ SetSession(t, None, None)
         /\ StopBootstrapping(t)
    ELSE KeepSession

\* clearSession() with no token: whatever session there is.
ClearAnySession(t) ==
    /\ storage' = None
    /\ SetSession(t, None, None)
    /\ StopBootstrapping(t)

Mutant_WithoutUser(s) == s.user = None
\* A session that has a token and no user yet asks for the user.
Asks(s) == s.token # None /\ s.user = None

\* The effect on [token, user]: the previous getMe is cancelled, and does
\* nothing any more; another may be sent.
Effect(t, s) ==
    /\ boot' = [boot EXCEPT ![t] =
                  IF Asks(s) THEN [token |-> s.token, timely |-> s.token \in accepted]
                  ELSE None]
    /\ isBootstrapping' = [isBootstrapping EXCEPT ![t] = Asks(s)]

Render(t) ==
    /\ shown[t] # session[t]
    /\ shown' = [shown EXCEPT ![t] = session[t]]
    /\ Effect(t, session[t])
    /\ UNCHANGED <<storage, tokenRef, session, call, server>>

\* The tab is loaded again: every operation of the old page is gone.
Reload(t) ==
    LET s == [token |-> storage, user |-> None] IN
    /\ tokenRef' = [tokenRef EXCEPT ![t] = storage]
    /\ session' = [session EXCEPT ![t] = s]
    /\ shown' = [shown EXCEPT ![t] = s]
    /\ Effect(t, s)
    /\ call' = [c \in Calls |-> IF call[c] # None /\ call[c].tab = t THEN None
                                ELSE call[c]]
    /\ UNCHANGED <<storage, server>>
-----------------------------------------------------------------------------
(* The answers of the server *)

\* A profile the server sends is never empty, so the client's branches for a
\* success without a user are not taken.
Answers(timely, token) ==
    {"failed"} \cup (IF timely THEN {"ok"} ELSE {})
               \cup (IF token \in accepted THEN {} ELSE {"unauthorized"})

\* Expiry, logout and password changes elsewhere.
Expire(token) ==
    /\ token \in accepted
    /\ accepted' = accepted \ {token}
    /\ UNCHANGED <<storage, tabVars, call, owner>>

Mutant_OnlyIfOk(answer) == answer = "ok"
\* The finally of the effect ends the bootstrapping of any answer.
Settles(answer) == TRUE

AnswerBoot(t) ==
    /\ boot[t] # None
    /\ \E answer \in Answers(boot[t].timely, boot[t].token) :
        LET token == boot[t].token IN
        IF ~StillCurrent(t, token) THEN KeepSession
        ELSE CASE answer = "ok" ->
                    /\ SetSession(t, token, owner[token])
                    /\ StopBootstrapping(t) /\ UNCHANGED storage
               [] answer = "unauthorized" -> ClearSession(t, token)
               [] OTHER ->
                    /\ IF Settles(answer) THEN StopBootstrapping(t)
                       ELSE UNCHANGED isBootstrapping
                    /\ UNCHANGED <<storage, tokenRef, session>>
    /\ boot' = [boot EXCEPT ![t] = None]
    /\ UNCHANGED <<shown, call, server>>
-----------------------------------------------------------------------------
(* Login and registration *)

\* The dialog submits one form at a time.
Submitting(t) ==
    \E c \in Calls : /\ call[c] # None /\ call[c].tab = t
                     /\ call[c].kind \in {"login", "register"}

Start(c, t, kind, user, step, token) ==
    /\ call[c] = None
    /\ call' = [call EXCEPT ![c] =
                 [kind |-> kind, tab |-> t, user |-> user, step |-> step,
                  token |-> token, timely |-> token \in accepted]]
    /\ UNCHANGED <<storage, tabVars, server>>

\* The forms are offered to whoever is not shown as logged in.
Submit(c, t, user) ==
    /\ ~Submitting(t) /\ shown[t].user = None
    /\ \/ Start(c, t, "login", user, "login", None)
       \/ Start(c, t, "register", user, "submit", None)

Done(c) == call' = [call EXCEPT ![c] = None]

\* A failed registration is only reported.
AnswerRegister(c) ==
    /\ call[c] # None /\ call[c].step = "submit"
    /\ \/ Done(c)
       \/ call' = [call EXCEPT ![c].step = "login"]
    /\ UNCHANGED <<storage, tabVars, server>>

\* A login that fails leaves everything as it is; after a registration the
\* session is cleared, so that the new account starts from the login form.
LoginFailed(c) ==
    /\ IF call[c].kind = "register" THEN ClearAnySession(call[c].tab) ELSE KeepSession
    /\ Done(c)

AnswerLogin(c) ==
    /\ call[c] # None /\ call[c].step = "login"
    /\ \/ \E token \in Tokens :
            /\ owner[token] = None
            /\ owner' = [owner EXCEPT ![token] = call[c].user]
            /\ accepted' = accepted \cup {token}
            /\ call' = [call EXCEPT ![c].step = "me", ![c].token = token,
                                    ![c].timely = TRUE]
            /\ KeepSession
       \/ LoginFailed(c) /\ UNCHANGED server
    /\ UNCHANGED <<shown, boot>>

\* Token and profile are committed together.
AnswerLoginMe(c) ==
    LET t == call[c].tab  token == call[c].token IN
    /\ call[c] # None /\ call[c].step = "me"
    /\ call[c].kind \in {"login", "register"}
    /\ \E answer \in Answers(call[c].timely, token) :
          IF answer # "ok" THEN LoginFailed(c)
          ELSE /\ storage' = token
               /\ SetSession(t, token, owner[token])
               /\ StopBootstrapping(t)
               /\ Done(c)
    /\ UNCHANGED <<shown, boot, server>>
-----------------------------------------------------------------------------
(* Operations of a logged-in tab *)

\* Save the profile or the avatar, change the password, or any other request.
Operate(c, t) ==
    /\ shown[t].user # None
    /\ \/ Start(c, t, "profile", None, "save", shown[t].token)
       \/ Start(c, t, "password", None, "save", shown[t].token)
       \/ Start(c, t, "page", None, "save", shown[t].token)

\* handleSessionError: only a 401 ends the session, and only its own.
HandleSessionError(t, token, answer) ==
    IF answer = "unauthorized" THEN ClearSession(t, token) ELSE KeepSession

TokensOf(user) == {token \in Tokens : owner[token] = user}

AnswerOperation(c) ==
    LET t == call[c].tab  token == call[c].token IN
    /\ call[c] # None /\ call[c].step = "save"
    /\ \E answer \in Answers(call[c].timely, token) :
          CASE answer = "ok" /\ call[c].kind = "password" ->
                 /\ accepted' = accepted \ TokensOf(owner[token])
                 /\ ClearSession(t, token)
                 /\ Done(c)
            [] answer = "ok" /\ call[c].kind = "profile" /\ StillCurrent(t, token) ->
                 /\ call' = [call EXCEPT ![c].step = "me",
                                         ![c].timely = token \in accepted]
                 /\ KeepSession /\ UNCHANGED accepted
            [] OTHER ->
                 /\ HandleSessionError(t, token, answer)
                 /\ Done(c) /\ UNCHANGED accepted
    /\ UNCHANGED <<shown, boot, owner>>

\* refreshUser: the new profile is for the session that asked for it only.
AnswerRefresh(c) ==
    LET t == call[c].tab  token == call[c].token IN
    /\ call[c] # None /\ call[c].step = "me" /\ call[c].kind = "profile"
    /\ \E answer \in Answers(call[c].timely, token) :
          IF answer = "ok" /\ StillCurrent(t, token)
          THEN /\ session' = [session EXCEPT ![t] =
                     IF @.token # token THEN @
                     ELSE [token |-> token, user |-> owner[token]]]
               /\ UNCHANGED <<storage, tokenRef, isBootstrapping>>
          ELSE HandleSessionError(t, token, answer)
    /\ Done(c)
    /\ UNCHANGED <<shown, boot, server>>

\* The local session ends first; the request that revokes the token at the
\* server may fail, and what it does there is Expire.
Logout(t) ==
    /\ shown[t].user # None
    /\ ClearSession(t, shown[t].token)
    /\ UNCHANGED <<shown, boot, call, server>>
-----------------------------------------------------------------------------
Next ==
    \/ \E t \in Tabs : Render(t) \/ Reload(t) \/ AnswerBoot(t) \/ Logout(t)
    \/ \E c \in Calls, t \in Tabs : Operate(c, t) \/ \E u \in Users : Submit(c, t, u)
    \/ \E c \in Calls : \/ AnswerRegister(c) \/ AnswerLogin(c) \/ AnswerLoginMe(c)
                        \/ AnswerOperation(c) \/ AnswerRefresh(c)
    \/ \E token \in Tokens : Expire(token)

Spec == Init /\ [][Next]_vars
-----------------------------------------------------------------------------
(* Properties *)

\* The account a tab shows is the one its token was issued to, and the guard
\* of late answers, tokenRef, is the token of the session.
UserMatchesToken ==
    \A t \in Tabs : \A s \in {session[t], shown[t]} :
        s.user # None => s.token # None /\ owner[s.token] = s.user
RefMatchesSession == \A t \in Tabs : tokenRef[t] = session[t].token

\* A tab that shows the waiting state waits for an answer or for rendering.
BootstrapIsUnderWay ==
    \A t \in Tabs : isBootstrapping[t] => boot[t] # None \/ shown[t] # session[t]

\* Whatever order the answers arrive in, a tab never mixes two sessions and
\* never waits for an answer that will not come; its state keeps its types.
SessionIsCoherent ==
    TypeOK /\ UserMatchesToken /\ RefMatchesSession /\ BootstrapIsUnderWay

AutoLoginFails(t) ==
    \E c \in Calls : /\ call[c] # None /\ call[c].tab = t
                     /\ call[c].kind = "register"
                     /\ LoginFailed(c)
LoggedIn(t) == \E c \in Calls : call[c] # None /\ call[c].tab = t /\ AnswerLoginMe(c)

\* A session starts only where its user logs in or a tab is loaded, and ends
\* only there: by logout, because the server has ended that very token, or by
\* a registration in the same tab whose login failed.  The stored token goes
\* only with a session that holds it.
SessionsHaveReasons ==
    [][/\ \A t \in Tabs :
             /\ tokenRef'[t] \notin {None, tokenRef[t]} => LoggedIn(t) \/ Reload(t)
             /\ tokenRef[t] # None /\ tokenRef'[t] = None =>
                  \/ Logout(t) \/ Reload(t) \/ AutoLoginFails(t)
                  \/ tokenRef[t] \notin accepted'
       /\ storage # None /\ storage' # storage =>
             \E t \in Tabs : \/ LoggedIn(t) \/ AutoLoginFails(t)
                             \/ tokenRef[t] = storage /\ tokenRef'[t] = None]_vars
=============================================================================
