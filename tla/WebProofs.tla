----------------------------- MODULE WebProofs -----------------------------
(***************************************************************************)
(* Theorems about WebSession and WebPages: the web client, for any number  *)
(* of tabs, operations, accounts, tokens, posts, requests and pages.       *)
(*                                                                         *)
(* What a tab shows stays coherent because every guard of a late answer    *)
(* compares the token it was asked for, and because the getMe a tab waits  *)
(* for is always the one for the session it has rendered.  What a page     *)
(* shows is about its subject because there is one load at most whose      *)
(* answer it still takes, and that load fits what the page shows.          *)
(***************************************************************************)
EXTENDS WebSession, WebPages, FiniteSetTheorems, TLAPS

-----------------------------------------------------------------------------
(* The session *)

\* The getMe of a tab is for the session it has rendered.
BootsForShown == \A t \in Tabs : boot[t] # None => boot[t].token = shown[t].token

\* A tab that waits without a getMe is about to render another token.
WaitsForToken ==
    \A t \in Tabs :
        isBootstrapping[t] => boot[t] # None \/ shown[t].token # session[t].token

\* What is saved, and what is asked after a login, has a token.
CallsHaveTokens ==
    \A c \in Calls : call[c] # None /\ call[c].step \in {"save", "me"} =>
        call[c].token \in Tokens

\* Who logs in or registers is known until the server issues a token to him.
LoginsHaveUsers ==
    \A c \in Calls : call[c] # None /\ call[c].step \in {"submit", "login"} =>
        call[c].user \in Users

TabTypes ==
    /\ tokenRef \in [Tabs -> MaybeToken]
    /\ session \in [Tabs -> Session] /\ shown \in [Tabs -> Session]
    /\ isBootstrapping \in [Tabs -> BOOLEAN]
    /\ boot \in [Tabs -> GetMe \cup {None}]
    /\ owner \in [Tokens -> Users \cup {None}]

TabsInv ==
    /\ TabTypes /\ UserMatchesToken /\ RefMatchesSession
    /\ BootsForShown /\ WaitsForToken

CallsInv ==
    call \in [Calls -> Operation \cup {None}] /\ CallsHaveTokens /\ LoginsHaveUsers

ServerInv == accepted \subseteq {t \in Tokens : owner[t] # None}

IInv == storage \in MaybeToken /\ TabsInv /\ CallsInv /\ ServerInv
-----------------------------------------------------------------------------
(* What a tab does to its session *)

\* Which getMe a step may drop: one whose answer came for another session, or
\* one whose session the step replaces.
LEMMA SetSessionInv ==
    ASSUME TabsInv, NEW t \in Tabs, NEW token \in MaybeToken,
           NEW user \in Users \cup {None},
           user # None => token # None /\ owner[token] = user,
           SetSession(t, token, user), StopBootstrapping(t),
           boot' = boot \/ boot' = [boot EXCEPT ![t] = None], UNCHANGED <<shown, owner>>
    PROVE  TabsInv'
<1>1. [token |-> token, user |-> user] \in Session BY DEF Session
<1> DEFINE s == [token |-> token, user |-> user]
<1>2. s.token = token /\ s.user = user OBVIOUS
<1>3. TabTypes' BY <1>1 DEF TabsInv, TabTypes, SetSession, StopBootstrapping
<1>4. /\ tokenRef' = [tokenRef EXCEPT ![t] = token]
      /\ session' = [session EXCEPT ![t] = s]
      /\ isBootstrapping' = [isBootstrapping EXCEPT ![t] = FALSE]
  BY DEF SetSession, StopBootstrapping
<1> HIDE DEF s
<1>10. \A u \in Tabs : /\ tokenRef'[u] = IF u = t THEN token ELSE tokenRef[u]
                       /\ session'[u] = IF u = t THEN s ELSE session[u]
                       /\ isBootstrapping'[u] => u # t /\ isBootstrapping[u]
                       /\ boot'[u] = boot[u] \/ (u = t /\ boot'[u] = None)
  BY <1>4 DEF TabsInv, TabTypes
<1>5. UserMatchesToken'
  <2> SUFFICES ASSUME NEW u \in Tabs, NEW v \in {session'[u], shown'[u]}, v.user # None
               PROVE  v.token # None /\ owner'[v.token] = v.user
    BY DEF UserMatchesToken
  <2>1. CASE v = s BY <1>2, <2>1
  <2>2. CASE v \in {session[u], shown[u]} BY <2>2 DEF TabsInv, UserMatchesToken
  <2> QED BY <1>10, <2>1, <2>2
<1>6. RefMatchesSession' BY <1>2, <1>10 DEF TabsInv, RefMatchesSession
<1>7. BootsForShown' BY <1>10 DEF TabsInv, BootsForShown
<1>8. WaitsForToken' BY <1>10 DEF TabsInv, WaitsForToken
<1> QED BY <1>3, <1>5, <1>6, <1>7, <1>8 DEF TabsInv

LEMMA KeepSessionInv ==
    ASSUME TabsInv, KeepSession, UNCHANGED <<shown, owner>>, NEW t \in Tabs,
           \/ boot' = boot
           \/ boot' = [boot EXCEPT ![t] = None] /\ ~StillCurrent(t, boot[t].token)
              /\ boot[t] # None
    PROVE  TabsInv'
<1>1. TabTypes' BY DEF TabsInv, TabTypes, KeepSession
<1>2. UserMatchesToken' /\ RefMatchesSession'
  BY DEF TabsInv, UserMatchesToken, RefMatchesSession, KeepSession
<1>3. \A u \in Tabs : \/ boot'[u] = boot[u]
                      \/ boot'[u] = None /\ session[u].token # shown[u].token
  BY DEF TabsInv, TabTypes, BootsForShown, RefMatchesSession, StillCurrent
<1>4. BootsForShown' /\ WaitsForToken'
  BY <1>3 DEF TabsInv, BootsForShown, WaitsForToken, KeepSession
<1> QED BY <1>1, <1>2, <1>4 DEF TabsInv

\* clearSession(token) leaves the session coherent, and the stored token with it.
LEMMA ClearSessionInv ==
    ASSUME TabsInv, storage \in MaybeToken, NEW t \in Tabs, NEW token,
           ClearSession(t, token), UNCHANGED <<shown, owner>>,
           \/ boot' = boot
           \/ /\ boot' = [boot EXCEPT ![t] = None] /\ boot[t] # None
              /\ token = boot[t].token
    PROVE  TabsInv' /\ storage' \in MaybeToken
<1>1. CASE StillCurrent(t, token)
  <2>1. None \in MaybeToken /\ None \in Users \cup {None} BY DEF MaybeToken
  <2>2. storage' \in MaybeToken BY <1>1, <2>1 DEF ClearSession, ClearStored
  <2> QED BY <1>1, <2>1, <2>2, SetSessionInv DEF ClearSession
<1>2. CASE ~StillCurrent(t, token)
  BY <1>2, KeepSessionInv DEF ClearSession, KeepSession
<1> QED BY <1>1, <1>2

LEMMA ClearAnySessionInv ==
    ASSUME TabsInv, NEW t \in Tabs, ClearAnySession(t), UNCHANGED <<shown, boot, owner>>
    PROVE  TabsInv' /\ storage' \in MaybeToken
<1>1. None \in MaybeToken /\ None \in Users \cup {None} BY DEF MaybeToken
<1> QED BY <1>1, SetSessionInv DEF ClearAnySession

\* A render, or the first one of a page, sends the getMe of the session it shows.
LEMMA EffectInv ==
    ASSUME TabsInv, NEW t \in Tabs, NEW s \in Session, s.user # None => s = session[t],
           tokenRef' = [tokenRef EXCEPT ![t] = s.token],
           session' = [session EXCEPT ![t] = s], shown' = [shown EXCEPT ![t] = s],
           Effect(t, s), UNCHANGED owner
    PROVE  TabsInv'
<1> DEFINE g == IF Asks(s) THEN [token |-> s.token, timely |-> s.token \in accepted]
                ELSE None
<1>1. s.token \in MaybeToken BY DEF Session
<1>2. /\ g \in GetMe \cup {None}
      /\ Asks(s) => g # None /\ g.token = s.token
      /\ ~Asks(s) => g = None
  <2>1. CASE ~Asks(s) BY <2>1
  <2>2. CASE Asks(s)
    <3>1. s.token \in Tokens BY <1>1, <2>2 DEF Asks, MaybeToken
    <3>2. [token |-> s.token, timely |-> s.token \in accepted] \in GetMe
      BY <3>1 DEF GetMe
    <3> QED BY <2>2, <3>2, NoneIsNoGetMe
  <2> QED BY <2>1, <2>2
<1>3. boot' = [boot EXCEPT ![t] = g] BY DEF Effect
<1> HIDE DEF g
<1>4. Asks(s) \in BOOLEAN BY DEF Asks
<1>5. TabTypes' BY <1>1, <1>2, <1>3, <1>4 DEF TabsInv, TabTypes, Effect
<1>6. \A u \in Tabs : /\ tokenRef'[u] = IF u = t THEN s.token ELSE tokenRef[u]
                      /\ session'[u] = IF u = t THEN s ELSE session[u]
                      /\ shown'[u] = IF u = t THEN s ELSE shown[u]
                      /\ isBootstrapping'[u] = IF u = t THEN Asks(s) ELSE isBootstrapping[u]
                      /\ boot'[u] = IF u = t THEN g ELSE boot[u]
  BY <1>3 DEF TabsInv, TabTypes, Effect
<1>7. UserMatchesToken' BY <1>6 DEF TabsInv, UserMatchesToken
<1>8. RefMatchesSession' BY <1>6 DEF TabsInv, RefMatchesSession
<1>9. BootsForShown' BY <1>2, <1>6 DEF TabsInv, BootsForShown
<1>10. WaitsForToken' BY <1>2, <1>6 DEF TabsInv, WaitsForToken
<1> QED BY <1>5, <1>7, <1>8, <1>9, <1>10 DEF TabsInv
-----------------------------------------------------------------------------
(* The operations of the tabs *)

LEMMA InitInv == Init => IInv
<1> SUFFICES ASSUME Init PROVE IInv OBVIOUS
<1> USE DEF Init
<1>1. NoSession \in Session /\ NoSession.token = None /\ NoSession.user = None
  BY DEF NoSession, Session, MaybeToken
<1> HIDE DEF NoSession
<1>2. TabTypes BY <1>1 DEF TabTypes, MaybeToken
<1>3. UserMatchesToken /\ RefMatchesSession BY <1>1 DEF UserMatchesToken, RefMatchesSession
<1>4. BootsForShown /\ WaitsForToken BY DEF BootsForShown, WaitsForToken
<1>5. CallsInv BY DEF CallsInv, CallsHaveTokens, LoginsHaveUsers
<1>6. storage \in MaybeToken /\ ServerInv BY DEF MaybeToken, ServerInv
<1> QED BY <1>2, <1>3, <1>4, <1>5, <1>6 DEF IInv, TabsInv

LEMMA RenderInv ==
    ASSUME IInv, NEW t \in Tabs, Render(t)
    PROVE  IInv'
<1>1. TabsInv'
  <2>1. session[t] \in Session BY DEF IInv, TabsInv, TabTypes
  <2>2. tokenRef' = [tokenRef EXCEPT ![t] = session[t].token]
    BY DEF IInv, TabsInv, TabTypes, RefMatchesSession, Render
  <2>3. session' = [session EXCEPT ![t] = session[t]]
    BY DEF IInv, TabsInv, TabTypes, Render
  <2> QED BY <2>1, <2>2, <2>3, EffectInv DEF IInv, Render, server
<1> QED BY <1>1 DEF IInv, CallsInv, CallsHaveTokens, LoginsHaveUsers, ServerInv, Render, server

LEMMA ReloadInv ==
    ASSUME IInv, NEW t \in Tabs, Reload(t)
    PROVE  IInv'
<1> DEFINE s == [token |-> storage, user |-> None]
<1>1. s \in Session /\ s.token = storage /\ s.user = None
  BY DEF IInv, Session
<1>2. /\ tokenRef' = [tokenRef EXCEPT ![t] = s.token]
      /\ session' = [session EXCEPT ![t] = s] /\ shown' = [shown EXCEPT ![t] = s]
      /\ Effect(t, s) /\ UNCHANGED <<storage, owner, accepted>>
  BY DEF Reload, server
<1> HIDE DEF s
<1>3. TabsInv' BY <1>1, <1>2, EffectInv DEF IInv
<1>4. CallsInv'
  <2>1. \A c \in Calls : call'[c] \in {call[c], None} BY DEF Reload
  <2>2. call' \in [Calls -> Operation \cup {None}] BY DEF Reload, IInv, CallsInv
  <2> QED BY <2>1, <2>2 DEF IInv, CallsInv, CallsHaveTokens, LoginsHaveUsers
<1> QED BY <1>2, <1>3, <1>4 DEF IInv, ServerInv

LEMMA AnswerBootInv ==
    ASSUME IInv, NEW t \in Tabs, AnswerBoot(t)
    PROVE  IInv'
<1> DEFINE token == boot[t].token
<1>1. /\ boot[t] # None /\ token \in Tokens
      /\ boot' = [boot EXCEPT ![t] = None] /\ UNCHANGED <<shown, call, owner, accepted>>
  BY DEF AnswerBoot, IInv, TabsInv, TabTypes, GetMe, server
<1>2. PICK answer \in Answers(boot[t].timely, token) :
         IF ~StillCurrent(t, token) THEN KeepSession
         ELSE CASE answer = "ok" ->
                     /\ SetSession(t, token, owner[token])
                     /\ StopBootstrapping(t) /\ UNCHANGED storage
                [] answer = "unauthorized" -> ClearSession(t, token)
                [] OTHER ->
                     /\ IF Settles(answer) THEN StopBootstrapping(t)
                        ELSE UNCHANGED isBootstrapping
                     /\ UNCHANGED <<storage, tokenRef, session>>
  BY DEF AnswerBoot
<1>3. TabsInv' /\ storage' \in MaybeToken
  <2>1. CASE ~StillCurrent(t, token)
    BY <1>1, <1>2, <2>1, KeepSessionInv DEF IInv, KeepSession
  <2>2. CASE StillCurrent(t, token) /\ answer = "ok"
    <3>1. token \in MaybeToken /\ token # None BY <1>1, NamesOK DEF MaybeToken
    <3>2. owner[token] \in Users \cup {None}
      BY <1>1 DEF IInv, TabsInv, TabTypes
    <3> HIDE DEF token
    <3> QED BY <1>1, <1>2, <2>2, <3>1, <3>2, SetSessionInv DEF IInv
  <2>3. CASE StillCurrent(t, token) /\ answer = "unauthorized"
    BY <1>1, <1>2, <2>3, ClearSessionInv DEF IInv
  <2>4. CASE StillCurrent(t, token) /\ answer \notin {"ok", "unauthorized"}
    <3>1. StopBootstrapping(t) /\ UNCHANGED <<storage, tokenRef, session>>
      BY <1>2, <2>4 DEF Settles
    <3> DEFINE s == session[t]
    <3>2. SetSession(t, s.token, s.user)
      BY <3>1 DEF SetSession, IInv, TabsInv, TabTypes, RefMatchesSession, Session
    <3>3. s.token \in MaybeToken /\ s.user \in Users \cup {None}
      BY DEF IInv, TabsInv, TabTypes, Session
    <3>4. s.user # None => s.token # None /\ owner[s.token] = s.user
      BY DEF IInv, TabsInv, UserMatchesToken
    <3> HIDE DEF s
    <3> QED BY <1>1, <3>1, <3>2, <3>3, <3>4, SetSessionInv DEF IInv
  <2> QED BY <2>1, <2>2, <2>3, <2>4
<1> QED BY <1>1, <1>3 DEF IInv, CallsInv, CallsHaveTokens, LoginsHaveUsers, ServerInv

LEMMA LogoutInv ==
    ASSUME IInv, NEW t \in Tabs, Logout(t)
    PROVE  IInv'
<1>1. TabsInv' /\ storage' \in MaybeToken
  BY ClearSessionInv DEF IInv, Logout, server
<1> QED BY <1>1 DEF IInv, CallsInv, CallsHaveTokens, LoginsHaveUsers, ServerInv, Logout, server
-----------------------------------------------------------------------------
(* The operations that are under way *)

\* What a step does to one operation: it ends, or it goes on as q.
LEMMA CallStep ==
    ASSUME CallsInv, NEW c \in Calls, NEW q \in Operation \cup {None},
           call' = [call EXCEPT ![c] = q],
           q # None /\ q.step \in {"save", "me"} => q.token \in Tokens,
           q # None /\ q.step \in {"submit", "login"} => q.user \in Users
    PROVE  CallsInv'
BY DEF CallsInv, CallsHaveTokens, LoginsHaveUsers

LEMMA DoneInv ==
    ASSUME CallsInv, NEW c \in Calls, Done(c)
    PROVE  CallsInv'
<1>1. call' = [call EXCEPT ![c] = None] BY DEF Done
<1> QED BY <1>1, CallStep

\* An operation that is under way, and the one it becomes with the profile of
\* its token.
LEMMA AsksForProfile ==
    ASSUME CallsInv, NEW c \in Calls, call[c] # None,
           NEW token \in Tokens, NEW timely \in BOOLEAN,
           call' = [call EXCEPT ![c] = [call[c] EXCEPT !.step = "me", !.token = token,
                                                       !.timely = timely]]
    PROVE  CallsInv'
<1> DEFINE p == call[c]
           q == [p EXCEPT !.step = "me", !.token = token, !.timely = timely]
<1>1. p \in Operation BY DEF CallsInv
<1>2. q \in Operation /\ q.token = token /\ q.step = "me" BY <1>1 DEF Operation, MaybeToken
<1>3. call' = [call EXCEPT ![c] = q] OBVIOUS
<1> HIDE DEF q
<1> QED BY <1>2, <1>3, CallStep

LEMMA StartInv ==
    ASSUME IInv, NEW c \in Calls, NEW t \in Tabs, NEW kind \in Kinds,
           NEW user \in Users \cup {None}, NEW step \in {"submit", "login", "save"},
           NEW token \in MaybeToken, step = "save" => token \in Tokens,
           step # "save" => user \in Users,
           Start(c, t, kind, user, step, token)
    PROVE  IInv'
<1> DEFINE q == [kind |-> kind, tab |-> t, user |-> user, step |-> step,
                 token |-> token, timely |-> token \in accepted]
<1>1. q \in Operation /\ q.step = step /\ q.token = token /\ q.user = user
  BY DEF Operation
<1>2. call' = [call EXCEPT ![c] = q] /\ UNCHANGED <<storage, tabVars, server>>
  BY DEF Start
<1> HIDE DEF q
<1>3. CallsInv' BY <1>1, <1>2, CallStep DEF IInv
<1>4. TabsInv'
  BY <1>2 DEF IInv, TabsInv, TabTypes, UserMatchesToken, RefMatchesSession, BootsForShown,
              WaitsForToken, tabVars, server
<1> QED BY <1>2, <1>3, <1>4 DEF IInv, ServerInv, server

LEMMA SubmitInv ==
    ASSUME IInv, NEW c \in Calls, NEW t \in Tabs, NEW user \in Users, Submit(c, t, user)
    PROVE  IInv'
<1>1. None \in MaybeToken BY DEF MaybeToken
<1> QED BY <1>1, StartInv DEF Submit, Kinds

LEMMA OperateInv ==
    ASSUME IInv, NEW c \in Calls, NEW t \in Tabs, Operate(c, t)
    PROVE  IInv'
<1>1. shown[t].token \in Tokens
  BY DEF Operate, IInv, TabsInv, TabTypes, UserMatchesToken, Session, MaybeToken
<1>2. shown[t].token \in MaybeToken BY <1>1 DEF MaybeToken
<1> QED BY <1>1, <1>2, StartInv DEF Operate, Kinds

LEMMA ExpireInv ==
    ASSUME IInv, NEW token \in Tokens, Expire(token)
    PROVE  IInv'
<1>1. TabsInv'
  BY DEF IInv, TabsInv, TabTypes, UserMatchesToken, RefMatchesSession, BootsForShown,
         WaitsForToken, tabVars, Expire
<1> QED BY <1>1 DEF IInv, CallsInv, CallsHaveTokens, LoginsHaveUsers, ServerInv, Expire

LEMMA TabOfCall ==
    ASSUME IInv, NEW c \in Calls, call[c] # None
    PROVE  /\ call[c] \in Operation /\ call[c].tab \in Tabs
           /\ call[c].token \in MaybeToken /\ call[c].user \in Users \cup {None}
           /\ call[c].timely \in BOOLEAN
           /\ call[c].step \in {"save", "me"} => call[c].token \in Tokens
           /\ call[c].step \in {"submit", "login"} => call[c].user \in Users
BY DEF IInv, CallsInv, CallsHaveTokens, LoginsHaveUsers, Operation

LEMMA AnswerRegisterInv ==
    ASSUME IInv, NEW c \in Calls, AnswerRegister(c)
    PROVE  IInv'
<1>1. TabsInv' /\ ServerInv' /\ storage' \in MaybeToken
  BY DEF IInv, TabsInv, TabTypes, UserMatchesToken, RefMatchesSession, BootsForShown,
         WaitsForToken, ServerInv, tabVars, server, AnswerRegister
<1>2. CallsInv'
  <2>1. CASE Done(c) BY <2>1, DoneInv DEF IInv
  <2>2. CASE call' = [call EXCEPT ![c].step = "login"]
    <3> DEFINE q == [call[c] EXCEPT !.step = "login"]
    <3>1. q \in Operation /\ q.step = "login" /\ q.user \in Users
      BY TabOfCall DEF AnswerRegister, Operation
    <3>2. call' = [call EXCEPT ![c] = q] BY <2>2
    <3> HIDE DEF q
    <3> QED BY <3>1, <3>2, CallStep DEF IInv
  <2> QED BY <2>1, <2>2 DEF AnswerRegister
<1> QED BY <1>1, <1>2 DEF IInv

LEMMA LoginFailedInv ==
    ASSUME IInv, NEW c \in Calls, call[c] # None, LoginFailed(c),
           UNCHANGED <<shown, boot, server>>
    PROVE  IInv'
<1>1. CallsInv' BY DoneInv DEF IInv, LoginFailed
<1>2. call[c].tab \in Tabs BY TabOfCall
<1>3. TabsInv' /\ storage' \in MaybeToken
  BY <1>2, ClearAnySessionInv, KeepSessionInv DEF IInv, LoginFailed, KeepSession, server
<1> QED BY <1>1, <1>3 DEF IInv, ServerInv, server

LEMMA AnswerLoginInv ==
    ASSUME IInv, NEW c \in Calls, AnswerLogin(c)
    PROVE  IInv'
<1>1. CASE LoginFailed(c) /\ UNCHANGED server
  BY <1>1, LoginFailedInv DEF AnswerLogin
<1>2. ASSUME NEW token \in Tokens, owner[token] = None,
             owner' = [owner EXCEPT ![token] = call[c].user],
             accepted' = accepted \cup {token},
             call' = [call EXCEPT ![c].step = "me", ![c].token = token,
                                  ![c].timely = TRUE],
             KeepSession, call[c] # None, call[c].step = "login",
             UNCHANGED <<shown, boot>>
      PROVE  IInv'
  <2>1. call' = [call EXCEPT ![c] = [call[c] EXCEPT !.step = "me", !.token = token,
                                                    !.timely = TRUE]]
    BY <1>2 DEF IInv, CallsInv
  <2>2. CallsInv' BY <1>2, <2>1, AsksForProfile DEF IInv
  <2>3. TabTypes' BY <1>2, TabOfCall DEF IInv, TabsInv, TabTypes, KeepSession
  <2>4. \A u \in Tokens : u # token => owner'[u] = owner[u]
    BY <1>2 DEF IInv, TabsInv, TabTypes
  <2>5. UserMatchesToken'
    <3> SUFFICES ASSUME NEW t \in Tabs, NEW s \in {session[t], shown[t]}, s.user # None
                 PROVE  s.token # None /\ owner'[s.token] = s.user
      BY <1>2 DEF UserMatchesToken, KeepSession
    <3>1. s.token # None /\ owner[s.token] = s.user
      BY DEF IInv, TabsInv, UserMatchesToken
    <3>2. s.token \in Tokens
      BY <3>1 DEF IInv, TabsInv, TabTypes, Session, MaybeToken
    <3> QED BY <1>2, <2>4, <3>1, <3>2
  <2>6. RefMatchesSession' /\ BootsForShown' /\ WaitsForToken'
    BY <1>2 DEF IInv, TabsInv, RefMatchesSession, BootsForShown, WaitsForToken, KeepSession
  <2>7. call[c].user # None BY <1>2, TabOfCall, NamesOK
  <2>8. ServerInv' BY <1>2, <2>4, <2>7 DEF IInv, ServerInv, TabsInv, TabTypes
  <2> QED BY <1>2, <2>2, <2>3, <2>5, <2>6, <2>8 DEF IInv, TabsInv, KeepSession
<1> QED BY <1>1, <1>2 DEF AnswerLogin

LEMMA AnswerLoginMeInv ==
    ASSUME IInv, NEW c \in Calls, AnswerLoginMe(c)
    PROVE  IInv'
<1> DEFINE t == call[c].tab
           token == call[c].token
<1>1. /\ call[c] # None /\ t \in Tabs /\ token \in Tokens
      /\ UNCHANGED <<shown, boot, server>>
  BY TabOfCall DEF AnswerLoginMe
<1>2. CASE LoginFailed(c) BY <1>1, <1>2, LoginFailedInv
<1>3. CASE /\ storage' = token /\ SetSession(t, token, owner[token])
           /\ StopBootstrapping(t) /\ Done(c)
  <2>1. token \in MaybeToken /\ token # None /\ owner[token] \in Users \cup {None}
    BY <1>1, NamesOK DEF MaybeToken, IInv, TabsInv, TabTypes
  <2>2. UNCHANGED <<shown, owner, accepted, boot>> BY <1>1 DEF server
  <2> HIDE DEF t, token
  <2>3. TabsInv' BY <1>1, <1>3, <2>1, <2>2, SetSessionInv DEF IInv
  <2>4. CallsInv' BY <1>3, DoneInv DEF IInv
  <2> QED BY <1>3, <2>1, <2>2, <2>3, <2>4 DEF IInv, ServerInv
<1> QED BY <1>2, <1>3 DEF AnswerLoginMe

LEMMA AnswerOperationInv ==
    ASSUME IInv, NEW c \in Calls, AnswerOperation(c)
    PROVE  IInv'
<1> DEFINE t == call[c].tab
           token == call[c].token
<1>1. /\ call[c] # None /\ call[c].step = "save"
      /\ t \in Tabs /\ token \in Tokens /\ UNCHANGED <<shown, boot, owner>>
  BY TabOfCall DEF AnswerOperation
<1>2. ASSUME ClearSession(t, token) \/ KeepSession
      PROVE  TabsInv' /\ storage' \in MaybeToken
  BY <1>1, <1>2, ClearSessionInv, KeepSessionInv DEF IInv, KeepSession
<1>3. ASSUME Done(c), ClearSession(t, token) \/ KeepSession,
             accepted' \subseteq accepted
      PROVE  IInv'
  <2>1. CallsInv' BY <1>3, DoneInv DEF IInv
  <2> QED BY <1>1, <1>2, <1>3, <2>1 DEF IInv, ServerInv
<1>4. CASE /\ call' = [call EXCEPT ![c].step = "me", ![c].timely = token \in accepted]
           /\ KeepSession /\ UNCHANGED accepted
  <2> DEFINE p == call[c]
             timely == token \in accepted
             q == [p EXCEPT !.step = "me", !.timely = timely]
  <2>1. p \in Operation /\ timely \in BOOLEAN BY <1>1, TabOfCall
  <2>2. q \in Operation /\ q.token = token /\ q.step = "me"
    BY <2>1 DEF Operation
  <2>3. call' = [call EXCEPT ![c] = q] BY <1>4 DEF IInv, CallsInv
  <2> HIDE DEF q
  <2>4. CallsInv' BY <1>1, <2>2, <2>3, CallStep DEF IInv
  <2> QED BY <1>1, <1>2, <1>4, <2>4 DEF IInv, ServerInv
<1> QED BY <1>3, <1>4 DEF AnswerOperation, HandleSessionError

LEMMA AnswerRefreshInv ==
    ASSUME IInv, NEW c \in Calls, AnswerRefresh(c)
    PROVE  IInv'
<1> DEFINE t == call[c].tab
           token == call[c].token
<1>1. /\ t \in Tabs /\ token \in Tokens /\ Done(c) /\ UNCHANGED <<shown, boot, server>>
  BY TabOfCall DEF AnswerRefresh
<1>2. TabsInv' /\ storage' \in MaybeToken
  <2>1. CASE ClearSession(t, token) \/ KeepSession
    BY <1>1, <2>1, ClearSessionInv, KeepSessionInv DEF IInv, KeepSession, server
  <2>2. CASE /\ session' = [session EXCEPT ![t] =
                   IF @.token # token THEN @ ELSE [token |-> token, user |-> owner[token]]]
             /\ UNCHANGED <<storage, tokenRef, isBootstrapping>>
    <3> DEFINE s == [token |-> token, user |-> owner[token]]
    <3>1. /\ s \in Session /\ s.token = token /\ s.user = owner[token] /\ token # None
      BY <1>1, NamesOK DEF IInv, TabsInv, TabTypes, Session, MaybeToken
    <3>2. session' = [session EXCEPT ![t] = IF session[t].token # token THEN session[t] ELSE s]
      BY <2>2 DEF IInv, TabsInv, TabTypes
    <3> HIDE DEF s, token, t
    <3>3. TabTypes' BY <1>1, <2>2, <3>1, <3>2 DEF IInv, TabsInv, TabTypes, server
    <3>4. \A u \in Tabs : \/ session'[u] = session[u]
                          \/ session'[u] = s /\ session[u].token = token
      BY <1>1, <3>2 DEF IInv, TabsInv, TabTypes
    <3>5. UserMatchesToken'
      <4> SUFFICES ASSUME NEW u \in Tabs, NEW v \in {session'[u], shown'[u]}, v.user # None
                   PROVE  v.token # None /\ owner'[v.token] = v.user
        BY DEF UserMatchesToken
      <4>1. owner' = owner /\ shown' = shown BY <1>1 DEF server
      <4>2. CASE v = s BY <3>1, <4>1, <4>2
      <4>3. CASE v \in {session[u], shown[u]}
        BY <4>1, <4>3 DEF IInv, TabsInv, UserMatchesToken
      <4> QED BY <3>4, <4>1, <4>2, <4>3
    <3>6. \A u \in Tabs : session'[u].token = session[u].token BY <3>1, <3>4
    <3>7. RefMatchesSession' /\ BootsForShown' /\ WaitsForToken'
      BY <1>1, <2>2, <3>6 DEF IInv, TabsInv, RefMatchesSession, BootsForShown, WaitsForToken
    <3> QED BY <2>2, <3>3, <3>5, <3>7 DEF IInv, TabsInv
  <2> QED BY <2>1, <2>2 DEF AnswerRefresh, HandleSessionError
<1>3. CallsInv' BY <1>1, DoneInv DEF IInv
<1> QED BY <1>1, <1>2, <1>3 DEF IInv, ServerInv, server

LEMMA NextInv == IInv /\ [Next]_vars => IInv'
<1> SUFFICES ASSUME IInv, [Next]_vars PROVE IInv' OBVIOUS
<1>1. CASE UNCHANGED vars
  BY <1>1 DEF vars, tabVars, server, IInv, TabsInv, TabTypes, UserMatchesToken,
              RefMatchesSession, BootsForShown, WaitsForToken, CallsInv, CallsHaveTokens,
              LoginsHaveUsers, ServerInv
<1>2. ASSUME NEW t \in Tabs, Render(t) \/ Reload(t) \/ AnswerBoot(t) \/ Logout(t)
      PROVE  IInv'
  BY <1>2, RenderInv, ReloadInv, AnswerBootInv, LogoutInv
<1>3. ASSUME NEW c \in Calls, NEW t \in Tabs, Operate(c, t) \/ \E u \in Users : Submit(c, t, u)
      PROVE  IInv'
  BY <1>3, OperateInv, SubmitInv
<1>4. ASSUME NEW c \in Calls, \/ AnswerRegister(c) \/ AnswerLogin(c) \/ AnswerLoginMe(c)
                              \/ AnswerOperation(c) \/ AnswerRefresh(c)
      PROVE  IInv'
  BY <1>4, AnswerRegisterInv, AnswerLoginInv, AnswerLoginMeInv, AnswerOperationInv,
     AnswerRefreshInv
<1> QED BY <1>1, <1>2, <1>3, <1>4, ExpireInv DEF Next
-----------------------------------------------------------------------------
(* Why a session starts and ends *)

\* The formula of SessionsHaveReasons, for one tab and for the stored token.
StartsForReason(t) ==
    tokenRef'[t] \notin {None, tokenRef[t]} => LoggedIn(t) \/ Reload(t)
EndsForReason(t) ==
    tokenRef[t] # None /\ tokenRef'[t] = None =>
        \/ Logout(t) \/ Reload(t) \/ AutoLoginFails(t)
        \/ tokenRef[t] \notin accepted'
StoredGoesForReason ==
    storage # None /\ storage' # storage =>
        \E t \in Tabs : \/ LoggedIn(t) \/ AutoLoginFails(t)
                        \/ tokenRef[t] = storage /\ tokenRef'[t] = None
HaveReasons ==
    /\ \A t \in Tabs : StartsForReason(t) /\ EndsForReason(t)
    /\ StoredGoesForReason

LEMMA KeptHasReasons ==
    ASSUME UNCHANGED <<storage, tokenRef>>
    PROVE  HaveReasons
BY DEF HaveReasons, StartsForReason, EndsForReason, StoredGoesForReason

\* clearSession ends the session of one tab, and takes its own token along.
LEMMA ClearedHasReasons ==
    ASSUME IInv, NEW t \in Tabs, NEW token, ClearSession(t, token),
           Logout(t) \/ token \notin accepted'
    PROVE  HaveReasons
<1>1. CASE ~StillCurrent(t, token)
  BY <1>1, KeptHasReasons DEF ClearSession, KeepSession
<1>2. CASE StillCurrent(t, token)
  <2>1. /\ tokenRef[t] = token /\ tokenRef' = [tokenRef EXCEPT ![t] = None]
        /\ storage' = IF storage = token THEN None ELSE storage
    BY <1>2 DEF ClearSession, ClearStored, SetSession, StillCurrent
  <2>2. \A u \in Tabs : tokenRef'[u] = IF u = t THEN None ELSE tokenRef[u]
    BY <2>1 DEF IInv, TabsInv, TabTypes
  <2>3. ASSUME NEW u \in Tabs PROVE StartsForReason(u) /\ EndsForReason(u)
    BY <2>1, <2>2 DEF StartsForReason, EndsForReason
  <2>4. StoredGoesForReason BY <2>1, <2>2 DEF StoredGoesForReason
  <2> QED BY <2>3, <2>4 DEF HaveReasons
<1> QED BY <1>1, <1>2

LEMMA LoginFailedHasReasons ==
    ASSUME IInv, NEW c \in Calls, call[c] # None, LoginFailed(c)
    PROVE  HaveReasons
<1>1. CASE call[c].kind # "register"
  BY <1>1, KeptHasReasons DEF LoginFailed, KeepSession
<1>2. CASE call[c].kind = "register"
  <2> DEFINE t == call[c].tab
  <2>1. t \in Tabs /\ AutoLoginFails(t) BY <1>2, TabOfCall DEF AutoLoginFails
  <2>2. tokenRef' = [tokenRef EXCEPT ![t] = None]
    BY <1>2 DEF LoginFailed, ClearAnySession, SetSession
  <2> HIDE DEF t
  <2>3. \A u \in Tabs : tokenRef'[u] = IF u = t THEN None ELSE tokenRef[u]
    BY <2>1, <2>2 DEF IInv, TabsInv, TabTypes
  <2>4. ASSUME NEW u \in Tabs PROVE StartsForReason(u) /\ EndsForReason(u)
    BY <2>1, <2>3 DEF StartsForReason, EndsForReason
  <2>5. StoredGoesForReason BY <2>1 DEF StoredGoesForReason
  <2> QED BY <2>4, <2>5 DEF HaveReasons
<1> QED BY <1>1, <1>2

LEMMA AnswerBootHasReasons ==
    ASSUME IInv, NEW t \in Tabs, AnswerBoot(t)
    PROVE  HaveReasons
<1> DEFINE token == boot[t].token
<1>1. boot[t] # None /\ token \in Tokens /\ accepted' = accepted
  BY DEF AnswerBoot, IInv, TabsInv, TabTypes, GetMe, server
<1>2. PICK answer \in Answers(boot[t].timely, token) :
         IF ~StillCurrent(t, token) THEN KeepSession
         ELSE CASE answer = "ok" ->
                     /\ SetSession(t, token, owner[token])
                     /\ StopBootstrapping(t) /\ UNCHANGED storage
                [] answer = "unauthorized" -> ClearSession(t, token)
                [] OTHER ->
                     /\ IF Settles(answer) THEN StopBootstrapping(t)
                        ELSE UNCHANGED isBootstrapping
                     /\ UNCHANGED <<storage, tokenRef, session>>
  BY DEF AnswerBoot
<1>3. CASE ~StillCurrent(t, token)
  BY <1>2, <1>3, KeptHasReasons DEF KeepSession
<1>4. CASE StillCurrent(t, token) /\ answer = "ok"
  <2>1. tokenRef' = tokenRef /\ storage' = storage
    BY <1>2, <1>4 DEF SetSession, StillCurrent, IInv, TabsInv, TabTypes
  <2> QED BY <2>1, KeptHasReasons
<1>5. CASE StillCurrent(t, token) /\ answer = "unauthorized"
  <2>1. token \notin accepted BY <1>5 DEF Answers
  <2> QED BY <1>1, <1>2, <1>5, <2>1, ClearedHasReasons
<1>6. CASE StillCurrent(t, token) /\ answer \notin {"ok", "unauthorized"}
  BY <1>2, <1>6, KeptHasReasons
<1> QED BY <1>3, <1>4, <1>5, <1>6

LEMMA AnswerLoginMeHasReasons ==
    ASSUME IInv, NEW c \in Calls, AnswerLoginMe(c)
    PROVE  HaveReasons
<1> DEFINE t == call[c].tab
           token == call[c].token
<1>1. call[c] # None /\ t \in Tabs /\ token \in Tokens
  BY TabOfCall DEF AnswerLoginMe
<1>2. CASE LoginFailed(c) BY <1>1, <1>2, LoginFailedHasReasons
<1>3. CASE SetSession(t, token, owner[token])
  <2>1. LoggedIn(t) BY <1>1 DEF LoggedIn
  <2>2. tokenRef' = [tokenRef EXCEPT ![t] = token] BY <1>3 DEF SetSession
  <2> HIDE DEF t, token
  <2>3. \A u \in Tabs : tokenRef'[u] = IF u = t THEN token ELSE tokenRef[u]
    BY <1>1, <2>2 DEF IInv, TabsInv, TabTypes
  <2>4. ASSUME NEW u \in Tabs PROVE StartsForReason(u) /\ EndsForReason(u)
    BY <1>1, <2>1, <2>3, NamesOK DEF StartsForReason, EndsForReason
  <2>5. StoredGoesForReason BY <1>1, <2>1 DEF StoredGoesForReason
  <2> QED BY <2>4, <2>5 DEF HaveReasons
<1> QED BY <1>2, <1>3 DEF AnswerLoginMe

LEMMA AnswerOperationHasReasons ==
    ASSUME IInv, NEW c \in Calls, AnswerOperation(c)
    PROVE  HaveReasons
<1> DEFINE t == call[c].tab
           token == call[c].token
<1>1. call[c] # None /\ t \in Tabs /\ token \in Tokens
  BY TabOfCall DEF AnswerOperation
<1>2. \/ KeepSession
      \/ ClearSession(t, token) /\ accepted' = accepted \ TokensOf(owner[token])
      \/ ClearSession(t, token) /\ accepted' = accepted /\ token \notin accepted
  BY DEF AnswerOperation, HandleSessionError, Answers
<1>3. token \in TokensOf(owner[token]) BY <1>1 DEF TokensOf
<1> HIDE DEF t, token
<1> QED BY <1>1, <1>2, <1>3, KeptHasReasons, ClearedHasReasons DEF KeepSession

LEMMA AnswerRefreshHasReasons ==
    ASSUME IInv, NEW c \in Calls, AnswerRefresh(c)
    PROVE  HaveReasons
<1> DEFINE t == call[c].tab
           token == call[c].token
<1>1. t \in Tabs /\ accepted' = accepted
  BY TabOfCall DEF AnswerRefresh, server
<1>2. \/ UNCHANGED <<storage, tokenRef>>
      \/ ClearSession(t, token) /\ token \notin accepted
  BY DEF AnswerRefresh, HandleSessionError, Answers, KeepSession
<1> HIDE DEF t, token
<1> QED BY <1>1, <1>2, KeptHasReasons, ClearedHasReasons

LEMMA ReloadHasReasons ==
    ASSUME IInv, NEW t \in Tabs, Reload(t)
    PROVE  HaveReasons
<1>1. \A u \in Tabs : u # t => tokenRef'[u] = tokenRef[u]
  BY DEF Reload, IInv, TabsInv, TabTypes
<1>2. ASSUME NEW u \in Tabs PROVE StartsForReason(u) /\ EndsForReason(u)
  BY <1>1 DEF StartsForReason, EndsForReason
<1>3. StoredGoesForReason BY DEF Reload, StoredGoesForReason
<1> QED BY <1>2, <1>3 DEF HaveReasons

LEMMA NextHasReasons == IInv /\ [Next]_vars => HaveReasons
<1> SUFFICES ASSUME IInv, [Next]_vars PROVE HaveReasons OBVIOUS
<1>1. CASE UNCHANGED vars BY <1>1, KeptHasReasons DEF vars, tabVars
<1>2. ASSUME NEW t \in Tabs, Render(t) \/ Logout(t)
      PROVE  HaveReasons
  BY <1>2, KeptHasReasons, ClearedHasReasons DEF Render, Logout
<1>3. ASSUME NEW t \in Tabs, Reload(t) \/ AnswerBoot(t)
      PROVE  HaveReasons
  BY <1>3, ReloadHasReasons, AnswerBootHasReasons
<1>4. ASSUME NEW c \in Calls, NEW t \in Tabs, Operate(c, t) \/ \E u \in Users : Submit(c, t, u)
      PROVE  HaveReasons
  BY <1>4, KeptHasReasons DEF Operate, Submit, Start, tabVars
<1>5. ASSUME NEW c \in Calls, AnswerRegister(c) \/ AnswerLogin(c)
      PROVE  HaveReasons
  BY <1>5, KeptHasReasons, LoginFailedHasReasons
     DEF AnswerRegister, AnswerLogin, KeepSession, tabVars
<1>6. ASSUME NEW c \in Calls, AnswerLoginMe(c) \/ AnswerOperation(c) \/ AnswerRefresh(c)
      PROVE  HaveReasons
  BY <1>6, AnswerLoginMeHasReasons, AnswerOperationHasReasons, AnswerRefreshHasReasons
<1>7. ASSUME NEW token \in Tokens, Expire(token)
      PROVE  HaveReasons
  BY <1>7, KeptHasReasons DEF Expire, tabVars
<1> QED BY <1>1, <1>2, <1>3, <1>4, <1>5, <1>6, <1>7 DEF Next
-----------------------------------------------------------------------------
(* The theorems *)

\* Every state of the tabs satisfies the invariant (AuthContext.tsx, api.ts).
THEOREM Invariance == Spec => []IInv
<1>1. Init => IInv BY InitInv
<1>2. IInv /\ [Next]_vars => IInv' BY NextInv
<1> QED BY <1>1, <1>2, PTL DEF Spec

\* Whatever order the answers arrive in, and however many tabs and operations
\* there are: a tab shows the account its token was issued to, its guard of late
\* answers is the token of its session, and it never waits for an answer that
\* will not come.
THEOREM Coherence == Spec => []SessionIsCoherent
<1>1. IInv => SessionIsCoherent
  <2> SUFFICES ASSUME IInv PROVE SessionIsCoherent OBVIOUS
  <2>1. TypeOK BY DEF IInv, TabsInv, TabTypes, CallsInv, ServerInv, TypeOK
  <2>2. UserMatchesToken /\ RefMatchesSession BY DEF IInv, TabsInv
  <2>3. BootstrapIsUnderWay BY DEF IInv, TabsInv, WaitsForToken, BootstrapIsUnderWay
  <2> QED BY <2>1, <2>2, <2>3 DEF SessionIsCoherent
<1> QED BY <1>1, Invariance, PTL

\* No late answer, of any tab, starts or ends a session that it was not for: a
\* session changes only by its own login, logout or loading, by the failed login
\* of a registration, or because the server has ended that very token.
THEOREM Reasons == Spec => SessionsHaveReasons
<1>1. IInv /\ [Next]_vars => HaveReasons BY NextHasReasons
<1>2. HaveReasons =>
        /\ \A t \in Tabs :
             /\ tokenRef'[t] \notin {None, tokenRef[t]} => LoggedIn(t) \/ Reload(t)
             /\ tokenRef[t] # None /\ tokenRef'[t] = None =>
                  \/ Logout(t) \/ Reload(t) \/ AutoLoginFails(t)
                  \/ tokenRef[t] \notin accepted'
        /\ storage # None /\ storage' # storage =>
             \E t \in Tabs : \/ LoggedIn(t) \/ AutoLoginFails(t)
                             \/ tokenRef[t] = storage /\ tokenRef'[t] = None
  BY DEF HaveReasons, StartsForReason, EndsForReason, StoredGoesForReason
<1> QED BY <1>1, <1>2, Invariance, PTL DEF Spec, SessionsHaveReasons
-----------------------------------------------------------------------------
(* The pages *)

\* What a list on a page is about: the account, user or query whose rows are
\* loaded, or the edition of the feed.
Topic(rt, v, sn, edition) ==
    CASE rt[1] = "home" -> edition
      [] rt[1] = "user" -> v.subject
      [] rt[1] \in {"me", "messages"} -> OwnerKey(sn)
      [] OTHER -> rt[2]

\* The first m pieces of a list about x.
Run(x, m) == {<<x, i>> : i \in 1 .. m}

\* The state of a page by itself.
ViewInv(rt, v, sn) ==
    /\ v \in View
    /\ v.hasMore => v.pageNo < LastPage
    /\ rt[1] = "messages" => v.subject = OwnerKey(sn)
    /\ rt[1] = "user" => v.target \in {None, rt[2]}

\* A list is a run of pieces about one subject: only the feed keeps, until its
\* rows have been loaded again, those of an edition that is past.
ListInv(page, v, x) == page # "post" =>
    \E y \in Subjects, m \in 0 .. LastPage :
        /\ v.list = Run(y, m)
        /\ (m > 0 /\ page # "home") \/ v.hasMore => y = x
        /\ v.hasMore => m = v.pageNo

\* A request remembers where it comes from.
RequestInv(r, page) ==
    /\ r \in Request
    /\ r.here => r.page = page
    /\ r.kind = "more" => r.n \in 1 .. LastPage
    /\ r.kind = "submit" => r.page = "messages" /\ r.about = OwnerKey(r.token)
    /\ r.kind = "card" => r.page = "user"
    /\ r.kind = "comment" => r.page = "post"
    /\ r.kind = "comments" => r.page = "post"
    /\ r.kind \in Manages \cup {"like"} => r.about = r.shown

RequestsInv(rs, page) ==
    /\ rs \in [Slots -> Request \cup {None}]
    /\ \A s \in Slots : rs[s] # None => RequestInv(rs[s], page)

\* The loads whose answers the page is still waiting for: there is one at most,
\* and it fits what the page shows.
Fresh(rs) == {s \in Slots : rs[s] # None /\ rs[s].here /\ rs[s].current
                            /\ rs[s].kind \in {"first", "more"}}

FirstFits(r, page, v, x) ==
    /\ v.loading /\ (v.hasMore => page = "me")
    /\ r.n = 1
    /\ page # "user" => r.about = x

MoreFits(r, v, x) ==
    v.hasMore /\ v.loadingMore /\ r.n = v.pageNo + 1 /\ r.about = x

LoadsInv(page, v, rs, x) == page # "post" =>
    /\ \A s, t \in Fresh(rs) : s = t
    /\ \A s \in Fresh(rs) : IF rs[s].kind = "first" THEN FirstFits(rs[s], page, v, x)
                                                    ELSE MoreFits(rs[s], v, x)

PageInv(rt, v, rs, sn, edition) ==
    /\ ViewInv(rt, v, sn)
    /\ RequestsInv(rs, rt[1])
    /\ ListInv(rt[1], v, Topic(rt, v, sn, edition))
    /\ LoadsInv(rt[1], v, rs, Topic(rt, v, sn, edition))

PagesInv ==
    /\ held \in MaybeToken /\ seen \in MaybeToken
    /\ route \in Routes /\ version \in 0 .. MaxVersion
    /\ PageInv(route, view, req, seen, version)

-----------------------------------------------------------------------------
(* Routes, subjects and lists *)

LEMMA RouteIs ==
    ASSUME NEW r \in Routes
    PROVE  /\ r[1] \in {"user", "post", "search", "home", "me", "messages"}
           /\ r[1] \in {x[1] : x \in Routes}
           /\ r[1] \in {"user", "post", "search"} => r[2] \in Ids
           /\ r[2] \in Subjects
BY DEF Routes, Subjects

LEMMA OwnerIsSubject ==
    ASSUME NEW k \in MaybeToken
    PROVE  OwnerKey(k) \in Subjects
BY DEF MaybeToken, OwnerKey, Subjects, Accounts

LEMMA TopicIsSubject ==
    ASSUME NEW r \in Routes, NEW v \in View, NEW k \in MaybeToken, NEW e \in 0 .. MaxVersion
    PROVE  Topic(r, v, k, e) \in Subjects
<1>1. v.subject \in Subjects BY DEF View
<1>2. e \in Subjects BY DEF Subjects
<1> QED BY <1>1, <1>2, RouteIs, OwnerIsSubject DEF Topic

LEMMA RunOfNone == \A x : Run(x, 0) = {}
<1>1. 1 .. 0 = {} OBVIOUS
<1> QED BY <1>1 DEF Run

LEMMA RunOfOne == \A x : Run(x, 1) = {<<x, 1>>}
<1>1. 1 .. 1 = {1} OBVIOUS
<1> QED BY <1>1 DEF Run

LEMMA RunGrows ==
    ASSUME NEW x, NEW m \in Nat
    PROVE  Run(x, m + 1) = Run(x, m) \cup {<<x, m + 1>>}
<1>1. 1 .. m + 1 = (1 .. m) \cup {m + 1} OBVIOUS
<1> QED BY <1>1 DEF Run

\* Pages are numbered, and there is one at least.
LEMMA LastPageIs == LastPage \in Nat \ {0} /\ MaxVersion \in Nat
BY ConstantsOK

LEMMA BlankIsView == Blank \in View
BY LastPageIs DEF Blank, View, Subjects

\* The list of a page that has been cleared.
LEMMA EmptyList ==
    ASSUME NEW page, NEW v, v.list = {}, ~v.hasMore, NEW x
    PROVE  ListInv(page, v, x)
<1>1. None \in Subjects /\ 0 \in 0 .. LastPage BY LastPageIs DEF Subjects
<1> QED BY <1>1, RunOfNone DEF ListInv

\* The list of a page that keeps it, and offers no more of it than before.
LEMMA SameList ==
    ASSUME NEW page, NEW v, NEW x, ListInv(page, v, x), NEW w, w.list = v.list,
           w.hasMore => v.hasMore /\ w.pageNo = v.pageNo
    PROVE  ListInv(page, w, x)
BY DEF ListInv
-----------------------------------------------------------------------------
(* Requests *)

LEMMA BumpedInv ==
    ASSUME NEW rs, NEW page, RequestsInv(rs, page), NEW kinds
    PROVE  /\ RequestsInv(Bumped(rs, kinds), page)
           /\ Loads \subseteq kinds => Fresh(Bumped(rs, kinds)) = {}
<1> DEFINE new == Bumped(rs, kinds)
<1>1. ASSUME NEW s \in Slots
      PROVE  /\ new[s] \in Request \cup {None}
             /\ new[s] # None => RequestInv(new[s], page)
  <2>1. CASE rs[s] # None /\ rs[s].kind \in kinds
    <3>1. new[s] = [rs[s] EXCEPT !.current = FALSE] BY <2>1 DEF Bumped
    <3>2. RequestInv(rs[s], page) BY <2>1 DEF RequestsInv
    <3> QED BY <3>1, <3>2 DEF RequestInv, Request
  <2>2. CASE ~(rs[s] # None /\ rs[s].kind \in kinds)
    <3>1. new[s] = rs[s] BY <2>2 DEF Bumped
    <3> QED BY <3>1 DEF RequestsInv
  <2> QED BY <2>1, <2>2
<1>2. new \in [Slots -> Request \cup {None}] BY <1>1 DEF Bumped
<1>3. ASSUME Loads \subseteq kinds, NEW s \in Fresh(new)
      PROVE  FALSE
  <2>1. s \in Slots /\ new[s] # None /\ new[s].current /\ new[s].kind \in Loads
    BY <1>3 DEF Fresh, Loads
  <2>2. CASE rs[s] # None /\ rs[s].kind \in kinds
    <3>1. new[s] = [rs[s] EXCEPT !.current = FALSE] BY <2>1, <2>2 DEF Bumped
    <3>2. rs[s] \in Request BY <2>1, <2>2 DEF RequestsInv
    <3> QED BY <2>1, <3>1, <3>2 DEF Request
  <2>3. CASE ~(rs[s] # None /\ rs[s].kind \in kinds)
    <3>1. new[s] = rs[s] BY <2>1, <2>3 DEF Bumped
    <3> QED BY <1>3, <2>1, <2>3, <3>1
  <2> QED BY <2>2, <2>3
<1> QED BY <1>1, <1>2, <1>3 DEF RequestsInv

\* Requests of a page that is gone belong to no page.
LEMMA DetachedInv ==
    ASSUME NEW rs, NEW page, RequestsInv(rs, page), NEW next
    PROVE  RequestsInv(Detached(rs), next) /\ Fresh(Detached(rs)) = {}
<1> DEFINE new == Detached(rs)
<1>1. ASSUME NEW s \in Slots
      PROVE  /\ new[s] \in Request \cup {None}
             /\ new[s] # None => RequestInv(new[s], next) /\ ~new[s].here
  <2>1. CASE rs[s] = None \/ rs[s].token = None
    BY <2>1 DEF Detached
  <2>2. CASE ~(rs[s] = None \/ rs[s].token = None)
    <3>1. new[s] = [rs[s] EXCEPT !.here = FALSE, !.current = FALSE]
      BY <2>2 DEF Detached
    <3>2. RequestInv(rs[s], page) BY <2>2 DEF RequestsInv
    <3> QED BY <3>1, <3>2 DEF RequestInv, Request
  <2> QED BY <2>1, <2>2
<1>2. new \in [Slots -> Request \cup {None}] BY <1>1 DEF Detached
<1>3. Fresh(new) = {} BY <1>1 DEF Fresh
<1> QED BY <1>1, <1>2, <1>3 DEF RequestsInv

LEMMA WithoutInv ==
    ASSUME NEW page, RequestsInv(req, page), NEW s \in Slots
    PROVE  /\ RequestsInv(Without(s), page)
           /\ Fresh(Without(s)) = Fresh(req) \ {s}
           /\ \A t \in Slots \ {s} : Without(s)[t] = req[t]
BY DEF Without, RequestsInv, Fresh

\* A step that sends no load leaves those that are waited for.
LEMMA QuietLoads ==
    ASSUME NEW page, NEW v, NEW rs, NEW x, LoadsInv(page, v, rs, x), NEW new,
           \A t \in Fresh(new) : t \in Fresh(rs) /\ new[t] = rs[t],
           NEW w, w.loading = v.loading, w.loadingMore = v.loadingMore,
           w.hasMore = v.hasMore, w.pageNo = v.pageNo
    PROVE  LoadsInv(page, w, new, x)
BY DEF LoadsInv, FirstFits, MoreFits

LEMMA NoLoads ==
    ASSUME NEW page, NEW v, NEW rs, Fresh(rs) = {}, NEW x
    PROVE  LoadsInv(page, v, rs, x)
BY DEF LoadsInv

\* With one load more, when none was waited for.
LEMMA SentLoad ==
    ASSUME NEW rs, NEW page, RequestsInv(rs, page), Fresh(rs) = {}, NEW r,
           RequestInv(r, page), r.kind \in {"first", "more"}, Send(rs, r), NEW v, NEW x,
           page # "post" => IF r.kind = "first" THEN FirstFits(r, page, v, x)
                                                ELSE MoreFits(r, v, x)
    PROVE  RequestsInv(req', page) /\ LoadsInv(page, v, req', x)
<1>1. PICK s \in Slots : rs[s] = None /\ req' = [rs EXCEPT ![s] = r] BY DEF Send
<1>2. r \in Request BY DEF RequestInv
<1>3. RequestsInv(req', page) BY <1>1, <1>2 DEF RequestsInv
<1>4. \A t \in Fresh(req') : t = s /\ req'[t] = r
  BY <1>1 DEF Fresh, RequestsInv
<1>5. LoadsInv(page, v, req', x) BY <1>4 DEF LoadsInv
<1> QED BY <1>3, <1>5

\* With one request more that is no load.
LEMMA SentOther ==
    ASSUME NEW rs, NEW page, RequestsInv(rs, page), NEW r, RequestInv(r, page),
           r.kind \notin {"first", "more"}, Send(rs, r)
    PROVE  /\ RequestsInv(req', page)
           /\ \A t \in Fresh(req') : t \in Fresh(rs) /\ req'[t] = rs[t]
<1>1. PICK s \in Slots : rs[s] = None /\ req' = [rs EXCEPT ![s] = r] BY DEF Send
<1>2. r \in Request BY DEF RequestInv
<1>3. RequestsInv(req', page) BY <1>1, <1>2 DEF RequestsInv
<1>4. \A t \in Fresh(req') : t \in Fresh(rs) /\ req'[t] = rs[t]
  BY <1>1 DEF Fresh, RequestsInv
<1> QED BY <1>3, <1>4

LEMMA NewIs ==
    ASSUME NEW kind \in RequestKinds, NEW page \in {x[1] : x \in Routes},
           NEW about \in Subjects, NEW n \in 0 .. LastPage, NEW k \in MaybeToken,
           view \in View
    PROVE  LET r == New(kind, page, about, n, k)
           IN  /\ r \in Request
               /\ r.kind = kind /\ r.page = page /\ r.about = about /\ r.n = n
               /\ r.token = k /\ r.shown = view.subject /\ ~r.after
BY DEF New, Request, View

-----------------------------------------------------------------------------
(* Loading a page *)

\* The first load of a page that has dropped all others.
LEMMA SentFirst ==
    ASSUME NEW rt \in Routes, NEW about \in Subjects, NEW k \in MaybeToken, view \in View,
           NEW rs, RequestsInv(rs, rt[1]), Fresh(rs) = {},
           Send(rs, New("first", rt[1], about, 1, k)),
           NEW v, v.loading, v.hasMore => rt[1] = "me",
           NEW x, rt[1] # "user" => about = x
    PROVE  RequestsInv(req', rt[1]) /\ LoadsInv(rt[1], v, req', x)
<1> DEFINE r == New("first", rt[1], about, 1, k)
<1>1. /\ r \in Request
      /\ r.kind = "first" /\ r.page = rt[1] /\ r.about = about /\ r.n = 1
  BY NewIs, RouteIs, LastPageIs DEF RequestKinds, Loads
<1>2. Send(rs, r) OBVIOUS
<1> HIDE DEF r
<1>3. RequestInv(r, rt[1]) BY <1>1 DEF RequestInv, Manages
<1>4. FirstFits(r, rt[1], v, x) BY <1>1 DEF FirstFits
<1> QED BY <1>1, <1>2, <1>3, <1>4, SentLoad

LEMMA LoadFeedInv ==
    ASSUME view \in View, NEW v \in View, NEW y, ListInv("home", v, y),
           NEW rs, RequestsInv(rs, "home"), NEW edition \in 0 .. MaxVersion,
           LoadFeed(v, rs, edition), NEW k
    PROVE  PageInv(<<"home", None>>, view', req', k, edition)
<1> DEFINE w == [v EXCEPT !.loading = TRUE, !.loadingMore = FALSE,
                          !.hasMore = FALSE, !.failed = FALSE]
           rt == <<"home", None>>
<1>1. view' = w /\ Send(Bumped(rs, Loads), New("first", rt[1], edition, 1, None))
  BY DEF LoadFeed
<1>2. w \in View /\ w.loading /\ ~w.hasMore /\ w.list = v.list BY DEF View
<1>3. rt \in Routes /\ rt[1] = "home" BY DEF Routes
<1>4. None \in MaybeToken /\ edition \in Subjects BY DEF MaybeToken, Subjects
<1>5. RequestsInv(Bumped(rs, Loads), rt[1]) /\ Fresh(Bumped(rs, Loads)) = {}
  BY <1>3, BumpedInv
<1> HIDE DEF w
<1>6. RequestsInv(req', rt[1]) /\ LoadsInv(rt[1], w, req', edition)
  BY <1>1, <1>2, <1>3, <1>4, <1>5, SentFirst
<1>7. Topic(rt, w, k, edition) = edition BY <1>3 DEF Topic
<1>8. ViewInv(rt, w, k) BY <1>2, <1>3 DEF ViewInv
<1>9. ListInv("home", w, edition) BY <1>2 DEF ListInv
<1> QED BY <1>1, <1>3, <1>6, <1>7, <1>8, <1>9 DEF PageInv

LEMMA LoadProfileInv ==
    ASSUME view \in View, NEW v \in View, NEW rs, RequestsInv(rs, "user"),
           NEW id \in Subjects, LoadProfile(v, rs, id), NEW rt \in Routes, rt[1] = "user",
           NEW k, NEW edition
    PROVE  PageInv(rt, view', req', k, edition)
<1> DEFINE w == Cleared(v)
<1>1. view' = w /\ Send(Bumped(rs, Loads), New("first", rt[1], id, 1, None))
  BY DEF LoadProfile
<1>2. w \in View /\ w.loading /\ ~w.hasMore /\ w.list = {} /\ w.target = None
  <2> DEFINE u == [v EXCEPT !.subject = None, !.list = {}, !.pageNo = 1,
                            !.hasMore = FALSE]
  <2>1. u \in View /\ ~u.hasMore /\ u.list = {}
    <3>1. None \in Subjects /\ 1 \in 1 .. LastPage BY LastPageIs DEF Subjects
    <3> QED BY <3>1 DEF View
  <2>2. w = [u EXCEPT !.loading = TRUE, !.loadingMore = FALSE, !.failed = FALSE,
                      !.muted = FALSE, !.target = None]
    BY DEF Cleared
  <2> HIDE DEF u, w
  <2> QED BY <2>1, <2>2 DEF View
<1>3. None \in MaybeToken BY DEF MaybeToken
<1>4. RequestsInv(Bumped(rs, Loads), rt[1]) /\ Fresh(Bumped(rs, Loads)) = {}
  BY BumpedInv
<1> HIDE DEF w
<1>5. RequestsInv(req', rt[1]) /\ \A x : LoadsInv(rt[1], w, req', x)
  BY <1>1, <1>2, <1>3, <1>4, SentFirst
<1>6. ViewInv(rt, w, k) BY <1>2 DEF ViewInv
<1>7. \A x : ListInv(rt[1], w, x) BY <1>2, EmptyList
<1> QED BY <1>1, <1>5, <1>6, <1>7 DEF PageInv

LEMMA LoadPostInv ==
    ASSUME view \in View, NEW v \in View, v.hasMore => v.pageNo < LastPage,
           NEW rs, RequestsInv(rs, "post"), NEW id \in Ids, NEW token \in MaybeToken,
           LoadPost(v, rs, id, token), NEW rt \in Routes, rt[1] = "post", NEW k, NEW edition
    PROVE  PageInv(rt, view', req', k, edition)
<1> DEFINE w == [v EXCEPT !.loading = TRUE, !.failed = FALSE]
           r == New("first", "post", id, 1, token)
<1>1. view' = w /\ Send(rs, r) BY DEF LoadPost
<1>2. w \in View /\ w.hasMore = v.hasMore /\ w.pageNo = v.pageNo BY DEF View
<1>3. r \in Request /\ r.kind = "first" /\ r.page = "post"
  BY NewIs, RouteIs, LastPageIs DEF RequestKinds, Loads, Subjects
<1> HIDE DEF w, r
<1>4. RequestInv(r, "post") BY <1>3 DEF RequestInv, Manages
<1>5. PICK s \in Slots : rs[s] = None /\ req' = [rs EXCEPT ![s] = r]
  BY <1>1 DEF Send
<1>6. RequestsInv(req', "post") BY <1>3, <1>4, <1>5 DEF RequestsInv
<1>7. ViewInv(rt, w, k) BY <1>2 DEF ViewInv
<1> QED BY <1>1, <1>6, <1>7 DEF PageInv, ListInv, LoadsInv

LEMMA LoadMessagesInv ==
    ASSUME view \in View, NEW rs, RequestsInv(rs, "messages"), NEW k \in MaybeToken,
           LoadMessages(rs, k), NEW rt \in Routes, rt[1] = "messages", NEW edition
    PROVE  PageInv(rt, view', req', k, edition)
<1> DEFINE w == [Blank EXCEPT !.subject = OwnerKey(k), !.loading = k # None]
           old == Bumped(rs, Loads \cup {"submit"})
<1>1. view' = w /\ IF k = None THEN req' = old
                   ELSE Send(old, New("first", rt[1], OwnerKey(k), 1, k))
  BY DEF LoadMessages
<1>2. w \in View /\ ~w.hasMore /\ w.list = {} /\ w.subject = OwnerKey(k)
      /\ (w.loading <=> k # None)
  <2>1. Blank \in View /\ OwnerKey(k) \in Subjects BY BlankIsView, OwnerIsSubject
  <2> QED BY <2>1 DEF Blank, View
<1>3. RequestsInv(old, rt[1]) /\ Fresh(old) = {} BY BumpedInv
<1> HIDE DEF w, old
<1>4. RequestsInv(req', rt[1]) /\ LoadsInv(rt[1], w, req', OwnerKey(k))
  <2>1. CASE k = None BY <1>1, <1>3, <2>1, NoLoads
  <2>2. CASE k # None BY <1>1, <1>2, <1>3, <2>2, SentFirst, OwnerIsSubject
  <2> QED BY <2>1, <2>2
<1>5. Topic(rt, w, k, edition) = OwnerKey(k) BY DEF Topic
<1>6. ViewInv(rt, w, k) BY <1>2 DEF ViewInv
<1>7. ListInv(rt[1], w, OwnerKey(k)) BY <1>2, EmptyList
<1> QED BY <1>1, <1>4, <1>5, <1>6, <1>7 DEF PageInv

LEMMA LoadSearchInv ==
    ASSUME view \in View, NEW rs, RequestsInv(rs, "search"), NEW rt \in Routes,
           rt[1] = "search", LoadSearch(rs, rt[2]), NEW k, NEW edition
    PROVE  PageInv(rt, view', req', k, edition)
<1> DEFINE w == Blank
<1>1. view' = w /\ Send(Bumped(rs, Loads), New("first", rt[1], rt[2], 1, None))
  BY DEF LoadSearch
<1>2. w \in View /\ w.loading /\ ~w.hasMore /\ w.list = {}
  BY BlankIsView DEF Blank
<1>3. None \in MaybeToken /\ rt[2] \in Subjects BY RouteIs DEF MaybeToken
<1>4. RequestsInv(Bumped(rs, Loads), rt[1]) /\ Fresh(Bumped(rs, Loads)) = {}
  BY BumpedInv
<1> HIDE DEF w
<1>5. RequestsInv(req', rt[1]) /\ LoadsInv(rt[1], w, req', rt[2])
  BY <1>1, <1>2, <1>3, <1>4, SentFirst
<1>6. Topic(rt, w, k, edition) = rt[2] BY DEF Topic
<1>7. ViewInv(rt, w, k) BY <1>2 DEF ViewInv
<1>8. ListInv(rt[1], w, rt[2]) BY <1>2, EmptyList
<1> QED BY <1>1, <1>5, <1>6, <1>7, <1>8 DEF PageInv

LEMMA LoadMineInv ==
    ASSUME view \in View, NEW rs, RequestsInv(rs, "me"), NEW rt \in Routes, rt[1] = "me",
           NEW k \in MaybeToken, NEW v, ViewInv(rt, v, k), ListInv("me", v, OwnerKey(k)),
           LoadMine(v, rs, k), NEW edition
    PROVE  PageInv(rt, view', req', k, edition)
<1>1. RequestsInv(Bumped(rs, Loads), rt[1]) /\ Fresh(Bumped(rs, Loads)) = {}
  BY BumpedInv
<1>2. \A w : Topic(rt, w, k, edition) = OwnerKey(k) BY DEF Topic
<1>3. CASE k = None
  <2> DEFINE w == [Blank EXCEPT !.loading = FALSE]
  <2>1. view' = w /\ req' = Bumped(rs, Loads) BY <1>3 DEF LoadMine
  <2>2. w \in View /\ ~w.hasMore /\ w.list = {}
    <3>1. Blank \in View BY BlankIsView
    <3> QED BY <3>1 DEF Blank, View
  <2> HIDE DEF w
  <2>3. ViewInv(rt, w, k) BY <2>2 DEF ViewInv
  <2>4. ListInv(rt[1], w, OwnerKey(k)) BY <2>2, EmptyList
  <2>5. LoadsInv(rt[1], w, req', OwnerKey(k)) BY <1>1, <2>1, NoLoads
  <2> QED BY <1>1, <1>2, <2>1, <2>3, <2>4, <2>5 DEF PageInv
<1>4. CASE k # None
  <2> DEFINE w == [v EXCEPT !.loading = TRUE, !.loadingMore = FALSE, !.failed = FALSE]
  <2>1. view' = w /\ Send(Bumped(rs, Loads), New("first", rt[1], OwnerKey(k), 1, k))
    BY <1>4 DEF LoadMine
  <2>2. /\ w \in View /\ w.loading /\ w.hasMore = v.hasMore /\ w.list = v.list
        /\ w.pageNo = v.pageNo
    BY DEF View, ViewInv
  <2> HIDE DEF w
  <2>3. ViewInv(rt, w, k) BY <2>2 DEF ViewInv
  <2>4. ListInv(rt[1], w, OwnerKey(k)) BY <2>2, SameList
  <2>5. RequestsInv(req', rt[1]) /\ LoadsInv(rt[1], w, req', OwnerKey(k))
    BY <1>1, <2>1, <2>2, SentFirst, OwnerIsSubject
  <2> QED BY <1>2, <2>1, <2>3, <2>4, <2>5 DEF PageInv
<1> QED BY <1>3, <1>4


\* What a page does when it is mounted, or when its address has changed.
LEMMA LoadInv ==
    ASSUME PagesInv, NEW r \in Routes, NEW v \in View, v.hasMore => v.pageNo < LastPage,
           NEW rs, RequestsInv(rs, r[1]), NEW k \in MaybeToken, Load(r, v, rs, k),
           r[1] = "home" => \E y : ListInv("home", v, y),
           r[1] = "me" => ViewInv(r, v, k) /\ ListInv("me", v, OwnerKey(k))
    PROVE  PageInv(r, view', req', k, version)
<1>1. view \in View /\ version \in 0 .. MaxVersion
  BY DEF PagesInv, PageInv, ViewInv
<1>2. CASE r[1] = "home"
  <2>1. r = <<"home", None>> BY <1>2 DEF Routes
  <2>2. PICK y : ListInv("home", v, y) BY <1>2
  <2> QED BY <1>1, <1>2, <2>1, <2>2, LoadFeedInv DEF Load
<1>3. CASE r[1] = "user"
  BY <1>1, <1>3, RouteIs, LoadProfileInv DEF Load
<1>4. CASE r[1] = "post"
  BY <1>1, <1>4, RouteIs, LoadPostInv DEF Load
<1>5. CASE r[1] = "search"
  BY <1>1, <1>5, LoadSearchInv DEF Load
<1>6. CASE r[1] = "me"
  BY <1>1, <1>6, LoadMineInv DEF Load
<1>7. CASE r[1] = "messages"
  BY <1>1, <1>7, LoadMessagesInv DEF Load
<1> QED BY <1>2, <1>3, <1>4, <1>5, <1>6, <1>7, RouteIs

LEMMA BlankLoadInv ==
    ASSUME PagesInv, NEW r \in Routes, NEW rs, RequestsInv(rs, r[1]),
           NEW k \in MaybeToken, Load(r, Blank, rs, k)
    PROVE  PageInv(r, view', req', k, version)
<1>1. /\ Blank \in View /\ Blank.list = {} /\ ~Blank.hasMore /\ Blank.target = None
  BY BlankIsView DEF Blank
<1>2. \A page, y : ListInv(page, Blank, y) BY <1>1, EmptyList
<1>3. r[1] = "me" => ViewInv(r, Blank, k) BY <1>1 DEF ViewInv
<1> HIDE DEF Blank
<1> QED BY <1>1, <1>2, <1>3, LoadInv
-----------------------------------------------------------------------------
(* Steps of the reader *)

\* The parts of the invariant, of the page that is there.
LEMMA PageIs ==
    ASSUME PagesInv
    PROVE  /\ view \in View /\ (view.hasMore => view.pageNo < LastPage)
           /\ RequestsInv(req, Page)
           /\ Page \in {"user", "post", "search", "home", "me", "messages"}
           /\ Page \in {x[1] : x \in Routes}
BY RouteIs DEF PagesInv, PageInv, ViewInv, Page

\* A step that leaves the list and its loads as they are.
LEMMA SamePageInv ==
    ASSUME PagesInv, held' \in MaybeToken, route' = route,
           seen' \in MaybeToken, OwnList => seen' = seen,
           version' \in 0 .. MaxVersion, Page = "home" => version' = version,
           RequestsInv(req', Page),
           \A t \in Fresh(req') : t \in Fresh(req) /\ req'[t] = req[t],
           view' \in View, view'.subject = view.subject, view'.list = view.list,
           view'.pageNo = view.pageNo, view'.hasMore = view.hasMore,
           view'.loading = view.loading, view'.loadingMore = view.loadingMore,
           Page = "user" => view'.target \in {None, route[2]}
    PROVE  PagesInv'
<1> DEFINE x == Topic(route, view, seen, version)
<1>1. /\ ViewInv(route, view, seen) /\ ListInv(Page, view, x)
      /\ LoadsInv(Page, view, req, x) /\ route \in Routes
  BY DEF PagesInv, PageInv, Page
<1>2. Topic(route, view', seen', version') = x BY DEF Topic, OwnList, Page
<1>3. ViewInv(route, view', seen') BY <1>1 DEF ViewInv, OwnList, Page
<1> HIDE DEF x
<1>4. ListInv(Page, view', x) BY <1>1, SameList
<1>5. LoadsInv(Page, view', req', x) BY <1>1, QuietLoads
<1>6. PageInv(route, view', req', seen', version')
  BY <1>2, <1>3, <1>4, <1>5 DEF PageInv, Page
<1> QED BY <1>1, <1>6 DEF PagesInv

LEMMA NavigateInv ==
    ASSUME PagesInv, NEW r \in Routes, Navigate(r)
    PROVE  PagesInv'
<1>1. /\ r # route /\ route' = r /\ seen' = held /\ held' = held /\ version' = version
      /\ held \in MaybeToken /\ version \in 0 .. MaxVersion
  BY DEF Navigate, PagesInv
<1>2. CASE r[1] = Page
  <2>1. Load(r, view, req, held) BY <1>2 DEF Navigate
  <2>2. r[1] \notin {"home", "me"}
    BY <1>1, <1>2 DEF PagesInv, Routes, Page
  <2>3. PageInv(r, view', req', held, version)
    BY <1>1, <1>2, <2>1, <2>2, PageIs, LoadInv
  <2> QED BY <1>1, <2>3 DEF PagesInv
<1>3. CASE r[1] # Page
  <2>1. Load(r, Blank, Detached(req), held) BY <1>3 DEF Navigate
  <2>2. RequestsInv(Detached(req), r[1]) BY PageIs, DetachedInv
  <2>3. PageInv(r, view', req', held, version)
    BY <1>1, <2>1, <2>2, BlankLoadInv
  <2> QED BY <1>1, <2>3 DEF PagesInv
<1> QED BY <1>2, <1>3

LEMMA SessionInv ==
    ASSUME PagesInv, SessionEnds \/ \E k \in Tokens : SessionStarts(k)
    PROVE  PagesInv'
<1>1. held' \in MaybeToken /\ UNCHANGED <<seen, route, view, req, version>>
  BY DEF SessionEnds, SessionStarts, MaybeToken
<1>2. /\ PageInv(route, view, req, seen, version) /\ seen \in MaybeToken
      /\ route \in Routes /\ version \in 0 .. MaxVersion
  BY DEF PagesInv
<1>3. PageInv(route', view', req', seen', version') BY <1>1, <1>2
<1> QED BY <1>1, <1>2, <1>3 DEF PagesInv

LEMMA RerenderInv ==
    ASSUME PagesInv, Rerender
    PROVE  PagesInv'
<1>1. /\ seen' = held /\ UNCHANGED <<held, route, version>>
      /\ held \in MaybeToken /\ version \in 0 .. MaxVersion /\ route \in Routes
  BY DEF Rerender, PagesInv
<1>2. ASSUME PageInv(route, view', req', held, version)
      PROVE  PagesInv'
  BY <1>1, <1>2 DEF PagesInv
<1>3. CASE Page = "messages"
  <2>1. LoadMessages(req, held) BY <1>3 DEF Rerender
  <2> QED BY <1>1, <1>2, <1>3, <2>1, PageIs, LoadMessagesInv DEF Page
<1>4. CASE Page = "me"
  <2>1. LoadMine(Blank, req, held) BY <1>4 DEF Rerender
  <2>2. Load(route, Blank, req, held) BY <1>4, <2>1 DEF Load, Page
  <2> QED BY <1>1, <1>2, <2>2, PageIs, BlankLoadInv DEF Page
<1>5. CASE Page = "post"
  <2>1. LoadPost(view, req, route[2], held) BY <1>5 DEF Rerender
  <2>2. route[2] \in Ids BY <1>1, <1>5, RouteIs DEF Page
  <2> QED BY <1>1, <1>2, <1>5, <2>1, <2>2, PageIs, LoadPostInv DEF Page
<1>6. CASE Page = "user"
  <2>1. req' = req /\ view' = IF IsAdmin(held) THEN view ELSE [view EXCEPT !.target = None]
    BY <1>6 DEF Rerender
  <2>2. view \in View /\ view.target \in {None, route[2]}
    BY <1>6 DEF PagesInv, PageInv, ViewInv, Page
  <2>3. /\ view' \in View /\ view'.subject = view.subject /\ view'.list = view.list
        /\ view'.pageNo = view.pageNo /\ view'.hasMore = view.hasMore
        /\ view'.loading = view.loading /\ view'.loadingMore = view.loadingMore
        /\ view'.target \in {None, route[2]}
    BY <2>1, <2>2 DEF View
  <2>4. ~OwnList BY <1>6 DEF OwnList
  <2> QED BY <1>1, <2>1, <2>3, <2>4, PageIs, SamePageInv
<1>7. CASE Page \in {"home", "search"}
  <2>1. req' = req /\ view' = view BY <1>7 DEF Rerender
  <2>2. ~OwnList BY <1>7 DEF OwnList
  <2> QED BY <1>1, <1>7, <2>1, <2>2, PageIs, SamePageInv
<1> QED BY <1>3, <1>4, <1>5, <1>6, <1>7, PageIs

\* refreshContent, when the requests rs are left.
LEMMA RefreshContentInv ==
    ASSUME PagesInv, NEW rs, RequestsInv(rs, Page),
           \A t \in Fresh(rs) : t \in Fresh(req) /\ rs[t] = req[t],
           RefreshContent(rs), UNCHANGED <<held, seen, route>>
    PROVE  PagesInv'
<1>1. /\ version' = version + 1 /\ version' \in 0 .. MaxVersion
      /\ held \in MaybeToken /\ seen \in MaybeToken /\ route \in Routes
  BY LastPageIs DEF RefreshContent, PagesInv
<1>2. ASSUME PageInv(route, view', req', seen, version')
      PROVE  PagesInv'
  BY <1>1, <1>2 DEF PagesInv
<1>3. ViewInv(route, view, seen) /\ \E y : ListInv(Page, view, y)
  BY DEF PagesInv, PageInv, Page
<1>4. CASE Page = "home"
  <2>1. LoadFeed(view, rs, version') BY <1>1, <1>4 DEF RefreshContent
  <2>2. route = <<"home", None>> BY <1>1, <1>4 DEF Routes, Page
  <2>3. PICK e, y : e = version' /\ ListInv("home", view, y) BY <1>3, <1>4
  <2>4. PageInv(route, view', req', seen, e)
    BY <1>1, <1>4, <2>1, <2>2, <2>3, PageIs, LoadFeedInv
  <2> QED BY <1>2, <2>3, <2>4
<1>5. CASE Page = "post"
  <2>1. LoadPost(view, rs, route[2], seen) BY <1>5 DEF RefreshContent
  <2>2. route[2] \in Ids BY <1>1, <1>5, RouteIs DEF Page
  <2>3. PICK e : e = version' OBVIOUS
  <2>4. PageInv(route, view', req', seen, e)
    BY <1>1, <1>5, <2>1, <2>2, PageIs, LoadPostInv DEF Page
  <2> QED BY <1>2, <2>3, <2>4
<1>6. CASE Page = "me"
  <2>1. LoadMine(view, rs, seen) BY <1>6 DEF RefreshContent
  <2>2. ListInv("me", view, OwnerKey(seen))
    BY <1>6 DEF PagesInv, PageInv, Page, Topic
  <2>3. PICK e : e = version' OBVIOUS
  <2>4. PageInv(route, view', req', seen, e)
    BY <1>1, <1>3, <1>6, <2>1, <2>2, PageIs, LoadMineInv DEF Page
  <2> QED BY <1>2, <2>3, <2>4
<1>7. CASE Page \in {"user", "search", "messages"}
  <2>1. req' = rs /\ view' = view BY <1>7 DEF RefreshContent
  <2>2. Page = "user" => view.target \in {None, route[2]} BY <1>3 DEF ViewInv, Page
  <2> QED BY <1>1, <1>7, <2>1, <2>2, PageIs, SamePageInv
<1> QED BY <1>4, <1>5, <1>6, <1>7, PageIs


LEMMA LoadMoreInv ==
    ASSUME PagesInv, LoadMore
    PROVE  PagesInv'
<1> DEFINE about == CASE Page = "home" -> version
                      [] OwnList -> OwnerKey(seen)
                      [] OTHER -> route[2]
           k == IF OwnList THEN seen ELSE None
           r == New("more", Page, about, view.pageNo + 1, k)
           w == [view EXCEPT !.loadingMore = TRUE]
           x == Topic(route, view, seen, version)
<1>1. /\ MayLoadMore /\ Send(req, r) /\ view' = w
      /\ UNCHANGED <<held, seen, route, version>>
  BY DEF LoadMore
<1>2. /\ held \in MaybeToken /\ seen \in MaybeToken /\ route \in Routes
      /\ version \in 0 .. MaxVersion
  BY DEF PagesInv
<1>3. /\ w \in View /\ w.subject = view.subject /\ w.list = view.list
      /\ w.pageNo = view.pageNo /\ w.hasMore /\ w.loadingMore /\ w.target = view.target
      /\ view.pageNo \in 1 .. LastPage /\ view.pageNo < LastPage /\ view.hasMore
  BY <1>1, PageIs DEF View, MayLoadMore
<1>4. about \in Subjects /\ k \in MaybeToken
  <2>1. version \in Subjects /\ route[2] \in Subjects /\ OwnerKey(seen) \in Subjects
    BY <1>2, RouteIs, OwnerIsSubject DEF Subjects
  <2> QED BY <1>2, <2>1 DEF MaybeToken
<1>5. view.pageNo + 1 \in 1 .. LastPage BY <1>3, LastPageIs
<1>6. r \in Request /\ r.kind = "more" /\ r.page = Page /\ r.about = about
      /\ r.n = view.pageNo + 1
  <2>1. "more" \in RequestKinds /\ view.pageNo + 1 \in 0 .. LastPage
    BY <1>5 DEF RequestKinds, Loads
  <2> HIDE DEF about, k
  <2> QED BY <1>4, <2>1, PageIs, NewIs
<1>7. Page # "post" => about = x
  <2>1. Page = "user" => view.subject = route[2]
    BY <1>1 DEF MayLoadMore, Visible
  <2> QED BY <2>1, PageIs DEF Topic, OwnList, Page
<1>8. Page # "post" => Fresh(req) = {}
  <2> SUFFICES ASSUME Page # "post", NEW s \in Fresh(req)
               PROVE  FALSE
    OBVIOUS
  <2>1. LoadsInv(Page, view, req, x) BY DEF PagesInv, PageInv, Page
  <2>2. CASE req[s].kind = "first"
    <3>1. view.loading /\ (view.hasMore => Page = "me")
      BY <2>1, <2>2 DEF LoadsInv, FirstFits
    <3> QED BY <1>1, <3>1 DEF MayLoadMore
  <2>3. CASE req[s].kind # "first"
    <3>1. view.loadingMore BY <2>1, <2>3 DEF LoadsInv, MoreFits
    <3> QED BY <1>1, <3>1 DEF MayLoadMore
  <2> QED BY <2>2, <2>3
<1>9. Topic(route, w, seen, version) = x BY <1>3 DEF Topic
<1>10. ViewInv(route, w, seen)
  BY <1>3 DEF PagesInv, PageInv, ViewInv
<1>11. ListInv(Page, w, x)
  <2>1. ListInv(Page, view, x) BY DEF PagesInv, PageInv, Page
  <2> HIDE DEF w, x
  <2> QED BY <1>3, <2>1, SameList
<1> HIDE DEF about, k, r, w, x
<1>12. RequestInv(r, Page) BY <1>5, <1>6 DEF RequestInv, Manages
<1>13. RequestsInv(req', Page) /\ LoadsInv(Page, w, req', x)
  <2>1. CASE Page = "post"
    <3>1. PICK s \in Slots : req[s] = None /\ req' = [req EXCEPT ![s] = r]
      BY <1>1 DEF Send
    <3>2. RequestsInv(req', Page) BY <1>6, <1>12, <3>1, PageIs DEF RequestsInv
    <3> QED BY <2>1, <3>2 DEF LoadsInv
  <2>2. CASE Page # "post"
    <3>1. MoreFits(r, w, x) BY <1>3, <1>6, <1>7, <2>2 DEF MoreFits
    <3> QED BY <1>1, <1>6, <1>8, <1>12, <2>2, <3>1, PageIs, SentLoad
  <2> QED BY <2>1, <2>2
<1>14. PageInv(route, w, req', seen, version)
  BY <1>9, <1>10, <1>11, <1>13 DEF PageInv, Page
<1> QED BY <1>1, <1>2, <1>14 DEF PagesInv

\* A request that is no load.
LEMMA AskInv ==
    ASSUME PagesInv, NEW kind \in RequestKinds \ Loads, NEW about \in Subjects,
           Ask(kind, about),
           kind = "submit" => Page = "messages" /\ about = OwnerKey(seen),
           kind = "card" => Page = "user", kind = "comment" => Page = "post",
           kind \in Manages \cup {"like"} => about = view.subject
    PROVE  PagesInv'
<1> DEFINE r == New(kind, Page, about, 0, seen)
<1>1. Send(req, r) /\ UNCHANGED <<held, seen, route, view, version>> BY DEF Ask
<1>2. seen \in MaybeToken /\ held \in MaybeToken /\ version \in 0 .. MaxVersion
  BY DEF PagesInv
<1>3. /\ r \in Request /\ r.kind = kind /\ r.page = Page /\ r.about = about
      /\ r.token = seen /\ r.shown = view.subject
  BY <1>2, PageIs, NewIs, LastPageIs
<1> HIDE DEF r
<1>4. RequestInv(r, Page) BY <1>3 DEF RequestInv, Loads
<1>5. r.kind \notin {"first", "more"} BY <1>3 DEF Loads
<1>6. /\ RequestsInv(req', Page)
      /\ \A t \in Fresh(req') : t \in Fresh(req) /\ req'[t] = req[t]
  BY <1>1, <1>4, <1>5, PageIs, SentOther
<1>7. Page = "user" => view.target \in {None, route[2]}
  BY DEF PagesInv, PageInv, ViewInv, Page
<1> QED BY <1>1, <1>2, <1>6, <1>7, PageIs, SamePageInv

\* The reader asks for what the page shows.
LEMMA AsksInv ==
    ASSUME PagesInv,
           \/ SubmitMessage \/ ToggleMuted \/ CardOperation \/ ToggleLike
           \/ \E kind \in {"pin", "delete", "comment", "uncomment"} : PostOperation(kind)
    PROVE  PagesInv'
<1>1. view.subject \in Subjects /\ route[2] \in Subjects /\ OwnerKey(seen) \in Subjects
  BY PageIs, RouteIs, OwnerIsSubject DEF View, PagesInv
<1>2. CASE SubmitMessage
  BY <1>1, <1>2, AskInv DEF SubmitMessage, RequestKinds, Loads, Manages
<1>3. CASE ToggleMuted
  <2>1. PICK kind \in {"mute", "unmute"} : Ask(kind, view.subject)
    BY <1>3 DEF ToggleMuted
  <2> QED BY <1>1, <2>1, AskInv DEF RequestKinds, Loads, Manages
<1>4. CASE CardOperation
  BY <1>1, <1>4, AskInv DEF CardOperation, RequestKinds, Loads, Manages
<1>5. CASE ToggleLike
  BY <1>1, <1>5, AskInv DEF ToggleLike, RequestKinds, Loads, Manages
<1>6. ASSUME NEW kind \in {"pin", "delete", "comment", "uncomment"}, PostOperation(kind)
      PROVE  PagesInv'
  BY <1>1, <1>6, AskInv DEF PostOperation, RequestKinds, Loads, Manages
<1> QED BY <1>2, <1>3, <1>4, <1>5, <1>6

\* The dialog for another user's password opens and closes.
LEMMA TargetInv ==
    ASSUME PagesInv, NEW id, id = None \/ (Page = "user" /\ id = route[2]),
           view' = [view EXCEPT !.target = id],
           UNCHANGED <<held, seen, route, req, version>>
    PROVE  PagesInv'
<1>1. id \in Ids \cup {None} BY RouteIs DEF PagesInv, Page
<1>2. /\ view' \in View /\ view'.subject = view.subject /\ view'.list = view.list
      /\ view'.pageNo = view.pageNo /\ view'.hasMore = view.hasMore
      /\ view'.loading = view.loading /\ view'.loadingMore = view.loadingMore
      /\ view'.target = id
  BY <1>1, PageIs DEF View
<1>3. held \in MaybeToken /\ seen \in MaybeToken /\ version \in 0 .. MaxVersion
  BY DEF PagesInv
<1> QED BY <1>2, <1>3, PageIs, SamePageInv

LEMMA DialogInv ==
    ASSUME PagesInv, OpenResetDialog \/ ResetPassword
    PROVE  PagesInv'
<1>1. CASE OpenResetDialog
  <2>1. Page = "user" /\ view.subject = route[2] BY <1>1 DEF OpenResetDialog, Visible
  <2> QED BY <1>1, <2>1, TargetInv DEF OpenResetDialog
<1>2. CASE ResetPassword
  <2>1. CASE /\ IsAdmin(seen) /\ Visible
             /\ view.subject = route[2] /\ view.target = route[2]
    <3>1. Ask("reset", view.target) /\ view.target = view.subject
      BY <1>2, <2>1 DEF ResetPassword
    <3>2. view.subject \in Subjects BY PageIs DEF View
    <3> QED BY <3>1, <3>2, AskInv DEF RequestKinds, Loads, Manages
  <2>2. CASE ~(/\ IsAdmin(seen) /\ Visible
               /\ view.subject = route[2] /\ view.target = route[2])
    BY <1>2, <2>2, TargetInv DEF ResetPassword
  <2> QED BY <2>1, <2>2
<1> QED BY <1>1, <1>2

-----------------------------------------------------------------------------
(* Answers *)

LEMMA UnauthorizedKeeps ==
    ASSUME PagesInv, NEW r, Unauthorized(r) \/ held' = held
    PROVE  held' \in MaybeToken
BY DEF Unauthorized, PagesInv, MaybeToken

\* An answer that changes nothing of the list.
LEMMA PassedOver ==
    ASSUME PagesInv, NEW s \in Slots, req' = Without(s), held' \in MaybeToken,
           UNCHANGED <<seen, route, version>>,
           view' \in View, view'.subject = view.subject, view'.list = view.list,
           view'.pageNo = view.pageNo, view'.hasMore = view.hasMore,
           view'.loading = view.loading, view'.loadingMore = view.loadingMore,
           view'.target \in {None, view.target}
    PROVE  PagesInv'
<1>1. /\ RequestsInv(req', Page)
      /\ \A t \in Fresh(req') : t \in Fresh(req) /\ req'[t] = req[t]
  <2>1. /\ RequestsInv(Without(s), Page) /\ Fresh(Without(s)) = Fresh(req) \ {s}
        /\ \A t \in Slots \ {s} : Without(s)[t] = req[t]
    BY PageIs, WithoutInv
  <2> QED BY <2>1 DEF Fresh
<1>2. seen \in MaybeToken /\ version \in 0 .. MaxVersion
  BY DEF PagesInv
<1>3. Page = "user" => view'.target \in {None, route[2]}
  BY DEF PagesInv, PageInv, ViewInv, Page
<1> QED BY <1>1, <1>2, <1>3, SamePageInv

LEMMA IgnoredInv ==
    ASSUME PagesInv, NEW s \in Slots, req' = Without(s), view' = view,
           held' \in MaybeToken, UNCHANGED <<seen, route, version>>
    PROVE  PagesInv'
BY PageIs, PassedOver

\* The post page keeps nothing of its list apart.
LEMMA PostPageInv ==
    ASSUME PagesInv, Page = "post", held' \in MaybeToken, RequestsInv(req', Page),
           UNCHANGED <<seen, route, version>>,
           view' \in View, view'.hasMore => view'.pageNo < LastPage
    PROVE  PagesInv'
<1>1. ViewInv(route, view', seen) BY DEF ViewInv, Page
<1> QED BY <1>1 DEF PagesInv, PageInv, ListInv, LoadsInv, Page

\* A page that has got what it was waiting for: it waits for nothing more.
LEMMA AnsweredInv ==
    ASSUME PagesInv, held' \in MaybeToken, UNCHANGED <<seen, route, version>>,
           RequestsInv(req', Page), Page # "post" => Fresh(req') = {}, NEW w,
           ViewInv(route, w, seen), ListInv(Page, w, Topic(route, w, seen, version)),
           view' = w
    PROVE  PagesInv'
<1>1. LoadsInv(Page, w, req', Topic(route, w, seen, version))
  BY NoLoads DEF LoadsInv
<1>2. PageInv(route, w, req', seen, version) BY <1>1 DEF PageInv, Page
<1> QED BY <1>2 DEF PagesInv

\* A load whose answer a page wants is the only one it waits for.
LEMMA WantedIs ==
    ASSUME PagesInv, NEW s \in Slots, req[s] # None, req[s].kind \in {"first", "more"},
           Wanted(req[s])
    PROVE  /\ RequestInv(req[s], Page) /\ req[s].page = Page
           /\ RequestsInv(Without(s), Page)
           /\ Page # "post" =>
                  /\ Fresh(Without(s)) = {}
                  /\ IF req[s].kind = "first"
                     THEN FirstFits(req[s], Page, view, Topic(route, view, seen, version))
                     ELSE MoreFits(req[s], view, Topic(route, view, seen, version))
<1> DEFINE x == Topic(route, view, seen, version)
<1>1. RequestInv(req[s], Page) BY PageIs DEF RequestsInv
<1>2. req[s].page = Page BY <1>1 DEF RequestInv, Wanted
<1>3. RequestsInv(Without(s), Page) /\ Fresh(Without(s)) = Fresh(req) \ {s}
  BY PageIs, WithoutInv
<1>4. Page # "post" => s \in Fresh(req)
  BY <1>2 DEF Wanted, IsCurrent, Fresh
<1>5. LoadsInv(Page, view, req, x) BY DEF PagesInv, PageInv, Page
<1> HIDE DEF x
<1>6. Page # "post" => \A t \in Fresh(req) : t = s BY <1>4, <1>5 DEF LoadsInv
<1>7. Page # "post" => IF req[s].kind = "first" THEN FirstFits(req[s], Page, view, x)
                                               ELSE MoreFits(req[s], view, x)
  BY <1>4, <1>5 DEF LoadsInv
<1> QED BY <1>1, <1>2, <1>3, <1>6, <1>7 DEF x

LEMMA AnswerFirstInv ==
    ASSUME PagesInv, NEW s \in Slots, AnswerFirst(s)
    PROVE  PagesInv'
<1> DEFINE r == req[s]
           x == Topic(route, view, seen, version)
<1>1. /\ req[s] # None /\ r.kind = "first" /\ r.page # "post" /\ req' = Without(s)
      /\ UNCHANGED <<seen, route, version>>
  BY DEF AnswerFirst
<1>2. held \in MaybeToken BY DEF PagesInv
<1>3. ASSUME Wanted(r)
      PROVE  /\ RequestInv(r, Page) /\ r.page = Page /\ RequestsInv(req', Page)
             /\ Fresh(req') = {} /\ FirstFits(r, Page, view, x)
  BY <1>1, <1>3, WantedIs
<1>4. ASSUME Wanted(r), NEW m \in BOOLEAN, UNCHANGED held,
             view' = [FirstAnswered(r) EXCEPT !.muted = r.page = "user" /\ m]
      PROVE  PagesInv'
  <2>1. r.about \in Subjects /\ r.n = 1 /\ (Page # "user" => r.about = x)
    BY <1>3, <1>4 DEF RequestInv, Request, FirstFits
  <2> DEFINE u == FirstAnswered(r)
             w == [u EXCEPT !.muted = r.page = "user" /\ m]
  <2>2. Piece(r) \in Subjects \X (0 .. LastPage) /\ Piece(r) = <<r.about, 1>>
    BY <2>1, LastPageIs DEF Piece
  <2>3. HasMore(1) \in BOOLEAN /\ (HasMore(1) => 1 < LastPage) /\ 1 \in 1 .. LastPage
    BY LastPageIs DEF HasMore
  <2>4. /\ u \in View /\ u.list = {<<r.about, 1>>} /\ u.pageNo = 1
        /\ u.hasMore = HasMore(1)
        /\ u.subject = IF Page = "user" THEN r.about ELSE view.subject
        /\ u.target = view.target
    <3> DEFINE b == HasMore(1)
               p == Piece(r)
               sub == IF r.page = "user" THEN r.about ELSE view.subject
    <3>1. u = [view EXCEPT !.list = {p}, !.pageNo = 1, !.hasMore = b, !.loading = FALSE,
                           !.subject = sub]
      BY DEF FirstAnswered
    <3>2. sub \in Subjects /\ sub = IF Page = "user" THEN r.about ELSE view.subject
      BY <1>3, <1>4, <2>1, PageIs DEF View
    <3>3. b \in BOOLEAN /\ p \in Subjects \X (0 .. LastPage) /\ p = <<r.about, 1>>
          /\ b = HasMore(1)
      BY <2>2, <2>3
    <3> HIDE DEF b, p, sub, u
    <3>4. u \in View /\ u.list = {p} /\ u.pageNo = 1 /\ u.hasMore = b
          /\ u.subject = sub /\ u.target = view.target
      BY <2>3, <3>1, <3>2, <3>3, PageIs DEF View
    <3> QED BY <3>2, <3>3, <3>4
  <2> HIDE DEF u
  <2>5. /\ w \in View /\ w.list = u.list /\ w.pageNo = 1 /\ w.hasMore = u.hasMore
        /\ w.subject = u.subject /\ w.target = u.target
    BY <2>4 DEF View
  <2>6. view' = w BY <1>4 DEF u
  <2> HIDE DEF w
  <2>7. ViewInv(route, w, seen)
    BY <2>3, <2>4, <2>5 DEF PagesInv, PageInv, ViewInv, Page
  <2>8. r.about = Topic(route, w, seen, version)
    BY <2>1, <2>4, <2>5 DEF Topic, Page
  <2>9. ListInv(Page, w, r.about)
    <3>1. w.list = Run(r.about, 1) BY <2>4, <2>5, RunOfOne
    <3> QED BY <2>1, <2>5, <3>1, LastPageIs DEF ListInv
  <2> QED BY <1>1, <1>2, <1>3, <1>4, <2>6, <2>7, <2>8, <2>9, AnsweredInv
<1>5. ASSUME Wanted(r), UNCHANGED held,
             view' = [view EXCEPT !.failed = TRUE, !.loading = FALSE]
      PROVE  PagesInv'
  <2> DEFINE w == [view EXCEPT !.failed = TRUE, !.loading = FALSE]
  <2>1. /\ w \in View /\ w.list = view.list /\ w.pageNo = view.pageNo
        /\ w.hasMore = view.hasMore /\ w.subject = view.subject /\ w.target = view.target
    BY PageIs DEF View
  <2>2. view' = w BY <1>5
  <2> HIDE DEF w
  <2>3. ViewInv(route, w, seen) BY <2>1 DEF PagesInv, PageInv, ViewInv
  <2>4. ListInv(Page, view, x) /\ Topic(route, w, seen, version) = x
    BY <2>1 DEF PagesInv, PageInv, Topic, Page
  <2> HIDE DEF x
  <2>5. ListInv(Page, w, x) BY <2>1, <2>4, SameList
  <2> QED BY <1>1, <1>2, <1>3, <1>5, <2>2, <2>3, <2>4, <2>5, AnsweredInv
<1>6. ASSUME Unauthorized(r) \/ UNCHANGED held, UNCHANGED view
      PROVE  PagesInv'
  BY <1>1, <1>6, UnauthorizedKeeps, IgnoredInv
<1> QED BY <1>4, <1>5, <1>6 DEF AnswerFirst, NoChange

LEMMA PostFailsInv ==
    ASSUME PagesInv, NEW s \in Slots, req[s] # None, PostFails(s), req[s].page = "post",
           UNCHANGED <<seen, route, version>>
    PROVE  PagesInv'
<1>1. req' = Without(s) BY DEF PostFails
<1>2. held' \in MaybeToken
  <2>1. Unauthorized(req[s]) \/ held' = held BY DEF PostFails
  <2> QED BY <2>1, UnauthorizedKeeps
<1>3. CASE req[s].here
  <2>1. PICK refused \in BOOLEAN :
            view' = [view EXCEPT !.failed = TRUE, !.loading = refused /\ @]
    BY <1>3 DEF PostFails
  <2>2. view' \in View /\ view'.hasMore = view.hasMore /\ view'.pageNo = view.pageNo
    BY <2>1, PageIs DEF View
  <2>3. Page = "post" BY <1>3, PageIs DEF RequestsInv, RequestInv
  <2>4. RequestsInv(req', Page) BY <1>1, PageIs, WithoutInv
  <2> QED BY <1>2, <2>2, <2>3, <2>4, PageIs, PostPageInv
<1>4. CASE ~req[s].here
  <2>1. view' = view BY <1>4 DEF PostFails
  <2> QED BY <1>1, <1>2, <2>1, IgnoredInv
<1> QED BY <1>3, <1>4

LEMMA AnswerPostInv ==
    ASSUME PagesInv, NEW s \in Slots, AnswerPost(s)
    PROVE  PagesInv'
<1> DEFINE r == req[s]
<1>1. /\ req[s] # None /\ r.kind = "first" /\ r.page = "post"
      /\ UNCHANGED <<seen, route, version>>
  BY DEF AnswerPost
<1>2. held \in MaybeToken /\ RequestInv(r, Page) /\ r.about \in Subjects
  BY <1>1, PageIs DEF PagesInv, RequestsInv, RequestInv, Request
<1>3. ASSUME Wanted(r) PROVE Page = "post"
  BY <1>1, <1>2, <1>3 DEF Wanted, RequestInv
<1>4. ASSUME Wanted(r), view' = [view EXCEPT !.subject = r.about],
             req' = [req EXCEPT ![s].kind = "comments"], UNCHANGED held
      PROVE  PagesInv'
  <2>1. view' \in View /\ view'.hasMore = view.hasMore /\ view'.pageNo = view.pageNo
    BY <1>2, <1>4, PageIs DEF View
  <2> DEFINE n == [r EXCEPT !.kind = "comments"]
  <2>2. n \in Request /\ n.kind = "comments" /\ n.page = r.page /\ n.here = r.here
    BY <1>2 DEF RequestInv, Request, RequestKinds, Loads
  <2>3. req' = [req EXCEPT ![s] = n] BY <1>4
  <2> HIDE DEF n
  <2>4. RequestInv(n, Page) BY <1>1, <1>2, <2>2 DEF RequestInv, Manages
  <2>5. RequestsInv(req', Page) BY <2>2, <2>3, <2>4, PageIs DEF RequestsInv
  <2> QED BY <1>1, <1>2, <1>3, <1>4, <2>1, <2>5, PageIs, PostPageInv
<1>5. ASSUME Wanted(r), req' = Without(s), UNCHANGED held,
             view' = [view EXCEPT !.subject = r.about, !.list = {},
                                  !.hasMore = FALSE, !.loading = FALSE]
      PROVE  PagesInv'
  <2>1. view' \in View /\ ~view'.hasMore
    BY <1>2, <1>5, PageIs DEF View
  <2>2. RequestsInv(req', Page) BY <1>5, PageIs, WithoutInv
  <2> QED BY <1>1, <1>2, <1>3, <1>5, <2>1, <2>2, PostPageInv
<1>6. ASSUME NoChange, req' = Without(s)
      PROVE  PagesInv'
  BY <1>1, <1>2, <1>6, IgnoredInv DEF NoChange
<1> QED BY <1>1, <1>4, <1>5, <1>6, PostFailsInv DEF AnswerPost

LEMMA AnswerCommentsInv ==
    ASSUME PagesInv, NEW s \in Slots, AnswerComments(s)
    PROVE  PagesInv'
<1> DEFINE r == req[s]
<1>1. /\ req[s] # None /\ r.kind = "comments" /\ UNCHANGED <<seen, route, version>>
  BY DEF AnswerComments
<1>2. held \in MaybeToken /\ RequestInv(r, Page) /\ r.page = "post"
      /\ Piece(r) \in Subjects \X (0 .. LastPage)
  BY <1>1, PageIs DEF PagesInv, RequestsInv, RequestInv, Request, Piece
<1>3. ASSUME Wanted(r), req' = Without(s), UNCHANGED held,
             view' = [view EXCEPT !.list = {Piece(r)}, !.pageNo = 1,
                                  !.loading = FALSE, !.hasMore = HasMore(1)]
      PROVE  PagesInv'
  <2>1. Page = "post" BY <1>2, <1>3 DEF Wanted, RequestInv
  <2>2. HasMore(1) \in BOOLEAN /\ (HasMore(1) => 1 < LastPage) /\ 1 \in 1 .. LastPage
    BY LastPageIs DEF HasMore
  <2>3. view' \in View /\ view'.hasMore = HasMore(1) /\ view'.pageNo = 1
    BY <1>2, <1>3, <2>2, PageIs DEF View
  <2>4. RequestsInv(req', Page) BY <1>3, PageIs, WithoutInv
  <2> QED BY <1>1, <1>2, <1>3, <2>1, <2>2, <2>3, <2>4, PostPageInv
<1>4. ASSUME NoChange, req' = Without(s)
      PROVE  PagesInv'
  BY <1>1, <1>2, <1>4, IgnoredInv DEF NoChange
<1> QED BY <1>1, <1>2, <1>3, <1>4, PostFailsInv DEF AnswerComments

LEMMA AnswerMoreInv ==
    ASSUME PagesInv, NEW s \in Slots, AnswerMore(s)
    PROVE  PagesInv'
<1> DEFINE r == req[s]
           x == Topic(route, view, seen, version)
<1>1. /\ req[s] # None /\ r.kind = "more" /\ req' = Without(s)
      /\ UNCHANGED <<seen, route, version>>
  BY DEF AnswerMore
<1>2. held \in MaybeToken BY DEF PagesInv
<1>3. ASSUME Wanted(r)
      PROVE  /\ RequestInv(r, Page) /\ RequestsInv(req', Page)
             /\ Page # "post" => Fresh(req') = {} /\ MoreFits(r, view, x)
  BY <1>1, <1>3, WantedIs
<1>4. ViewInv(route, view, seen) /\ ListInv(Page, view, x)
  BY DEF PagesInv, PageInv, Page
<1>5. ASSUME Wanted(r), view' = MoreAnswered(r), UNCHANGED held
      PROVE  PagesInv'
  <2>1. r.n \in 1 .. LastPage /\ r.about \in Subjects
        /\ Piece(r) \in Subjects \X (0 .. LastPage) /\ Piece(r) = <<r.about, r.n>>
    BY <1>1, <1>3, <1>5 DEF RequestInv, Request, Piece
  <2>2. HasMore(r.n) \in BOOLEAN /\ (HasMore(r.n) => r.n < LastPage)
    BY <2>1 DEF HasMore
  <2> DEFINE w == MoreAnswered(r)
  <2>3. /\ w \in View /\ w.list = view.list \cup {<<r.about, r.n>>} /\ w.pageNo = r.n
        /\ w.hasMore = HasMore(r.n) /\ w.subject = view.subject /\ w.target = view.target
    <3> DEFINE b == HasMore(r.n)
               p == Piece(r)
               l == view.list \cup {p}
    <3>1. w = [view EXCEPT !.list = l, !.pageNo = r.n, !.hasMore = b,
                           !.loadingMore = FALSE]
      BY DEF MoreAnswered
    <3>2. b \in BOOLEAN /\ l \in SUBSET (Subjects \X (0 .. LastPage))
      BY <2>1, <2>2, PageIs DEF View
    <3> HIDE DEF b, l, w
    <3>3. w \in View /\ w.list = l /\ w.pageNo = r.n /\ w.hasMore = b
          /\ w.subject = view.subject /\ w.target = view.target
      BY <2>1, <3>1, <3>2, PageIs DEF View
    <3> QED BY <2>1, <3>3 DEF b, l
  <2> HIDE DEF w
  <2>4. ViewInv(route, w, seen) BY <1>4, <2>2, <2>3 DEF ViewInv
  <2>5. Topic(route, w, seen, version) = x BY <2>3 DEF Topic
  <2> HIDE DEF x
  <2>6. ListInv(Page, w, x)
    <3> SUFFICES ASSUME Page # "post"
                 PROVE  ListInv(Page, w, x)
      BY DEF ListInv
    <3>1. PICK y \in Subjects, m \in 0 .. LastPage :
              /\ view.list = Run(y, m)
              /\ (m > 0 /\ Page # "home") \/ view.hasMore => y = x
              /\ view.hasMore => m = view.pageNo
      BY <1>4 DEF ListInv
    <3>2. view.hasMore /\ r.n = view.pageNo + 1 /\ r.about = x
      BY <1>3, <1>5 DEF MoreFits
    <3>3. y = x /\ r.n = m + 1 /\ m \in Nat BY <3>1, <3>2, LastPageIs
    <3>4. w.list = Run(x, r.n) BY <2>3, <3>1, <3>2, <3>3, RunGrows
    <3>5. r.n \in 0 .. LastPage /\ x \in Subjects BY <2>1, <3>2
    <3> QED BY <2>3, <3>4, <3>5 DEF ListInv
  <2>7. view' = w BY <1>5 DEF w
  <2> QED BY <1>1, <1>2, <1>3, <1>5, <2>4, <2>5, <2>6, <2>7, AnsweredInv
<1>6. ASSUME Wanted(r), view' = [view EXCEPT !.loadingMore = FALSE], UNCHANGED held
      PROVE  PagesInv'
  <2> DEFINE w == [view EXCEPT !.loadingMore = FALSE]
  <2>1. /\ w \in View /\ w.list = view.list /\ w.pageNo = view.pageNo
        /\ w.hasMore = view.hasMore /\ w.subject = view.subject /\ w.target = view.target
    BY PageIs DEF View
  <2>2. view' = w BY <1>6
  <2> HIDE DEF w
  <2>3. ViewInv(route, w, seen) BY <1>4, <2>1 DEF ViewInv
  <2>4. Topic(route, w, seen, version) = x BY <2>1 DEF Topic
  <2> HIDE DEF x
  <2>5. ListInv(Page, w, x) BY <1>4, <2>1, SameList
  <2> QED BY <1>1, <1>2, <1>3, <1>6, <2>2, <2>3, <2>4, <2>5, AnsweredInv
<1>7. ASSUME Unauthorized(r) \/ UNCHANGED held, UNCHANGED view
      PROVE  PagesInv'
  BY <1>1, <1>7, UnauthorizedKeeps, IgnoredInv
<1> QED BY <1>5, <1>6, <1>7 DEF AnswerMore, NoChange


LEMMA AnswerSubmitInv ==
    ASSUME PagesInv, NEW s \in Slots, AnswerSubmit(s)
    PROVE  PagesInv'
<1> DEFINE r == req[s]
           x == Topic(route, view, seen, version)
<1>1. /\ req[s] # None /\ r.kind = "submit" /\ UNCHANGED <<seen, route, version>>
  BY DEF AnswerSubmit
<1>2. held \in MaybeToken /\ seen \in MaybeToken /\ RequestInv(r, Page)
  BY <1>1, PageIs DEF PagesInv, RequestsInv
<1>3. ASSUME r.here, seen = r.token, UNCHANGED held,
             view' = [view EXCEPT !.pageNo = 1, !.hasMore = FALSE,
                                  !.loadingMore = FALSE, !.loading = TRUE],
             req' = [Bumped(req, Loads) EXCEPT ![s] =
                       [New("first", "messages", r.about, 1, r.token)
                          EXCEPT !.after = TRUE]]
      PROVE  PagesInv'
  <2>1. Page = "messages" /\ r.about = OwnerKey(seen)
    BY <1>1, <1>2, <1>3 DEF RequestInv
  <2>2. x = r.about BY <2>1 DEF Topic, Page
  <2> DEFINE w == [view EXCEPT !.pageNo = 1, !.hasMore = FALSE,
                               !.loadingMore = FALSE, !.loading = TRUE]
             m == New("first", "messages", r.about, 1, r.token)
             n == [m EXCEPT !.after = TRUE]
  <2>3. /\ w \in View /\ w.list = view.list /\ ~w.hasMore /\ w.loading
        /\ w.subject = view.subject /\ w.target = view.target
    <3>1. view \in View /\ 1 \in 1 .. LastPage BY PageIs, LastPageIs
    <3> HIDE DEF x
    <3>2. w \in View BY <3>1 DEF View
    <3>3. /\ w.list = view.list /\ ~w.hasMore /\ w.loading
          /\ w.subject = view.subject /\ w.target = view.target
      BY <3>1 DEF View
    <3> QED BY <3>2, <3>3
  <2>4. m \in Request /\ m.kind = "first" /\ m.page = "messages" /\ m.about = r.about
        /\ m.n = 1
    <3>1. r.about \in Subjects /\ r.token \in MaybeToken
      BY <1>2 DEF RequestInv, Request
    <3>2. "first" \in RequestKinds /\ "messages" \in {z[1] : z \in Routes}
          /\ 1 \in 0 .. LastPage
      BY <2>1, PageIs, LastPageIs DEF RequestKinds, Loads
    <3> QED BY <3>1, <3>2, PageIs, NewIs
  <2> HIDE DEF m
  <2>5. n \in Request /\ n.kind = "first" /\ n.page = "messages" /\ n.about = r.about
        /\ n.n = 1
    BY <2>4 DEF Request
  <2>6. view' = w /\ req' = [Bumped(req, Loads) EXCEPT ![s] = n]
    BY <1>3 DEF m
  <2> HIDE DEF w, n
  <2>7. RequestInv(n, Page) BY <2>1, <2>5 DEF RequestInv, Manages
  <2>8. RequestsInv(Bumped(req, Loads), Page) /\ Fresh(Bumped(req, Loads)) = {}
    BY PageIs, BumpedInv
  <2>9. RequestsInv(req', Page) BY <2>5, <2>6, <2>7, <2>8 DEF RequestsInv
  <2>10. \A t \in Fresh(req') : t = s /\ req'[t] = n
    BY <2>6, <2>8 DEF Fresh, RequestsInv
  <2>11. FirstFits(n, Page, w, x) BY <2>2, <2>3, <2>5 DEF FirstFits
  <2>12. LoadsInv(Page, w, req', x) BY <2>5, <2>10, <2>11 DEF LoadsInv
  <2>13. ViewInv(route, view, seen) /\ ListInv(Page, view, x)
    BY DEF PagesInv, PageInv, Page
  <2>14. ViewInv(route, w, seen) BY <2>3, <2>13 DEF ViewInv
  <2>15. Topic(route, w, seen, version) = x BY <2>3 DEF Topic
  <2> HIDE DEF x
  <2>16. ListInv(Page, w, x) BY <2>3, <2>13, SameList
  <2>17. PageInv(route, w, req', seen, version)
    BY <2>9, <2>12, <2>14, <2>15, <2>16 DEF PageInv, Page
  <2> QED BY <1>1, <1>3, <2>6, <2>17 DEF PagesInv
<1>4. ASSUME req' = Without(s), Unauthorized(r) \/ UNCHANGED held, UNCHANGED view
      PROVE  PagesInv'
  BY <1>1, <1>4, UnauthorizedKeeps, IgnoredInv
<1> QED BY <1>3, <1>4 DEF AnswerSubmit, NoChange

LEMMA AnswerManageInv ==
    ASSUME PagesInv, NEW s \in Slots, AnswerManage(s)
    PROVE  PagesInv'
<1> DEFINE r == req[s]
<1>1. req' = Without(s) /\ UNCHANGED <<seen, route, version>>
      /\ (Unauthorized(r) \/ UNCHANGED held)
  BY DEF AnswerManage, NoChange
<1>2. held' \in MaybeToken BY <1>1, UnauthorizedKeeps
<1>3. PICK target \in {None, view.target}, muted \in BOOLEAN :
          view' = [view EXCEPT !.target = target, !.muted = muted]
  <2>1. view.muted \in BOOLEAN /\ view \in View /\ None \in {None, view.target}
    BY PageIs DEF View
  <2>2. \/ view' = view
        \/ view' = [view EXCEPT !.target = None]
        \/ view' = [view EXCEPT !.muted = IF view.subject = None THEN @
                                          ELSE r.kind = "mute"]
    BY DEF AnswerManage, NoChange
  <2>3. ASSUME view' = view
        PROVE  view' = [view EXCEPT !.target = view.target, !.muted = view.muted]
    BY <2>1, <2>3 DEF View
  <2>4. ASSUME view' = [view EXCEPT !.target = None]
        PROVE  view' = [view EXCEPT !.target = None, !.muted = view.muted]
    BY <2>1, <2>4 DEF View
  <2>5. ASSUME view' = [view EXCEPT !.muted = IF view.subject = None THEN @
                                              ELSE r.kind = "mute"]
        PROVE  \E b \in BOOLEAN :
                   view' = [view EXCEPT !.target = view.target, !.muted = b]
    <3>1. PICK b \in BOOLEAN :
              b = IF view.subject = None THEN view.muted ELSE r.kind = "mute"
      BY <2>1
    <3>2. view' = [view EXCEPT !.muted = b] BY <2>5, <3>1
    <3> QED BY <2>1, <3>2 DEF View
  <2>6. CASE view' = view
    <3>1. view.muted \in BOOLEAN BY <2>1
    <3> WITNESS view.target \in {None, view.target}, view.muted \in BOOLEAN
    <3> QED BY <2>3, <2>6
  <2>7. CASE view' = [view EXCEPT !.target = None]
    <3>1. view.muted \in BOOLEAN BY <2>1
    <3> WITNESS None \in {None, view.target}, view.muted \in BOOLEAN
    <3> QED BY <2>4, <2>7
  <2>8. CASE view' = [view EXCEPT !.muted = IF view.subject = None THEN @
                                            ELSE r.kind = "mute"]
    <3>1. PICK b \in BOOLEAN :
              view' = [view EXCEPT !.target = view.target, !.muted = b]
      BY <2>5, <2>8
    <3> WITNESS view.target \in {None, view.target}, b \in BOOLEAN
    <3> QED BY <3>1
  <2> QED BY <2>2, <2>6, <2>7, <2>8
<1>4. view.target \in Ids \cup {None} /\ view \in View BY PageIs DEF View
<1>5. /\ view' \in View /\ view'.subject = view.subject /\ view'.list = view.list
      /\ view'.pageNo = view.pageNo /\ view'.hasMore = view.hasMore
      /\ view'.loading = view.loading /\ view'.loadingMore = view.loadingMore
      /\ view'.target \in {None, view.target}
  BY <1>3, <1>4 DEF View
<1> QED BY <1>1, <1>2, <1>5, PassedOver

LEMMA AnswerCardInv ==
    ASSUME PagesInv, NEW s \in Slots, AnswerCard(s)
    PROVE  PagesInv'
<1> DEFINE r == req[s]
<1>1. req[s] # None /\ r.kind = "card" /\ UNCHANGED <<seen, route>>
  BY DEF AnswerCard
<1>2. /\ held \in MaybeToken /\ seen \in MaybeToken /\ route \in Routes
      /\ RequestInv(r, Page) /\ r.about \in Subjects
  BY <1>1, PageIs DEF PagesInv, RequestsInv, RequestInv, Request
<1>3. /\ RequestsInv(Without(s), Page)
      /\ \A t \in Fresh(Without(s)) : t \in Fresh(req) /\ Without(s)[t] = req[t]
  <2>1. /\ RequestsInv(Without(s), Page) /\ Fresh(Without(s)) = Fresh(req) \ {s}
        /\ \A t \in Slots \ {s} : Without(s)[t] = req[t]
    BY PageIs, WithoutInv
  <2> QED BY <2>1 DEF Fresh
<1>4. ASSUME r.here, version < MaxVersion, version' = version + 1, UNCHANGED held,
             LoadProfile(view, Without(s), r.about)
      PROVE  PagesInv'
  <2>1. Page = "user" /\ version' \in 0 .. MaxVersion
    BY <1>1, <1>2, <1>4, LastPageIs DEF RequestInv, PagesInv
  <2>2. PICK e : e = version' OBVIOUS
  <2>3. PageInv(route, view', req', seen, e)
    BY <1>2, <1>3, <1>4, <2>1, PageIs, LoadProfileInv DEF Page
  <2> QED BY <1>1, <1>2, <1>4, <2>1, <2>2, <2>3 DEF PagesInv
<1>5. ASSUME RefreshContent(Without(s)), UNCHANGED held
      PROVE  PagesInv'
  BY <1>1, <1>3, <1>5, RefreshContentInv
<1>6. ASSUME Unauthorized(r) \/ UNCHANGED held, req' = Without(s),
             UNCHANGED <<view, version>>
      PROVE  PagesInv'
  BY <1>1, <1>6, UnauthorizedKeeps, IgnoredInv
<1> QED BY <1>4, <1>5, <1>6 DEF AnswerCard, NoChange

LEMMA AnswerPostOperationInv ==
    ASSUME PagesInv, NEW s \in Slots, AnswerPostOperation(s)
    PROVE  PagesInv'
<1> DEFINE r == req[s]
<1>1. req[s] # None /\ req' = Without(s) /\ UNCHANGED <<seen, route, version>>
  BY DEF AnswerPostOperation
<1>2. held \in MaybeToken /\ RequestInv(r, Page)
  BY <1>1, PageIs DEF PagesInv, RequestsInv
<1>3. ASSUME r.kind = "comment", r.here, UNCHANGED held,
             view' = [view EXCEPT !.list = @ \cup {Piece(r)}]
      PROVE  PagesInv'
  <2>1. Page = "post" /\ Piece(r) \in Subjects \X (0 .. LastPage)
    BY <1>2, <1>3 DEF RequestInv, Request, Piece
  <2>2. view' \in View /\ view'.hasMore = view.hasMore /\ view'.pageNo = view.pageNo
    BY <1>3, <2>1, PageIs DEF View
  <2>3. RequestsInv(req', Page) BY <1>1, PageIs, WithoutInv
  <2> QED BY <1>1, <1>2, <1>3, <2>1, <2>2, <2>3, PageIs, PostPageInv
<1>4. ASSUME Unauthorized(r) \/ UNCHANGED held, UNCHANGED view
      PROVE  PagesInv'
  BY <1>1, <1>4, UnauthorizedKeeps, IgnoredInv
<1> QED BY <1>3, <1>4 DEF AnswerPostOperation, NoChange

LEMMA AnswerDeleteInv ==
    ASSUME PagesInv, NEW s \in Slots, AnswerDelete(s)
    PROVE  PagesInv'
<1> DEFINE home == <<"home", None>>
<1>1. version' = version BY DEF AnswerDelete
<1>2. held \in MaybeToken /\ version \in 0 .. MaxVersion BY DEF PagesInv
<1>3. ASSUME route' = home, seen' = held, UNCHANGED held,
             Load(home, Blank, Detached(Without(s)), held)
      PROVE  PagesInv'
  <2>1. home \in Routes BY DEF Routes
  <2>2. RequestsInv(Detached(Without(s)), home[1])
    <3>1. RequestsInv(Without(s), Page) BY PageIs, WithoutInv
    <3> QED BY <3>1, DetachedInv
  <2> HIDE DEF home
  <2>3. PageInv(home, view', req', held, version)
    BY <1>2, <1>3, <2>1, <2>2, BlankLoadInv
  <2> QED BY <1>1, <1>2, <1>3, <2>1, <2>3 DEF PagesInv
<1>4. ASSUME Unauthorized(req[s]) \/ UNCHANGED held, req' = Without(s),
             UNCHANGED <<seen, route, view>>
      PROVE  PagesInv'
  BY <1>1, <1>4, UnauthorizedKeeps, IgnoredInv
<1> QED BY <1>3, <1>4 DEF AnswerDelete
-----------------------------------------------------------------------------
(* The invariant *)

LEMMA PagesInvInit == PagesInit => PagesInv
<1> SUFFICES ASSUME PagesInit
             PROVE  PagesInv
  OBVIOUS
<1> DEFINE r == [kind |-> "first", page |-> "home", about |-> 0, n |-> 1,
                 token |-> None, current |-> TRUE, here |-> TRUE,
                 shown |-> None, after |-> FALSE]
<1>1. /\ held = None /\ seen = None /\ version = 0 /\ route = <<"home", None>>
      /\ view = Blank
  BY DEF PagesInit
<1>2. PICK s \in Slots : req = [y \in Slots |-> IF y # s THEN None ELSE r]
  BY DEF PagesInit
<1>3. 0 \in Subjects /\ None \in Subjects /\ 0 \in 0 .. MaxVersion
  BY LastPageIs DEF Subjects
<1>4. route \in Routes /\ Page = "home" /\ None \in MaybeToken
  BY <1>1 DEF Routes, Page, MaybeToken
<1>5. /\ r \in Request /\ r.kind = "first" /\ r.page = "home" /\ r.n = 1 /\ r.about = 0
  <2>1. "first" \in RequestKinds /\ "home" \in {z[1] : z \in Routes} /\ 1 \in 0 .. LastPage
    BY <1>4, RouteIs, LastPageIs DEF RequestKinds, Loads, Page
  <2> QED BY <1>3, <1>4, <2>1 DEF Request
<1> HIDE DEF r
<1>6. RequestInv(r, "home") BY <1>5 DEF RequestInv, Manages
<1>7. RequestsInv(req, "home") BY <1>2, <1>5, <1>6 DEF RequestsInv
<1>8. /\ view \in View /\ view.loading /\ ~view.hasMore /\ view.list = {}
  BY <1>1, BlankIsView DEF Blank
<1>9. Topic(route, view, seen, version) = 0 BY <1>1, <1>4 DEF Topic, Page
<1>10. FirstFits(r, "home", view, 0) BY <1>5, <1>8 DEF FirstFits
<1>11. \A t \in Fresh(req) : t = s /\ req[t] = r BY <1>2 DEF Fresh
<1>12. LoadsInv("home", view, req, 0) BY <1>5, <1>10, <1>11 DEF LoadsInv
<1>13. ListInv("home", view, 0) BY <1>8, EmptyList
<1>14. ViewInv(route, view, seen) BY <1>4, <1>8 DEF ViewInv, Page
<1>15. PageInv(route, view, req, seen, version)
  BY <1>4, <1>7, <1>9, <1>12, <1>13, <1>14 DEF PageInv, Page
<1> QED BY <1>1, <1>3, <1>4, <1>15 DEF PagesInv

LEMMA PagesInvStep == PagesInv /\ [PagesNext]_pagesVars => PagesInv'
<1> SUFFICES ASSUME PagesInv, [PagesNext]_pagesVars
             PROVE  PagesInv'
  OBVIOUS
<1>1. ASSUME NEW r \in Routes, Navigate(r)
      PROVE  PagesInv'
  BY <1>1, NavigateInv
<1>2. CASE SessionEnds \/ \E k \in Tokens : SessionStarts(k)
  BY <1>2, SessionInv
<1>3. CASE Rerender
  BY <1>3, RerenderInv
<1>4. CASE Refresh
  BY <1>4, PageIs, RefreshContentInv DEF Refresh
<1>5. CASE LoadMore
  BY <1>5, LoadMoreInv
<1>6. CASE \/ SubmitMessage \/ ToggleMuted \/ CardOperation \/ ToggleLike
           \/ \E kind \in {"pin", "delete", "comment", "uncomment"} : PostOperation(kind)
  BY <1>6, AsksInv
<1>7. CASE OpenResetDialog \/ ResetPassword
  BY <1>7, DialogInv
<1>8. ASSUME NEW s \in Slots, Answer(s)
      PROVE  PagesInv'
  BY <1>8, AnswerFirstInv, AnswerPostInv, AnswerCommentsInv, AnswerMoreInv,
     AnswerSubmitInv, AnswerManageInv, AnswerCardInv, AnswerPostOperationInv,
     AnswerDeleteInv DEF Answer
<1>9. CASE UNCHANGED pagesVars
  <2>1. UNCHANGED <<held, seen, route, view, req, version>> BY <1>9 DEF pagesVars
  <2>2. /\ PageInv(route, view, req, seen, version) /\ seen \in MaybeToken
        /\ held \in MaybeToken /\ route \in Routes /\ version \in 0 .. MaxVersion
    BY DEF PagesInv
  <2> QED BY <2>1, <2>2 DEF PagesInv
<1> QED BY <1>1, <1>2, <1>3, <1>4, <1>5, <1>6, <1>7, <1>8, <1>9 DEF PagesNext

LEMMA PagesInvariance == PagesSpec => []PagesInv
BY PagesInvInit, PagesInvStep, PTL DEF PagesSpec

\* A run has as many pieces as its last one says.
LEMMA RunsAreWhole ==
    ASSUME NEW x, NEW m \in Nat
    PROVE  {p[2] : p \in Run(x, m)} = 1 .. Cardinality(Run(x, m))
<1> DEFINE f == [i \in 1 .. m |-> <<x, i>>]
<1>1. ExistsBijection(1 .. m, Run(x, m))
  <2>1. f \in [1 .. m -> Run(x, m)] BY DEF Run
  <2>2. \A i, j \in 1 .. m : f[i] = f[j] => i = j OBVIOUS
  <2>3. \A p \in Run(x, m) : \E i \in 1 .. m : f[i] = p BY DEF Run
  <2> QED BY <2>1, <2>2, <2>3
       DEF ExistsBijection, Bijection, Injection, IsInjective, Surjection
<1>2. Cardinality(Run(x, m)) = m BY <1>1, FS_CountingElements
<1>3. {p[2] : p \in Run(x, m)} = 1 .. m
  <2>1. ASSUME NEW i \in 1 .. m PROVE i \in {p[2] : p \in Run(x, m)}
    <3>1. <<x, i>> \in Run(x, m) /\ <<x, i>>[2] = i BY DEF Run
    <3> QED BY <3>1
  <2>2. ASSUME NEW p \in Run(x, m) PROVE p[2] \in 1 .. m
    BY DEF Run
  <2> QED BY <2>1, <2>2
<1> QED BY <1>2, <1>3

\* Whatever order the answers arrive in, for any number of accounts, posts,
\* requests and pages of a list: an account sees no other's messages and posts, a
\* search shows what its address asks for, a user's page its own user, lists have
\* no gaps, and what is sent is about what is shown (web/src/pages).
THEOREM PagesKeepTheirSubject == PagesSpec => []PagesShowTheirSubject
<1> SUFFICES ASSUME PagesInv
             PROVE  PagesShowTheirSubject
  BY PagesInvariance, PTL
<1> DEFINE x == Topic(route, view, seen, version)
<1>1. /\ ViewInv(route, view, seen) /\ RequestsInv(req, Page) /\ ListInv(Page, view, x)
      /\ held \in MaybeToken /\ seen \in MaybeToken /\ route \in Routes
      /\ version \in 0 .. MaxVersion
  BY DEF PagesInv, PageInv, Page
<1>2. PagesTypeOK BY <1>1 DEF PagesTypeOK, ViewInv, RequestsInv
<1>3. ASSUME Page # "post", Page # "home", NEW p \in view.list
      PROVE  p[1] = x
  <2> HIDE DEF x
  <2>1. PICK y \in Subjects, m \in 0 .. LastPage :
            view.list = Run(y, m) /\ (m > 0 => y = x)
    BY <1>1, <1>3 DEF ListInv
  <2>2. PICK i \in 1 .. m : p = <<y, i>> BY <1>3, <2>1 DEF Run
  <2>3. m > 0 BY <2>1, <2>2, LastPageIs
  <2> QED BY <2>1, <2>2, <2>3
<1>4. OwnListsArePrivate
  BY <1>3 DEF OwnListsArePrivate, VisibleMessages, Topic, Page
<1>5. SearchAnswersItsQuery BY <1>3 DEF SearchAnswersItsQuery, Topic, Page
<1>6. UserPageIsOfItsUser
  <2>1. Page = "user" => view.target \in {None, route[2]} BY <1>1 DEF ViewInv, Page
  <2>2. Page = "user" /\ Visible => view.subject = route[2] BY DEF Visible
  <2>3. Page = "user" => x = view.subject BY DEF Topic, Page
  <2> QED BY <1>3, <2>1, <2>2, <2>3 DEF UserPageIsOfItsUser
<1>7. ListsAreWhole
  <2> SUFFICES ASSUME Page # "post"
               PROVE  /\ {p[2] : p \in view.list} = 1 .. Cardinality(view.list)
                      /\ \A p, q \in view.list : p[1] = q[1]
    BY DEF ListsAreWhole
  <2>1. PICK y \in Subjects, m \in 0 .. LastPage : view.list = Run(y, m)
    BY <1>1 DEF ListInv
  <2>2. m \in Nat BY LastPageIs
  <2>3. \A p, q \in Run(y, m) : p[1] = q[1] BY DEF Run
  <2> QED BY <2>1, <2>2, <2>3, RunsAreWhole
<1>8. RequestsMeanWhatIsShown
  <2> SUFFICES ASSUME NEW s \in Pending(Manages \cup {"like"})
               PROVE  req[s].about = req[s].shown
    BY DEF RequestsMeanWhatIsShown
  <2> QED BY <1>1 DEF Pending, RequestsInv, RequestInv
<1> QED BY <1>2, <1>4, <1>5, <1>6, <1>7, <1>8 DEF PagesShowTheirSubject
=============================================================================
