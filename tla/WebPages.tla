------------------------------ MODULE WebPages ------------------------------
(***************************************************************************)
(* The pages of the web client that load data piece by piece: the feed, a  *)
(* user's page, a post, the search, the reader's own posts and the private *)
(* messages.  One of them is mounted; its requests are answered in any     *)
(* order, while the reader goes from page to page, logs in and out, and    *)
(* starts other requests.                                                  *)
(*                                                                         *)
(* Sources: web/src/pages/{Home,User,Post,Search,Me,Messages}Page.tsx.     *)
(* Going from one user, post or query to the next keeps the component,     *)
(* with its state and its pending requests; going to another page drops    *)
(* them, and what they would still set is ignored.  A page compares        *)
(* generations, or aborts a request, to be rid of a late answer: here a    *)
(* request is `current` until its page does so.  The session is that of    *)
(* WebSession; `held` is what isCurrentSession compares with, `seen` what  *)
(* was rendered.                                                           *)
(***************************************************************************)
EXTENDS WebTokens, Naturals, FiniteSets

CONSTANTS
    Who,            \* Who[k]: the account of token k
    Admins,         \* accounts that are administrators
    Ids,            \* the ids in /u/:id and /post/:id, the queries of a search
    LastPage,       \* every list of the server has this many pages
    Slots,          \* bound: requests under way
    MaxVersion      \* bound: how often the content is refreshed

ASSUME ConstantsOK ==
    /\ LastPage \in Nat \ {0} /\ MaxVersion \in Nat
    /\ None \notin Tokens \cup Ids \cup {Who[k] : k \in Tokens}
    /\ IsFiniteSet(Slots)

VARIABLES
    held,           \* tokenRef.current
    seen,           \* the token of the last rendering
    route,          \* the page mounted, and the id in its address
    view,           \* the state of that page
    req,            \* the requests under way
    version         \* contentVersion

pagesVars == <<held, seen, route, view, req, version>>

Accounts == {Who[k] : k \in Tokens}
OwnerKey(k) == IF k = None THEN None ELSE Who[k]
IsAdmin(k) == k # None /\ Who[k] \in Admins

Routes == ({"user", "post", "search"} \X Ids)
          \cup ({"home", "me", "messages"} \X {None})

\* What the pieces of a list are about: an account's messages or own posts, a
\* user's or a post's list, a query, or the feed at a content version.
Subjects == Accounts \cup Ids \cup (0 .. MaxVersion) \cup {None}

\* subject: the profile, post or message owner the page holds; list: the
\* pieces it shows; muted: the status shown of the profile; target: the user
\* the dialog for resetting a password is open for.
View == [subject : Subjects, list : SUBSET (Subjects \X (0 .. LastPage)),
         pageNo : 1 .. LastPage, hasMore : BOOLEAN, loading : BOOLEAN,
         loadingMore : BOOLEAN, failed : BOOLEAN, muted : BOOLEAN,
         target : Ids \cup {None}]

Loads == {"first", "more", "comments"}
Manages == {"mute", "unmute", "reset"}
RequestKinds == Loads \cup Manages \cup
         {"submit", "card", "like", "pin", "delete", "comment", "uncomment"}

\* here: the component is still mounted; shown: the subject the page showed
\* when the request was sent; after: it follows a submitted message.
Request == [kind : RequestKinds, page : {r[1] : r \in Routes}, about : Subjects,
            n : 0 .. LastPage, token : MaybeToken, current : BOOLEAN,
            here : BOOLEAN, shown : Subjects, after : BOOLEAN]

PagesTypeOK ==
    /\ held \in MaybeToken /\ seen \in MaybeToken
    /\ route \in Routes
    /\ view \in View
    /\ req \in [Slots -> Request \cup {None}]
    /\ version \in 0 .. MaxVersion
-----------------------------------------------------------------------------
(* Requests *)

Page == route[1]
Pending(kinds) == {s \in Slots : req[s] # None /\ req[s].kind \in kinds}
Own(kinds) == {s \in Pending(kinds) : req[s].here}

New(kind, page, about, n, k) ==
    [kind |-> kind, page |-> page, about |-> about, n |-> n, token |-> k,
     current |-> TRUE, here |-> TRUE, shown |-> view.subject, after |-> FALSE]

\* The requests rs with one more.
Send(rs, r) == \E s \in Slots : rs[s] = None /\ req' = [rs EXCEPT ![s] = r]

\* ++generation: no request of these kinds is current any more.
Bumped(rs, kinds) ==
    [s \in Slots |-> IF rs[s] # None /\ rs[s].kind \in kinds
                     THEN [rs[s] EXCEPT !.current = FALSE] ELSE rs[s]]

\* The page is gone.  Without a token its requests can do nothing any more.
Detached(rs) ==
    [s \in Slots |-> IF rs[s] = None \/ rs[s].token = None THEN None
                     ELSE [rs[s] EXCEPT !.here = FALSE, !.current = FALSE]]

Without(s) == [req EXCEPT ![s] = None]

IsCurrentSession(k) == held = k
Mutant_Any(r) == TRUE
IsCurrent(r) == r.current
-----------------------------------------------------------------------------
(* Loading the first page: what each page does to its state, and its request *)

Blank == [subject |-> None, list |-> {}, pageNo |-> 1, hasMore |-> FALSE,
          loading |-> TRUE, loadingMore |-> FALSE, failed |-> FALSE,
          muted |-> FALSE, target |-> None]

\* loadFirstPage of the feed keeps the posts until the new ones are there.
LoadFeed(v, rs, edition) ==
    /\ view' = [v EXCEPT !.loading = TRUE, !.loadingMore = FALSE,
                         !.hasMore = FALSE, !.failed = FALSE]
    /\ Send(Bumped(rs, Loads), New("first", "home", edition, 1, None))

Mutant_Keep(v) == [v EXCEPT !.loading = TRUE, !.failed = FALSE]
\* loadProfile clears the page first, the dialog included.
Cleared(v) == [v EXCEPT !.subject = None, !.list = {}, !.pageNo = 1,
                        !.hasMore = FALSE, !.loading = TRUE, !.loadingMore = FALSE,
                        !.failed = FALSE, !.muted = FALSE, !.target = None]

LoadProfile(v, rs, id) ==
    /\ view' = Cleared(v)
    /\ Send(Bumped(rs, Loads), New("first", "user", id, 1, None))

\* loadPost keeps what is shown, and counts no generation.
LoadPost(v, rs, id, k) ==
    /\ view' = [v EXCEPT !.loading = TRUE, !.failed = FALSE]
    /\ Send(rs, New("first", "post", id, 1, k))

\* The effect on the message page's owner clears the list and loads it; a
\* pending submission is aborted with the loads.
LoadMessages(rs, k) ==
    /\ view' = [Blank EXCEPT !.subject = OwnerKey(k), !.loading = k # None]
    /\ LET old == Bumped(rs, Loads \cup {"submit"}) IN
       IF k = None THEN req' = old
       ELSE Send(old, New("first", "messages", OwnerKey(k), 1, k))

\* The effect of the search clears the results of the last query.
LoadSearch(rs, query) ==
    /\ view' = Blank
    /\ Send(Bumped(rs, Loads), New("first", "search", query, 1, None))

\* loadPosts of the reader's own page keeps the list until the new one is
\* there; with another session the layout effect has cleared it before.
LoadMine(v, rs, k) ==
    IF k = None
    THEN /\ view' = [Blank EXCEPT !.loading = FALSE]
         /\ req' = Bumped(rs, Loads)
    ELSE /\ view' = [v EXCEPT !.loading = TRUE, !.loadingMore = FALSE, !.failed = FALSE]
         /\ Send(Bumped(rs, Loads), New("first", "me", OwnerKey(k), 1, k))

\* What a page does when it is mounted with view v and requests rs.
Load(r, v, rs, k) ==
    CASE r[1] = "home"     -> LoadFeed(v, rs, version)
      [] r[1] = "user"     -> LoadProfile(v, rs, r[2])
      [] r[1] = "post"     -> LoadPost(v, rs, r[2], k)
      [] r[1] = "search"   -> LoadSearch(rs, r[2])
      [] r[1] = "me"       -> LoadMine(v, rs, k)
      [] r[1] = "messages" -> LoadMessages(rs, k)

PagesInit ==
    /\ held = None /\ seen = None /\ version = 0
    /\ route = <<"home", None>>
    /\ view = Blank
    /\ \E s \in Slots :
          req = [x \in Slots |-> IF x # s THEN None ELSE
                  [kind |-> "first", page |-> "home", about |-> 0, n |-> 1,
                   token |-> None, current |-> TRUE, here |-> TRUE,
                   shown |-> None, after |-> FALSE]]
-----------------------------------------------------------------------------
(* The reader moves, logs in or out; content changes *)

Navigate(r) ==
    /\ r # route
    /\ route' = r /\ seen' = held
    /\ IF r[1] = Page THEN Load(r, view, req, held)
       ELSE Load(r, Blank, Detached(req), held)
    /\ UNCHANGED <<held, version>>

SessionStarts(k) ==
    /\ held = None /\ held' = k
    /\ UNCHANGED <<seen, route, view, req, version>>

SessionEnds ==
    /\ held # None /\ held' = None
    /\ UNCHANGED <<seen, route, view, req, version>>

\* Rendering with another token: the effects that depend on it.
Rerender ==
    /\ seen # held /\ seen' = held
    /\ CASE Page = "messages" -> LoadMessages(req, held)
         [] Page = "me" -> LoadMine(Blank, req, held)
         [] Page = "post" -> LoadPost(view, req, route[2], held)
         [] Page = "user" -> /\ view' = IF IsAdmin(held) THEN view
                                        ELSE [view EXCEPT !.target = None]
                             /\ UNCHANGED req
         [] OTHER -> UNCHANGED <<view, req>>
    /\ UNCHANGED <<held, route, version>>

\* refreshContent: the feed, a post and the reader's posts are loaded again.
RefreshContent(rs) ==
    /\ version < MaxVersion /\ version' = version + 1
    /\ CASE Page = "home" -> LoadFeed(view, rs, version + 1)
         [] Page = "post" -> LoadPost(view, rs, route[2], seen)
         [] Page = "me" -> LoadMine(view, rs, seen)
         [] OTHER -> req' = rs /\ UNCHANGED view

\* Something was published or edited in the composer.
Refresh == RefreshContent(req) /\ UNCHANGED <<held, seen, route>>
-----------------------------------------------------------------------------
(* What the reader may ask for on a page *)

\* The user page and the post page show a skeleton or an error otherwise; the
\* user page also when the profile is not that of its address.
Visible ==
    /\ ~view.loading /\ ~view.failed /\ view.subject # None
    /\ Page = "user" => view.subject = route[2]

MayLoadMore ==
    /\ view.hasMore /\ ~view.loadingMore
    /\ CASE Page \in {"home", "search"} -> ~view.loading
         [] Page = "me" -> seen # None /\ ~view.loading
         [] Page = "messages" -> seen # None
         [] OTHER -> Visible

\* The lists of the reader's own account are asked for with its token.
OwnList == Page \in {"me", "messages"}

LoadMore ==
    /\ MayLoadMore
    /\ Send(req, New("more", Page, CASE Page = "home" -> version
                                     [] OwnList -> OwnerKey(seen)
                                     [] OTHER -> route[2],
                     view.pageNo + 1, IF OwnList THEN seen ELSE None))
    /\ view' = [view EXCEPT !.loadingMore = TRUE]
    /\ UNCHANGED <<held, seen, route, version>>

Ask(kind, about) ==
    /\ Send(req, New(kind, Page, about, 0, seen))
    /\ UNCHANGED <<held, seen, route, view, version>>

SubmitMessage ==
    /\ Page = "messages" /\ seen # None /\ ~IsAdmin(seen)
    /\ \A s \in Own(RequestKinds) :
           req[s].current => req[s].kind # "submit" /\ ~req[s].after
    /\ Ask("submit", OwnerKey(seen))

\* An administrator mutes or unmutes the user shown.
ToggleMuted ==
    /\ Page = "user" /\ Visible /\ IsAdmin(seen)
    /\ Own(Manages) = {}
    /\ Ask(IF view.muted THEN "unmute" ELSE "mute", view.subject)

OpenResetDialog ==
    /\ Page = "user" /\ Visible /\ IsAdmin(seen)
    /\ Own(Manages) = {} /\ view.target = None
    /\ view' = [view EXCEPT !.target = view.subject]
    /\ UNCHANGED <<held, seen, route, req, version>>

ResetPassword ==
    /\ Page = "user" /\ view.target # None /\ Own({"reset"}) = {}
    /\ IF /\ IsAdmin(seen) /\ Visible
          /\ view.subject = route[2] /\ view.target = route[2]
       THEN Ask("reset", view.target)
       ELSE /\ view' = [view EXCEPT !.target = None]
            /\ UNCHANGED <<held, seen, route, req, version>>

\* An operation of a card in the list of a user's posts.
CardOperation ==
    /\ Page = "user" /\ Visible /\ IsAdmin(seen)
    /\ Ask("card", route[2])

ToggleLike ==
    /\ Page = "post" /\ Visible /\ seen # None
    /\ view.subject = route[2]
    /\ Own({"like"}) = {}
    /\ Ask("like", route[2])

\* Pinning, deleting and commenting take the id of the address; a comment is
\* deleted by the id of its own.
PostOperation(kind) ==
    /\ Page = "post" /\ Visible /\ seen # None
    /\ kind \in {"pin", "delete"} => IsAdmin(seen) /\ Own({"pin", "delete"}) = {}
    /\ kind \in {"comment", "uncomment"} => Own({kind}) = {}
    /\ kind = "uncomment" => view.list # {}
    /\ Ask(kind, route[2])
-----------------------------------------------------------------------------
(* Answers *)

\* handleSessionError on a 401: the session of that very token ends.
Unauthorized(r) == held' = IF IsCurrentSession(r.token) THEN None ELSE held

Piece(r) == <<r.about, r.n>>
Mutant_Always(n) == TRUE
HasMore(n) == n < LastPage
NoChange == UNCHANGED <<held, view>>

\* Whether the page still wants the answer to a load.
Wanted(r) ==
    /\ r.here
    /\ r.page # "post" => IsCurrent(r)
    /\ r.token # None => IsCurrentSession(r.token)

FirstAnswered(r) ==
    [view EXCEPT !.list = {Piece(r)}, !.pageNo = 1,
                 !.hasMore = HasMore(1), !.loading = FALSE,
                 !.subject = IF r.page = "user" THEN r.about ELSE @]

AnswerFirst(s) ==
    LET r == req[s] IN
    /\ req[s] # None /\ r.kind = "first" /\ r.page # "post"
    /\ \/ /\ Wanted(r)
          /\ \E m \in BOOLEAN :
                view' = [FirstAnswered(r) EXCEPT !.muted = r.page = "user" /\ m]
          /\ UNCHANGED held
       \/ /\ Wanted(r)
          /\ view' = [view EXCEPT !.failed = TRUE, !.loading = FALSE]
          /\ UNCHANGED held
       \/ Wanted(r) /\ r.token # None /\ Unauthorized(r) /\ UNCHANGED view
       \/ ~Wanted(r) /\ NoChange
    /\ req' = Without(s)
    /\ UNCHANGED <<seen, route, version>>

\* loadPost fails.  A 401 leaves it loading: rendering without the token loads
\* the post again.  It ends the session even if the page is gone.
PostFails(s) ==
    LET r == req[s] IN
    /\ r.token # None => IsCurrentSession(r.token)
    /\ \E refused \in {FALSE, r.token # None} :
          /\ IF refused THEN Unauthorized(r) ELSE UNCHANGED held
          /\ view' = IF r.here THEN [view EXCEPT !.failed = TRUE,
                                               !.loading = refused /\ @] ELSE view
    /\ req' = Without(s)

\* getPost: the detail, and for a public post its comments.
AnswerPost(s) ==
    LET r == req[s] IN
    /\ req[s] # None /\ r.kind = "first" /\ r.page = "post"
    /\ \/ /\ Wanted(r)
          /\ \/ /\ view' = [view EXCEPT !.subject = r.about]
                /\ req' = [req EXCEPT ![s].kind = "comments"]
             \/ /\ view' = [view EXCEPT !.subject = r.about, !.list = {},
                                        !.hasMore = FALSE, !.loading = FALSE]
                /\ req' = Without(s)
          /\ UNCHANGED held
       \/ PostFails(s)
       \/ ~Wanted(r) /\ NoChange /\ req' = Without(s)
    /\ UNCHANGED <<seen, route, version>>

AnswerComments(s) ==
    LET r == req[s] IN
    /\ req[s] # None /\ r.kind = "comments"
    /\ \/ /\ Wanted(r)
          /\ view' = [view EXCEPT !.list = {Piece(r)}, !.pageNo = 1,
                                  !.loading = FALSE, !.hasMore = HasMore(1)]
          /\ req' = Without(s) /\ UNCHANGED held
       \/ PostFails(s)
       \/ ~Wanted(r) /\ NoChange /\ req' = Without(s)
    /\ UNCHANGED <<seen, route, version>>

MoreAnswered(r) ==
    [view EXCEPT !.list = @ \cup {Piece(r)}, !.pageNo = r.n,
                 !.hasMore = HasMore(r.n), !.loadingMore = FALSE]

AnswerMore(s) ==
    LET r == req[s] IN
    /\ req[s] # None /\ r.kind = "more"
    /\ \/ Wanted(r) /\ view' = MoreAnswered(r) /\ UNCHANGED held
       \/ Wanted(r) /\ view' = [view EXCEPT !.loadingMore = FALSE] /\ UNCHANGED held
       \/ Wanted(r) /\ r.token # None /\ Unauthorized(r) /\ UNCHANGED view
       \/ ~Wanted(r) /\ NoChange
    /\ req' = Without(s)
    /\ UNCHANGED <<seen, route, version>>

\* A message is delivered: its list is loaded again with the old callback.
AnswerSubmit(s) ==
    LET r == req[s] IN
    /\ req[s] # None /\ r.kind = "submit"
    /\ IF r.here /\ IsCurrent(r) /\ IsCurrentSession(r.token) /\ seen = r.token
       THEN \/ /\ view' = [view EXCEPT !.pageNo = 1, !.hasMore = FALSE,
                                       !.loadingMore = FALSE, !.loading = TRUE]
               /\ req' = [Bumped(req, Loads) EXCEPT ![s] =
                            [New("first", "messages", r.about, 1, r.token)
                               EXCEPT !.after = TRUE]]
               /\ UNCHANGED held
            \/ req' = Without(s) /\ NoChange
            \/ req' = Without(s) /\ Unauthorized(r) /\ UNCHANGED view
       ELSE req' = Without(s) /\ NoChange
    /\ UNCHANGED <<seen, route, version>>

\* Answers that arrive after the session has changed are passed over.
Late(r) == ~IsCurrentSession(r.token)

\* The status is laid over whatever profile is there now.
AnswerManage(s) ==
    LET r == req[s]
        done == IF r.kind = "reset" THEN [view EXCEPT !.target = None]
                ELSE [view EXCEPT !.muted = IF view.subject = None THEN @
                                            ELSE r.kind = "mute"]
        refused == IF r.kind = "reset" THEN [view EXCEPT !.target = None] ELSE view
    IN
    /\ req[s] # None /\ r.kind \in Manages
    /\ \/ ~Late(r) /\ view' = (IF r.here THEN done ELSE view) /\ UNCHANGED held
       \/ ~Late(r) /\ view' = (IF r.here THEN refused ELSE view) /\ Unauthorized(r)
       \/ NoChange
    /\ req' = Without(s)
    /\ UNCHANGED <<seen, route, version>>

\* A card refreshes the content and calls the onChanged it was rendered with:
\* loadProfile of the user whose page that was, whoever's page this is by now.
AnswerCard(s) ==
    LET r == req[s] IN
    /\ req[s] # None /\ r.kind = "card"
    /\ \/ /\ ~Late(r) /\ r.here
          /\ version < MaxVersion /\ version' = version + 1
          /\ LoadProfile(view, Without(s), r.about) /\ UNCHANGED held
       \/ ~Late(r) /\ ~r.here /\ RefreshContent(Without(s)) /\ UNCHANGED held
       \/ /\ ~Late(r) /\ Unauthorized(r)
          /\ req' = Without(s) /\ UNCHANGED <<view, version>>
       \/ NoChange /\ req' = Without(s) /\ UNCHANGED version
    /\ UNCHANGED <<seen, route>>

\* The answers on a post: a comment is appended to the list there is; one
\* that is gone leaves the rest of its page.
AnswerPostOperation(s) ==
    LET r == req[s] IN
    /\ req[s] # None /\ r.kind \in {"like", "pin", "comment", "uncomment"}
    /\ \/ /\ ~Late(r) /\ r.kind = "comment" /\ r.here
          /\ view' = [view EXCEPT !.list = @ \cup {Piece(r)}]
          /\ UNCHANGED held
       \/ ~Late(r) /\ Unauthorized(r) /\ UNCHANGED view
       \/ NoChange
    /\ req' = Without(s)
    /\ UNCHANGED <<seen, route, version>>

\* The page of a deleted post gives way to the feed, as does any page that is
\* there when the answer arrives.
AnswerDelete(s) ==
    LET r == req[s] IN
    /\ req[s] # None /\ r.kind = "delete"
    /\ \/ /\ ~Late(r) /\ Page # "home"
          /\ route' = <<"home", None>> /\ seen' = held
          /\ Load(<<"home", None>>, Blank, Detached(Without(s)), held)
          /\ UNCHANGED held
       \/ /\ UNCHANGED held \/ (~Late(r) /\ Unauthorized(r))
          /\ req' = Without(s)
          /\ UNCHANGED <<seen, route, view>>
    /\ UNCHANGED version

Answer(s) ==
    \/ AnswerFirst(s) \/ AnswerPost(s) \/ AnswerComments(s) \/ AnswerMore(s)
    \/ AnswerSubmit(s) \/ AnswerManage(s) \/ AnswerCard(s)
    \/ AnswerPostOperation(s) \/ AnswerDelete(s)

PagesNext ==
    \/ \E r \in Routes : Navigate(r)
    \/ \E k \in Tokens : SessionStarts(k)
    \/ SessionEnds \/ Rerender \/ Refresh \/ LoadMore
    \/ SubmitMessage \/ ToggleMuted \/ OpenResetDialog \/ ResetPassword
    \/ CardOperation \/ ToggleLike
    \/ \E kind \in {"pin", "delete", "comment", "uncomment"} : PostOperation(kind)
    \/ \E s \in Slots : Answer(s)

PagesSpec == PagesInit /\ [][PagesNext]_pagesVars
-----------------------------------------------------------------------------
(* Properties *)

\* Private messages and own posts are only shown to their account.
VisibleMessages == IF view.subject = OwnerKey(seen) THEN view.list ELSE {}
OwnListsArePrivate ==
    /\ Page = "messages" => \A p \in VisibleMessages : p[1] = OwnerKey(seen)
    /\ Page = "me" => \A p \in view.list : p[1] = OwnerKey(seen)

\* The results shown are those of the query in the address.
SearchAnswersItsQuery == Page = "search" => \A p \in view.list : p[1] = route[2]

\* A user's page shows that user's posts, and no dialog for another user.
UserPageIsOfItsUser ==
    Page = "user" => /\ Visible => \A p \in view.list : p[1] = route[2]
                     /\ view.target \in {None, route[2]}

\* A list with "load more" has no gap, and its pieces are of one subject.
ListsAreWhole ==
    Page # "post" => /\ {p[2] : p \in view.list} = 1 .. Cardinality(view.list)
                     /\ \A p, q \in view.list : p[1] = q[1]

\* Muting, resetting and liking are sent for the user or post that is shown.
RequestsMeanWhatIsShown ==
    \A s \in Pending(Manages \cup {"like"}) : req[s].about = req[s].shown

\* Whatever order the answers arrive in, the pages show what belongs there and
\* their state stays within its types.
PagesShowTheirSubject ==
    /\ PagesTypeOK /\ OwnListsArePrivate /\ SearchAnswersItsQuery /\ UserPageIsOfItsUser
    /\ ListsAreWhole /\ RequestsMeanWhatIsShown

\* UserPage.tsx:38, "avoid that out-of-order answers ... act on the wrong
\* user": the status shown of a user does not change by an answer about
\* another.
AnswersMindTheirUser ==
    [][\A s \in Pending({"mute", "unmute"}) :
          /\ req'[s] = None /\ view'.muted # view.muted
          => view.subject = req[s].about]_pagesVars
=============================================================================
