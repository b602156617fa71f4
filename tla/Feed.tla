-------------------------------- MODULE Feed --------------------------------
(***************************************************************************)
(* Reading posts while they are written: the feed and the lists of one     *)
(* user, scrolled page by page; the post page and its comments; hot posts; *)
(* and the search, whose two queries run in goroutines of their own.       *)
(*                                                                         *)
(* Sources: the read operations of post_service.go, comment_service.go,    *)
(* search_service.go and hot_post_service.go, their repositories, and the  *)
(* handler of the search.  The posts are those of Posts, with every step   *)
(* of its requests; a reader only reads.  A query sees one state of the    *)
(* table; what a reader does between two statements, others may undo.      *)
(*                                                                         *)
(* A reader is a client with its scroll: it asks for page after page while *)
(* more is offered, and keeps one copy of every post (mergeByID).          *)
(* Ids number the posts in the order of create_time, then id.  Rows of     *)
(* users never go, so the look-up of the user a list is about is left out. *)
(***************************************************************************)
EXTENDS Posts, Pages, FiniteSets

CONSTANTS
    Readers,        \* clients that read; each opens one page of the site
    Opened,         \* bound: Opened[d], what reader d may open
    Keyword,        \* the text the searches look for
    ListLimits,     \* pagination.DefaultPageSize, MaxPageSize, MaxOffset
    SearchLimits,   \* DefaultSearchPageSize, MaxSearchPageSize, MaxSearchOffset
    Sizes,          \* bound: the page sizes clients ask for
    HotLimit        \* TodayHotPostLimit

ASSUME FeedConstantsOK ==
    /\ PostIds \subseteq Nat
    /\ IsFiniteSet(PostIds)
    /\ Keyword \in Texts
    /\ {ListLimits, SearchLimits} \subseteq Limits
    /\ Sizes \subseteq 1 .. SearchLimits.largest \cap 1 .. ListLimits.largest
    /\ HotLimit \in Nat

VARIABLES
    ask,            \* ask[d]: what reader d has opened
    at,             \* at[d]: its next step
    page,           \* page[d]: the number of the page it asks for
    rows,           \* rows[d]: the posts the request under way has read
    full,           \* full[d]: whether that query found enough for another page
    search,         \* search[d]: the goroutines of a search
    shown,          \* shown[d]: the posts on its screen
    seen,           \* ghost: what d was entitled to since its request arrived
    kept, gaps      \* ghosts: what stayed in its list, how often it moved up

reader == <<ask, at, page, rows, full, search, shown>>
past == <<seen, kept, gaps>>
feedVars == <<vars, reader, past>>

Scrolled == {"feed", "byuser", "mine", "search"}
Single == {"post", "comments", "hot"}

\* A user whose posts are listed, or a post; the viewer is None for a guest.
Ask == [kind : Scrolled \cup Single, of : Users \cup PostIds \cup {None},
        viewer : Users \cup {None}, size : Sizes \cup {1}]

Halves == {"users", "posts"}
Causes == {"failed", "deadline", "sibling"}

ASSUME NoneIsNoCause == None \notin Causes

ASSUME NoneIsNoAsk == None \notin Ask

\* The locals of searchAll: how each goroutine ended, and firstErr; `late` is
\* set when the timeout of the handler has passed.
Search == [users : {"running", "done"} \cup Causes,
           posts : {"running", "done"} \cup Causes,
           first : Causes \cup {None}, late : BOOLEAN]
NoSearch == [users |-> "running", posts |-> "running", first |-> None, late |-> FALSE]

Reading == {"check", "query", "search", "fill"}
\* "between": a page is shown and more is offered; "end": nothing more is offered.
Resting == {"idle", "between", "end", "notfound", "error", "unavailable"}

FeedTypeOK ==
    /\ TypeOK
    /\ ask \in [Readers -> Ask \cup {None}]
    /\ at \in [Readers -> Reading \cup Resting]
    /\ page \in [Readers -> Nat \ {0}]
    /\ rows \in [Readers -> SUBSET PostIds]
    /\ full \in [Readers -> BOOLEAN]
    /\ search \in [Readers -> Search]
    /\ shown \in [Readers -> SUBSET PostIds]
    /\ seen \in [Readers -> SUBSET PostIds]
    /\ kept \in [Readers -> SUBSET PostIds]
    /\ gaps \in [Readers -> Nat]

FeedInit ==
    /\ Init
    /\ ask = [d \in Readers |-> None]
    /\ at = [d \in Readers |-> "idle"]
    /\ page = [d \in Readers |-> 1]
    /\ rows = [d \in Readers |-> {}]
    /\ full = [d \in Readers |-> FALSE]
    /\ search = [d \in Readers |-> NoSearch]
    /\ shown = [d \in Readers |-> {}]
    /\ seen = [d \in Readers |-> {}]
    /\ kept = [d \in Readers |-> {}]
    /\ gaps = [d \in Readers |-> 0]
-----------------------------------------------------------------------------
(* What the queries select *)

PublicPosts == {p \in PostIds : InScope(p) /\ posts[p].visible = "public"}
PostsBy(u) == {p \in PostIds : InScope(p) /\ posts[p].author = u}

Matches(p) == Keyword \in {posts[p].title, posts[p].content}

\* The rows a list is about, in the state it is asked for.
Mutant_AnyVisible(a) == CASE a.kind = "search" -> {p \in PostIds : InScope(p) /\ Matches(p)}
                          [] a.kind = "byuser" -> PublicPosts \cap PostsBy(a.of)
                          [] a.kind = "mine" -> PostsBy(a.of)
                          [] OTHER -> PublicPosts
Listing(a) == CASE a.kind = "search" -> {p \in PublicPosts : Matches(p)}
                [] a.kind = "byuser" -> PublicPosts \cap PostsBy(a.of)
                [] a.kind = "mine" -> PostsBy(a.of)
                [] OTHER -> PublicPosts

\* pinned_until > now, which is false for NULL.
IsPinned(p) == posts[p].pinnedUntil # None /\ posts[p].pinnedUntil > now

\* The first term of ORDER BY: pins lead the feed, titles lead a search.
Leads(a, p) == CASE a.kind = "feed" -> IsPinned(p)
                 [] a.kind = "search" -> posts[p].title = Keyword
                 [] OTHER -> FALSE

\* p is listed before q.
Precedes(a, p, q) ==
    IF Leads(a, p) = Leads(a, q) THEN p > q ELSE Leads(a, p)

Position(a, p) == Cardinality({q \in Listing(a) : Precedes(a, q, p)})

LimitsOf(a) == IF a.kind = "search" THEN SearchLimits ELSE ListLimits
QueryOf(d) == Query(page[d], ask[d].size)

\* OFFSET and LIMIT.
PageOf(d, a) ==
    LET first == Offset(LimitsOf(a), QueryOf(d))
    IN  {p \in Listing(a) : Position(a, p) \in first .. first + a.size - 1}

\* A search asks for one row too many, the other lists for a full page.
FindsMore(d, a) ==
    LET rest == Cardinality(Listing(a)) - Offset(LimitsOf(a), QueryOf(d))
    IN  IF a.kind = "search" THEN HasExtraRow(rest, QueryOf(d))
                             ELSE IsFull(rest, QueryOf(d))

\* A post page shows the author of a private post what it shows nobody else.
MayRead(viewer, p) ==
    InScope(p) /\ (posts[p].visible = "public" \/ posts[p].author = viewer)
Readable(a) == {p \in PostIds : MayRead(a.viewer, p)}
-----------------------------------------------------------------------------
(* Asking *)

\* What can be opened: the lists of a user by anyone or by that user, a post
\* by anyone, everything else by a guest.
Asks ==
    [kind : {"feed", "search", "hot"}, of : {None}, viewer : {None}, size : Sizes] \cup
    [kind : {"byuser"}, of : Users, viewer : {None}, size : Sizes] \cup
    [kind : {"post"}, of : PostIds, viewer : Users \cup {None}, size : {1}] \cup
    [kind : {"comments"}, of : PostIds, viewer : {None}, size : {1}] \cup
    {a \in [kind : {"mine"}, of : Users, viewer : Users, size : Sizes] : a.of = a.viewer}

FirstStatement(a) == CASE a.kind = "comments" -> "check"
                       [] a.kind = "search" -> "search"
                       [] OTHER -> "query"

Arrives(d, a) ==
    /\ at' = [at EXCEPT ![d] = FirstStatement(a)]
    /\ search' = [search EXCEPT ![d] = NoSearch]
    /\ seen' = [seen EXCEPT ![d] = Readable(a)]

Open(d) ==
    /\ at[d] = "idle"
    /\ \E a \in Asks \cap Opened[d] :
           /\ ask' = [ask EXCEPT ![d] = a]
           /\ Arrives(d, a)
           /\ kept' = [kept EXCEPT ![d] = IF a.kind \in Scrolled THEN Listing(a) ELSE {}]
    /\ UNCHANGED <<page, rows, full, shown, gaps>>

\* The client scrolls on, or repeats a request that failed.
LoadMore(d) ==
    /\ at[d] \in {"between", "error", "unavailable"}
    /\ Arrives(d, ask[d])
    /\ UNCHANGED <<ask, page, rows, full, shown, kept, gaps>>
-----------------------------------------------------------------------------
(* Statements *)

Continue(d, next) ==
    /\ at' = [at EXCEPT ![d] = next]
    /\ UNCHANGED <<ask, page, shown, past>>

Reads(d, found, more) ==
    /\ rows' = [rows EXCEPT ![d] = found]
    /\ full' = [full EXCEPT ![d] = more]

\* requirePublicPost, before the comments are read.
Mutant_ExistsIsEnough(p) == InScope(p)
HasComments(p) == InScope(p) /\ posts[p].visible = "public"

CheckPost(d) ==
    /\ at[d] = "check"
    /\ Continue(d, IF HasComments(ask[d].of) THEN "query" ELSE "notfound")
    /\ UNCHANGED <<rows, full, search>>

QueryList(d) ==
    /\ at[d] = "query" /\ ask[d].kind \in Scrolled
    /\ Reads(d, PageOf(d, ask[d]), FindsMore(d, ask[d]))
    /\ Continue(d, "fill")
    /\ UNCHANGED search

\* The comments of a post are read without its row; they stand for the post.
QueryComments(d) ==
    /\ at[d] = "query" /\ ask[d].kind = "comments"
    /\ Reads(d, {ask[d].of}, FALSE)
    /\ Continue(d, "fill")
    /\ UNCHANGED search

\* One statement reads the posts of yesterday and today with their counts.
\* Which posts are that young, and how they rank, may be anything.
QueryHot(d) ==
    /\ at[d] = "query" /\ ask[d].kind = "hot"
    /\ \E best \in SUBSET PublicPosts :
           /\ Cardinality(best) <= HotLimit
           /\ Reads(d, best, FALSE)
    /\ Continue(d, "fill")
    /\ UNCHANGED search

\* GetPostByID
QueryPost(d) ==
    /\ at[d] = "query" /\ ask[d].kind = "post"
    /\ IF MayRead(ask[d].viewer, ask[d].of)
       THEN Reads(d, {ask[d].of}, FALSE) /\ Continue(d, "fill")
       ELSE UNCHANGED <<rows, full>> /\ Continue(d, "notfound")
    /\ UNCHANGED search
-----------------------------------------------------------------------------
(* searchAll: two goroutines that share a context, and who waits for them *)

\* recordError: the first error stays, and cancels the other query.
Mutant_LastError(old, cause) == cause
FirstError(old, cause) == IF old = None THEN cause ELSE old

Recorded(s, half, cause) ==
    [s EXCEPT ![half] = cause, !.first = FirstError(@, cause)]

Fails(d, half, cause) ==
    /\ search' = [search EXCEPT ![d] = Recorded(@, half, cause)]
    /\ UNCHANGED <<rows, full>>

\* A query ends with its rows, with an error of its own, or because its
\* context has ended: by the deadline, or by the failure of the other half.
HalfEnds(d, half) ==
    /\ at[d] = "search" /\ search[d][half] = "running"
    /\ \/ /\ search' = [search EXCEPT ![d][half] = "done"]
          /\ IF half = "posts" THEN Reads(d, PageOf(d, ask[d]), FindsMore(d, ask[d]))
                               ELSE UNCHANGED <<rows, full>>
       \/ Fails(d, half, "failed")
       \/ search[d].late /\ Fails(d, half, "deadline")
       \/ search[d].first # None /\ Fails(d, half, "sibling")
    /\ Continue(d, "search")

\* wait.Wait() returns; the handler turns a passed deadline into a 503.
Mutant_FirstWins(d) == \E half \in Halves : search[d][half] # "running"
BothEnded(d) == \A half \in Halves : search[d][half] # "running"

FailureOf(d) == IF search[d].late THEN "unavailable" ELSE "error"

JoinSearch(d) ==
    /\ at[d] = "search" /\ BothEnded(d)
    /\ at' = [at EXCEPT ![d] = IF search[d].first = None THEN "fill" ELSE FailureOf(d)]
    /\ rows' = [rows EXCEPT ![d] = IF search[d].first = None THEN @ ELSE {}]
    /\ search' = [search EXCEPT ![d] = [NoSearch EXCEPT !.late = search[d].late]]
    /\ UNCHANGED <<ask, page, full, shown, past>>

\* The timer of the request's context.
Deadline(d) ==
    /\ at[d] \in {"search", "fill"} /\ ask[d].kind = "search"
    /\ ~search[d].late
    /\ search' = [search EXCEPT ![d].late = TRUE]
    /\ UNCHANGED <<ask, at, page, rows, full, shown, past>>
-----------------------------------------------------------------------------
(* Answering *)

Offered(d) == full[d] /\ NextIsAllowed(LimitsOf(ask[d]), QueryOf(d))

\* Authors and counts have been added, and the client shows the page.  The
\* locals of the request are gone.
Answer(d) ==
    /\ at[d] = "fill"
    /\ shown' = [shown EXCEPT ![d] = @ \cup rows[d]]
    /\ rows' = [rows EXCEPT ![d] = {}]
    /\ search' = [search EXCEPT ![d] = NoSearch]
    /\ seen' = [seen EXCEPT ![d] = {}]
    /\ IF Offered(d) THEN /\ page' = [page EXCEPT ![d] = @ + 1]
                          /\ at' = [at EXCEPT ![d] = "between"]
                     ELSE /\ at' = [at EXCEPT ![d] = "end"]
                          /\ UNCHANGED page
    /\ UNCHANGED <<ask, full, kept, gaps>>

\* A statement fails, or the client's context ends before it.
Fail(d) ==
    /\ at[d] \in {"check", "query", "fill"}
    /\ at' = [at EXCEPT ![d] = FailureOf(d)]
    /\ rows' = [rows EXCEPT ![d] = {}]
    /\ search' = [search EXCEPT ![d] = NoSearch]
    /\ seen' = [seen EXCEPT ![d] = {}]
    /\ UNCHANGED <<ask, page, full, shown, kept, gaps>>

Read(d) ==
    \/ Open(d)
    \/ LoadMore(d)
    \/ CheckPost(d)
    \/ QueryList(d)
    \/ QueryComments(d)
    \/ QueryHot(d)
    \/ QueryPost(d)
    \/ \E half \in Halves : HalfEnds(d, half)
    \/ JoinSearch(d)
    \/ Deadline(d)
    \/ Answer(d)
    \/ Fail(d)
-----------------------------------------------------------------------------
(* The ghosts watch the writers *)

\* The posts that leave the list of d in this step, or their place in it.
Moved(d) == {p \in Listing(ask[d]) : p \notin Listing(ask[d])'
                 \/ Leads(ask[d], p) # Leads(ask[d], p)'}

Watch ==
    /\ seen' = [d \in Readers |-> IF at[d] \in Reading
                    THEN seen[d] \cup Readable(ask[d])' ELSE seen[d]]
    /\ kept' = [d \in Readers |-> IF ask[d] = None
                    THEN kept[d] ELSE kept[d] \cap Listing(ask[d])']
    /\ gaps' = [d \in Readers |-> IF ask[d] = None \/ ask[d].kind \notin Scrolled
                    THEN gaps[d] ELSE gaps[d] + Cardinality(Moved(d))]

\* A step of a writer, or of a reader; readers change nothing of Posts.
FeedNext ==
    \/ Next /\ UNCHANGED reader /\ Watch
    \/ \E d \in Readers : Read(d) /\ UNCHANGED vars

FeedSpec == FeedInit /\ [][FeedNext]_feedVars
-----------------------------------------------------------------------------
(* Properties *)

\* Every post in an answer was public, or the reader's own, and not deleted at
\* some moment since the request arrived, whatever is hidden or deleted while
\* the request is on its way through its statements and goroutines.
NothingHiddenIsShown ==
    \A d \in Readers : at[d] = "fill" => rows[d] \subseteq seen[d]

\* Who scrolls to the end sees every post that was in the list all the while,
\* except for one at most for each time that a post left the list, was pinned
\* or lost its pin meanwhile.  New posts, posts that are shown again and failed
\* requests hide nothing: offsets and merging by id are enough for those.
EachGapHasItsCause ==
    \A d \in Readers :
        at[d] = "end" /\ ask[d].kind \in Scrolled /\ ~full[d] =>
            Cardinality(kept[d] \ shown[d]) <= gaps[d]

\* "Do not advertise a next page that BindPageQuery will necessarily reject"
\* (pagination.go): a page that is offered is accepted when it is asked for, now
\* or after failures, and a list is only cut where its limit is.
OffersAreHonoured ==
    \A d \in Readers : ask[d] # None =>
        /\ at[d] # "end" => IsBindable(LimitsOf(ask[d]), page[d], ask[d].size)
        /\ at[d] = "end" /\ full[d] => page[d] * ask[d].size > LimitsOf(ask[d]).offset

\* A search that fails reports what went wrong first, never the cancellation
\* that it caused itself, and "unavailable" when its time was up; one that goes
\* on has both halves, and no goroutine is left running behind the answer.
SearchEndsWhole ==
    \A d \in Readers : at[d] = "search" /\ at'[d] # "search" =>
        /\ \A half \in Halves : search[d][half] # "running"
        /\ search[d].first # "sibling"
        /\ search[d].first = "deadline" => at'[d] = "unavailable"
        /\ at'[d] = "fill" => \A half \in Halves : search[d][half] = "done"
SearchesEndWhole == [][SearchEndsWhole]_feedVars
=============================================================================
