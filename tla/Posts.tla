------------------------------- MODULE Posts -------------------------------
(***************************************************************************)
(* Creating, editing, hiding, pinning and deleting posts, as concurrent    *)
(* HTTP requests of authors and administrators.                            *)
(*                                                                         *)
(* Sources: internal/service/post_service.go and the post repository.      *)
(* PostService reads rows, decides, and writes with a later statement;     *)
(* every statement is one step.  A deleted row stays in the table (GORM's  *)
(* soft delete) and is outside the scope of every statement.  MySQL counts *)
(* as affected only the rows a statement has really changed.               *)
(***************************************************************************)
EXTENDS Naturals

CONSTANTS
    Users,          \* rows of the users table
    Admins,         \* accounts whose username is in ADMIN_USERS
    PostIds,        \* ids of posts
    FirstPosts,     \* the posts that exist at the start
    FirstRow,       \* FirstRow[p]: the row of such a post
    Texts,          \* titles and bodies
    Durations,      \* the limited pin durations, in clock ticks
    Permanent,      \* PermanentPostPinnedUntil, the year 9999
    Requests,       \* HTTP requests; each is issued once
    Workload,       \* bound: Workload[r], the inputs request r may have
    Mutable,        \* bound: the accounts an administrator mutes and unmutes
    MaxTime,        \* bound: the clock stops here
    None            \* NULL, or a JSON field that was not given

Visibilities == {"public", "private"}

\* A row of the posts table.
Post == [author : Users, title : Texts, content : Texts,
         visible : Visibilities, pinnedUntil : Nat \cup {None},
         deleted : BOOLEAN]

ASSUME ConstantsOK ==
    /\ Admins \subseteq Users
    /\ Mutable \subseteq Users
    /\ FirstPosts \subseteq PostIds
    /\ FirstRow \in [FirstPosts -> Post]
    /\ \A p \in FirstPosts :
           FirstRow[p].visible = "private" => FirstRow[p].pinnedUntil = None
    /\ Durations \subseteq Nat
    /\ MaxTime \in Nat
    /\ Permanent \in Nat
    /\ None \notin Nat \cup Texts \cup Post

VARIABLES
    posts,          \* the posts table, by id
    status,         \* status[u]: "normal" or "muted"
    now,            \* the clock of the server
    req, pc         \* each request: its local variables, its next step

vars == <<posts, status, now, req, pc>>

Statuses == {"normal", "muted"}

Pinning == {"pin", "unpin"}
Kinds == {"create", "edit", "visible", "delete"} \cup Pinning

\* The locals of a request, one shape for all kinds.  `row` is the post as it
\* was read, with the given fields of an edit laid over it.
Request == [kind : Kinds, actor : Users, post : PostIds \cup {None},
            title : Texts \cup {None}, content : Texts \cup {None},
            visible : Visibilities \cup {None},
            duration : Durations \cup {Permanent, None},
            row : Post \cup {None}, until : Nat \cup {None}, attempt : 1 .. 2]

Steps == {"actor", "post", "admin", "insert", "write", "reread"}
Answers == {"ok", "rejected", "notfound", "error"}

TypeOK ==
    /\ posts \in [PostIds -> Post \cup {None}]
    /\ status \in [Users -> Statuses]
    /\ now \in Nat
    /\ req \in [Requests -> Request \cup {None}]
    /\ pc \in [Requests -> Steps \cup Answers \cup {"idle"}]

NewPost(author, title, content) ==
    [author |-> author, title |-> title, content |-> content,
     visible |-> "public", pinnedUntil |-> None, deleted |-> FALSE]

Init ==
    /\ posts = [p \in PostIds |-> IF p \in FirstPosts THEN FirstRow[p]
                                                        ELSE None]
    /\ status = [u \in Users |-> "normal"]
    /\ now = 0
    /\ req = [r \in Requests |-> None]
    /\ pc = [r \in Requests |-> "idle"]
-----------------------------------------------------------------------------
Kind(r) == req[r].kind
Actor(r) == req[r].actor
PostOf(r) == posts[req[r].post]
IsAuthor(r) == PostOf(r).author = Actor(r)

\* GORM's scope of a statement on one post: the row is there and not deleted.
Mutant_Unscoped(p) == posts[p] # None
InScope(p) == posts[p] # None /\ ~posts[p].deleted

IsActive(u) == status[u] = "normal"

Goto(r, step) ==
    /\ pc' = [pc EXCEPT ![r] = step]
    /\ UNCHANGED req

Reply(r, answer) ==
    /\ pc' = [pc EXCEPT ![r] = answer]
    /\ req' = [req EXCEPT ![r] = None]

\* A write whose acknowledgement is lost is answered as an error.
ReplyWritten(r) == \E answer \in {"ok", "error"} : Reply(r, answer)
-----------------------------------------------------------------------------
(* Arrival.  Auth has just loaded the user; RequireActiveUser looks at it. *)

Blank(kind, u, p) ==
    [kind |-> kind, actor |-> u, post |-> p, title |-> None, content |-> None,
     visible |-> None, duration |-> None, row |-> None, until |-> None,
     attempt |-> 1]

\* The title and the content a client sends.
WithTexts(input, title, content) ==
    [input EXCEPT !.title = title, !.content = content]

\* The requests user u can make.  An edit gives at least one of the two texts.
Inputs(u) ==
    {WithTexts(Blank("create", u, None), t, c) : t \in Texts, c \in Texts} \cup
    ({WithTexts(Blank("edit", u, p), t, c) :
        p \in PostIds, t \in Texts \cup {None}, c \in Texts \cup {None}}
     \ {Blank("edit", u, p) : p \in PostIds}) \cup
    {[Blank("visible", u, p) EXCEPT !.visible = v] :
        p \in PostIds, v \in Visibilities} \cup
    {[Blank("pin", u, p) EXCEPT !.duration = d] :
        p \in PostIds, d \in Durations \cup {Permanent}} \cup
    {Blank(k, u, p) : k \in {"unpin", "delete"}, p \in PostIds}

ASSUME WorkloadOK ==
    \A r \in Requests : Workload[r] \subseteq UNION {Inputs(u) : u \in Users}

\* UpdatePost reads the post first, every other operation the actor.
FirstStep(kind) == IF kind = "edit" THEN "post" ELSE "actor"

Begin(r) ==
    /\ pc[r] = "idle"
    /\ \E input \in Workload[r] :
           IF IsActive(input.actor)
           THEN /\ pc' = [pc EXCEPT ![r] = FirstStep(input.kind)]
                /\ req' = [req EXCEPT ![r] = input]
           ELSE Reply(r, "rejected")
    /\ UNCHANGED <<posts, status, now>>
-----------------------------------------------------------------------------
(* Checks *)

AfterActor(kind) == CASE kind = "create" -> "insert"
                      [] kind = "edit" -> "write"
                      [] OTHER -> "post"

\* requireActiveActor and requireAdmin
CheckActor(r) ==
    /\ pc[r] = "actor"
    /\ IF IsActive(Actor(r)) /\ (Kind(r) \in Pinning => Actor(r) \in Admins)
       THEN Goto(r, AfterActor(Kind(r)))
       ELSE Reply(r, "rejected")
    /\ UNCHANGED <<posts, status, now>>

Mutant_AsGiven(value, default) == value
Given(value, default) == IF value = None THEN default ELSE value

\* The row that was read, with the fields the client has given.
Overlaid(r) == [PostOf(r) EXCEPT !.title = Given(req[r].title, @),
                                 !.content = Given(req[r].content, @)]

PinnedUntil(duration) == IF duration = Permanent THEN Permanent
                                                 ELSE now + duration

\* FindPostByID, and what each operation concludes from the row it gets.
ReadPost(r) ==
    /\ pc[r] = "post"
    /\ \/ /\ ~InScope(req[r].post)
          /\ Reply(r, "notfound")
       \/ /\ InScope(req[r].post)
          /\ Kind(r) \in {"edit", "visible"} /\ ~IsAuthor(r)
          /\ Reply(r, "rejected")
       \/ /\ InScope(req[r].post)
          /\ Kind(r) = "edit" /\ IsAuthor(r)
          /\ req' = [req EXCEPT ![r].row = Overlaid(r)]
          /\ pc' = [pc EXCEPT ![r] = "actor"]
       \/ /\ InScope(req[r].post)
          /\ Kind(r) = "delete"
          /\ Goto(r, IF IsAuthor(r) THEN "write" ELSE "admin")
       \/ /\ InScope(req[r].post)
          /\ Kind(r) = "pin" /\ PostOf(r).visible = "private"
          /\ Reply(r, "rejected")
       \/ /\ InScope(req[r].post)
          /\ Kind(r) = "pin" /\ PostOf(r).visible = "public"
          /\ req' = [req EXCEPT ![r].until = PinnedUntil(req[r].duration)]
          /\ pc' = [pc EXCEPT ![r] = "write"]
       \/ /\ InScope(req[r].post)
          /\ Kind(r) = "unpin" \/ (Kind(r) = "visible" /\ IsAuthor(r))
          /\ Goto(r, "write")
    /\ UNCHANGED <<posts, status, now>>

\* requireAuthorOrAdmin of someone who is not the author
CheckAdmin(r) ==
    /\ pc[r] = "admin"
    /\ IF Actor(r) \in Admins THEN Goto(r, "write") ELSE Reply(r, "rejected")
    /\ UNCHANGED <<posts, status, now>>
-----------------------------------------------------------------------------
(* Writes *)

Insert(r) ==
    /\ pc[r] = "insert"
    /\ \E p \in PostIds :
           /\ posts[p] = None
           /\ posts' = [posts EXCEPT ![p] =
                            NewPost(Actor(r), req[r].title, req[r].content)]
    /\ ReplyWritten(r)
    /\ UNCHANGED <<status, now>>

\* UPDATE of a post in scope.  When nothing was affected, because the WHERE
\* clause failed or MySQL found every value unchanged, the row is read again.
Update(r, matches, new) ==
    IF InScope(req[r].post) /\ matches
    THEN /\ posts' = [posts EXCEPT ![req[r].post] = new]
         /\ \/ ReplyWritten(r)
            \/ new = PostOf(r) /\ Goto(r, "reread")
    ELSE /\ UNCHANGED posts
         /\ Goto(r, "reread")

\* The columns each statement sets.
Mutant_SaveRow(r) == req[r].row
Edited(r) == [PostOf(r) EXCEPT !.title = req[r].row.title,
                               !.content = req[r].row.content]

WithVisibility(r) ==
    [PostOf(r) EXCEPT !.visible = req[r].visible,
                      !.pinnedUntil = IF req[r].visible = "private" THEN None ELSE @]

\* The WHERE clause of a pin, besides the id.
Mutant_AnyVisibility(r) == TRUE
StillPublic(r) == PostOf(r).visible = "public"

WriteEdit(r) ==
    /\ Kind(r) = "edit"
    /\ Update(r, TRUE, Edited(r))

WriteVisible(r) ==
    /\ Kind(r) = "visible"
    /\ Update(r, TRUE, WithVisibility(r))

WritePin(r) ==
    /\ Kind(r) = "pin"
    /\ Update(r, StillPublic(r), [PostOf(r) EXCEPT !.pinnedUntil = req[r].until])

WriteUnpin(r) ==
    /\ Kind(r) = "unpin"
    /\ Update(r, TRUE, [PostOf(r) EXCEPT !.pinnedUntil = None])

WriteDelete(r) ==
    /\ Kind(r) = "delete"
    /\ IF InScope(req[r].post)
       THEN /\ posts' = [posts EXCEPT ![req[r].post].deleted = TRUE]
            /\ ReplyWritten(r)
       ELSE /\ UNCHANGED posts
            /\ Reply(r, "notfound")

Write(r) ==
    /\ pc[r] = "write"
    /\ \/ WriteEdit(r)
       \/ WriteVisible(r)
       \/ WritePin(r)
       \/ WriteUnpin(r)
       \/ WriteDelete(r)
    /\ UNCHANGED <<status, now>>

\* resolvePostUpdateResult: no row was affected, but is there one?
Mutant_NothingFound(r) == "notfound"
ResolvedAnswer(r) == IF InScope(req[r].post) THEN "ok" ELSE "notfound"

ResolveUpdate(r) ==
    /\ pc[r] = "reread"
    /\ Kind(r) # "pin"
    /\ Reply(r, ResolvedAnswer(r))
    /\ UNCHANGED <<posts, status, now>>

Mutant_PublicIsEnough(r) == StillPublic(r)
AlreadyPinned(r) == StillPublic(r) /\ PostOf(r).pinnedUntil = req[r].until

\* SetPostPinnedUntil makes two attempts.
ResolvePin(r) ==
    /\ pc[r] = "reread"
    /\ Kind(r) = "pin"
    /\ \/ ~InScope(req[r].post) /\ Reply(r, "notfound")
       \/ InScope(req[r].post) /\ ~StillPublic(r) /\ Reply(r, "notfound")
       \/ InScope(req[r].post) /\ AlreadyPinned(r) /\ Reply(r, "ok")
       \/ /\ InScope(req[r].post) /\ StillPublic(r) /\ ~AlreadyPinned(r)
          /\ IF req[r].attempt = 2 THEN Reply(r, "notfound")
             ELSE /\ req' = [req EXCEPT ![r].attempt = 2]
                  /\ pc' = [pc EXCEPT ![r] = "write"]
    /\ UNCHANGED <<posts, status, now>>
-----------------------------------------------------------------------------
(* Environment *)

\* The database fails or the client's context ends before the next statement.
Abort(r) ==
    /\ pc[r] \in Steps
    /\ Reply(r, "error")
    /\ UNCHANGED <<posts, status, now>>

\* An administrator mutes or unmutes an account.
SetStatus ==
    /\ \E u \in Mutable, s \in Statuses : status' = [status EXCEPT ![u] = s]
    /\ UNCHANGED <<posts, now, req, pc>>

Tick ==
    /\ now < MaxTime
    /\ now' = now + 1
    /\ UNCHANGED <<posts, status, req, pc>>

Step(r) ==
    \/ CheckActor(r)
    \/ ReadPost(r)
    \/ CheckAdmin(r)
    \/ Insert(r)
    \/ Write(r)
    \/ ResolveUpdate(r)
    \/ ResolvePin(r)

Next ==
    \/ \E r \in Requests : Begin(r) \/ Step(r) \/ Abort(r)
    \/ SetStatus
    \/ Tick

Spec == Init /\ [][Next]_vars
-----------------------------------------------------------------------------
(* Properties *)

\* A private post is never pinned, although PinPost checks the visibility in
\* one statement and pins in another.
PrivateIsNotPinned ==
    \A p \in PostIds : posts[p] # None /\ posts[p].visible = "private" =>
        posts[p].pinnedUntil = None

\* Request r writes post p in this step, as an operation of one of these kinds.
WritesAs(r, p, kinds) ==
    /\ pc[r] = "write" /\ pc'[r] # "write"
    /\ Kind(r) \in kinds /\ req[r].post = p

\* Every column of a stored post changes only in the statement of an operation
\* that is about it, by someone entitled to that operation: an edit prepared
\* before a post was hidden, unpinned or deleted does not bring the old state back.
ColumnHasOwner ==
    \A p \in PostIds : posts[p] # None /\ posts'[p] # posts[p] =>
        /\ posts'[p] # None
        /\ posts'[p].author = posts[p].author
        /\ posts'[p].title # posts[p].title \/ posts'[p].content # posts[p].content =>
               \E r \in Requests : WritesAs(r, p, {"edit"}) /\ IsAuthor(r)
        /\ posts'[p].visible # posts[p].visible =>
               \E r \in Requests :
                   /\ WritesAs(r, p, {"visible"}) /\ IsAuthor(r)
                   /\ posts'[p].visible = req[r].visible
        /\ posts'[p].pinnedUntil # posts[p].pinnedUntil =>
               \/ posts[p].visible = "public" /\ posts'[p].visible = "private"
               \/ \E r \in Requests :
                      /\ WritesAs(r, p, Pinning)
                      /\ Actor(r) \in Admins
        /\ posts'[p].deleted # posts[p].deleted =>
               \E r \in Requests :
                   /\ WritesAs(r, p, {"delete"})
                   /\ IsAuthor(r) \/ Actor(r) \in Admins
ColumnsHaveOwners == [][ColumnHasOwner]_vars

\* A deleted post never changes again: requests that found it before it was
\* deleted write nothing.
DeletedKept ==
    \A p \in PostIds : posts[p] # None /\ posts[p].deleted =>
        posts'[p] = posts[p]
DeletedIsFinal == [][DeletedKept]_vars

\* A pin that is answered with success holds at that moment: the post is
\* public and pinned until exactly the time the answer names.
PinHolds ==
    \A r \in Requests : pc[r] \in Steps /\ Kind(r) = "pin" /\ pc'[r] = "ok" =>
        /\ posts'[req[r].post].visible = "public"
        /\ posts'[req[r].post].pinnedUntil = req[r].until

\* "Post not found" is only ever answered about a post that does not exist,
\* not about one a statement happened to leave unchanged.
NotFoundIsTrue ==
    \A r \in Requests :
        pc[r] \in Steps /\ Kind(r) # "pin" /\ pc'[r] = "notfound" =>
            ~InScope(req[r].post)

\* Answers tell the truth about the row at the moment they are decided.
AnswersAreTrue == [][PinHolds /\ NotFoundIsTrue]_vars

\* "Fields that are not given keep their value" (post_service.go, UpdatePost):
\* the statement of an edit leaves alone the column its client did not give.
KeepsOtherFields ==
    \A p \in PostIds, r \in Requests : posts[p] # None /\ WritesAs(r, p, {"edit"}) =>
        /\ req[r].title = None => posts'[p].title = posts[p].title
        /\ req[r].content = None => posts'[p].content = posts[p].content
UnprovidedFieldsAreKept == [][KeepsOtherFields]_vars
=============================================================================
