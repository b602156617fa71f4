---------------------------- MODULE Interactions ----------------------------
(***************************************************************************)
(* Likes, comments and the cache of their counts, as concurrent requests.  *)
(*                                                                         *)
(* Sources: like_service.go, comment_service.go, the count readers of      *)
(* post_service.go, internal/cache/post_counts.go and the repositories.    *)
(* The database holds the truth; LRU Redis holds counts that a reader puts *)
(* there for a limited time and a writer deletes.  No operation on the     *)
(* cache can fail a request: a read that fails is a miss, a write that     *)
(* fails, or times out after 100 ms, is forgotten.                         *)
(***************************************************************************)
EXTENDS Naturals, FiniteSets

CONSTANTS
    Users,          \* rows of the users table
    Posts,          \* rows of the posts table
    CommentIds,     \* ids of comments
    FirstLikes,     \* the likes at the start, pairs of a user and a post
    TTL,            \* DefaultPostCountTTL (30 s), in clock ticks
    Requests,       \* HTTP requests; each is issued once
    Workload,       \* bound: Workload[r], the kinds of request r may be
    CacheFails,     \* whether operations on LRU Redis may fail
    Mutable,        \* bound: the accounts that are muted and unmuted
    Hideable,       \* bound: the posts that are hidden and published
    None            \* nothing

ASSUME ConstantsOK ==
    /\ FirstLikes \subseteq Users \X Posts
    /\ TTL \in Nat \ {0}
    /\ CacheFails \in BOOLEAN
    /\ Mutable \subseteq Users
    /\ Hideable \subseteq Posts
    /\ IsFiniteSet(Users) /\ IsFiniteSet(CommentIds)
    /\ None \notin Nat \cup Posts \cup CommentIds

VARIABLES
    visibility,     \* visibility[p]: "public", "private" or "deleted"
    muted,          \* accounts whose status is muted
    likes,          \* the post_likes table
    comments,       \* the comments table, by id; a deleted comment stays
    cache,          \* LRU Redis: cache[m][p], a count and its remaining life
    req, pc         \* each request: its local variables, its next step

rows == <<likes, comments>>
vars == <<visibility, muted, likes, comments, cache, req, pc>>

Metrics == {"likes", "comments"}
Comment == [post : Posts, author : Users, deleted : BOOLEAN]
ASSUME NoneIsNoComment == None \notin Comment

Entry == [count : Nat, life : 1 .. TTL]

Writing == {"like", "unlike", "comment", "uncomment", "deletePost"}

\* The locals of a request: the user and the post or comment of a write, the
\* metric it invalidates or reads, the posts of a read and the counts it has.
Request == [kind : Writing \cup {"read"}, user : Users \cup {None},
            post : Posts \cup {None}, comment : CommentIds \cup {None},
            metric : Metrics, ids : SUBSET Posts,
            counts : [Posts -> Nat \cup {None}]]

Steps == {"actor", "post", "comment", "write", "invalidate", "count",
          "get", "load", "set"}
Answers == {"ok", "rejected", "notfound", "error"}

TypeOK ==
    /\ visibility \in [Posts -> {"public", "private", "deleted"}]
    /\ muted \subseteq Users
    /\ likes \subseteq Users \X Posts
    /\ comments \in [CommentIds -> Comment \cup {None}]
    /\ cache \in [Metrics -> [Posts -> Entry \cup {None}]]
    /\ req \in [Requests -> Request \cup {None}]
    /\ pc \in [Requests -> Steps \cup Answers \cup {"idle"}]

Init ==
    /\ visibility = [p \in Posts |-> "public"]
    /\ muted = {}
    /\ likes = FirstLikes
    /\ comments = [k \in CommentIds |-> None]
    /\ cache = [m \in Metrics |-> [p \in Posts |-> None]]
    /\ req = [r \in Requests |-> None]
    /\ pc = [r \in Requests |-> "idle"]
-----------------------------------------------------------------------------
Kind(r) == req[r].kind
User(r) == req[r].user
PostOf(r) == req[r].post
CommentOf(r) == comments[req[r].comment]

\* CountByPostIDs
Count(m, p) ==
    IF m = "likes" THEN Cardinality({u \in Users : <<u, p>> \in likes})
    ELSE Cardinality({k \in CommentIds : /\ comments[k] # None
                                         /\ comments[k].post = p
                                         /\ ~comments[k].deleted})

Goto(r, step) ==
    /\ pc' = [pc EXCEPT ![r] = step]
    /\ UNCHANGED req

Reply(r, answer) ==
    /\ pc' = [pc EXCEPT ![r] = answer]
    /\ req' = [req EXCEPT ![r] = None]

\* The metric whose key a writer deletes; DeletePost deletes both, likes first.
Mutant_LikesOnly(kind) == "likes"
MetricOf(kind) == IF kind \in {"comment", "uncomment"} THEN "comments" ELSE "likes"

NoCounts == [p \in Posts |-> None]
Blank(kind) == [kind |-> kind, user |-> None, post |-> None, comment |-> None,
                metric |-> MetricOf(kind), ids |-> {}, counts |-> NoCounts]
-----------------------------------------------------------------------------
(* Writes *)

\* Auth and RequireActiveUser have let the request through.
BeginWrite(r) ==
    /\ pc[r] = "idle"
    /\ \E u \in Users \ muted, p \in Posts :
           \/ \E k \in Workload[r] \cap {"like", "unlike", "comment"} :
                  /\ req' = [req EXCEPT ![r] =
                                 [Blank(k) EXCEPT !.user = u, !.post = p]]
                  /\ pc' = [pc EXCEPT ![r] = "actor"]
           \/ /\ "uncomment" \in Workload[r]
              /\ \E k \in CommentIds :
                     req' = [req EXCEPT ![r] =
                         [Blank("uncomment") EXCEPT !.user = u, !.comment = k]]
              /\ pc' = [pc EXCEPT ![r] = "actor"]
           \/ /\ "deletePost" \in Workload[r]
              /\ req' = [req EXCEPT ![r] = [Blank("deletePost") EXCEPT !.post = p]]
              /\ pc' = [pc EXCEPT ![r] = "write"]
    /\ UNCHANGED <<visibility, muted, rows, cache>>

\* requireActiveActor
Mutant_SeenByAuth(r) == FALSE
IsMuted(r) == User(r) \in muted

CheckActor(r) ==
    /\ pc[r] = "actor"
    /\ IF IsMuted(r) THEN Reply(r, "rejected")
       ELSE Goto(r, IF Kind(r) = "uncomment" THEN "comment" ELSE "post")
    /\ UNCHANGED <<visibility, muted, rows, cache>>

\* requirePublicPost
Mutant_NotDeleted(p) == visibility[p] # "deleted"
IsPublic(p) == visibility[p] = "public"

CheckPost(r) ==
    /\ pc[r] = "post"
    /\ IF IsPublic(PostOf(r)) THEN Goto(r, "write") ELSE Reply(r, "notfound")
    /\ UNCHANGED <<visibility, muted, rows, cache>>

InScope(r) == CommentOf(r) # None /\ ~CommentOf(r).deleted

\* DeleteComment finds the comment, its author and its post.
CheckComment(r) ==
    /\ pc[r] = "comment"
    /\ \/ /\ ~InScope(r)
          /\ Reply(r, "notfound")
       \/ /\ InScope(r)
          /\ IF CommentOf(r).author # User(r)
             THEN Reply(r, "rejected")
             ELSE /\ req' = [req EXCEPT ![r].post = CommentOf(r).post]
                  /\ pc' = [pc EXCEPT ![r] = "write"]
    /\ UNCHANGED <<visibility, muted, rows, cache>>

\* After a write the request goes on to invalidate; if the acknowledgement of
\* the write is lost it is answered with an error at once.
WrittenThen(r, step) == Goto(r, step) \/ Reply(r, "error")

\* A like that exists and one that does not are success for Like and Unlike.
WriteLike(r) ==
    /\ Kind(r) \in {"like", "unlike"}
    /\ likes' = IF Kind(r) = "like" THEN likes \cup {<<User(r), PostOf(r)>>}
                                    ELSE likes \ {<<User(r), PostOf(r)>>}
    /\ WrittenThen(r, "invalidate")
    /\ UNCHANGED <<visibility, comments>>

WriteComment(r) ==
    /\ Kind(r) = "comment"
    /\ \E k \in CommentIds :
           /\ comments[k] = None
           /\ comments' = [comments EXCEPT ![k] =
                  [post |-> PostOf(r), author |-> User(r), deleted |-> FALSE]]
    /\ WrittenThen(r, "invalidate")
    /\ UNCHANGED <<visibility, likes>>

WriteUncomment(r) ==
    /\ Kind(r) = "uncomment"
    /\ IF InScope(r)
       THEN /\ comments' = [comments EXCEPT ![req[r].comment].deleted = TRUE]
            /\ WrittenThen(r, "invalidate")
       ELSE Reply(r, "notfound") /\ UNCHANGED comments
    /\ UNCHANGED <<visibility, likes>>

\* PostService.DeletePost; its checks are those of module Posts.
WriteDeletePost(r) ==
    /\ Kind(r) = "deletePost"
    /\ IF visibility[PostOf(r)] # "deleted"
       THEN /\ visibility' = [visibility EXCEPT ![PostOf(r)] = "deleted"]
            /\ WrittenThen(r, "invalidate")
       ELSE Reply(r, "notfound") /\ UNCHANGED visibility
    /\ UNCHANGED rows

Write(r) ==
    /\ pc[r] = "write"
    /\ WriteLike(r) \/ WriteComment(r) \/ WriteUncomment(r) \/ WriteDeletePost(r)
    /\ UNCHANGED <<muted, cache>>

\* DEL, whose failure nobody sees.
Delete(m, p) == \/ cache' = [cache EXCEPT ![m][p] = None]
                \/ CacheFails /\ UNCHANGED cache

Invalidate(r) ==
    /\ pc[r] = "invalidate"
    /\ Delete(req[r].metric, PostOf(r))
    /\ \/ Kind(r) \in {"like", "unlike"} /\ Goto(r, "count")
       \/ Kind(r) \in {"comment", "uncomment"} /\ Reply(r, "ok")
       \/ /\ Kind(r) = "deletePost"
          /\ IF req[r].metric = "comments" THEN Reply(r, "ok")
             ELSE /\ req' = [req EXCEPT ![r].metric = "comments"]
                  /\ UNCHANGED pc
    /\ UNCHANGED <<visibility, muted, rows>>

\* LikeService.result counts in the database and does not store the count.
CountLikes(r) ==
    /\ pc[r] = "count"
    /\ Reply(r, "ok")
    /\ UNCHANGED <<visibility, muted, rows, cache>>
-----------------------------------------------------------------------------
(* Reads: loadLikeCounts and loadCommentCounts of lists and details *)

\* The posts are those a query has just found; one metric is read at a time.
BeginRead(r) ==
    /\ pc[r] = "idle"
    /\ "read" \in Workload[r]
    /\ \E m \in Metrics, ids \in SUBSET {p \in Posts : IsPublic(p)} :
           /\ ids # {}
           /\ req' = [req EXCEPT ![r] =
                          [Blank("read") EXCEPT !.metric = m, !.ids = ids]]
    /\ pc' = [pc EXCEPT ![r] = "get"]
    /\ UNCHANGED <<visibility, muted, rows, cache>>

Missing(counts, ids) == {p \in ids : counts[p] = None}

\* MGET; an error counts as a miss of every key.
GetMany(r) ==
    /\ pc[r] = "get"
    /\ LET m == req[r].metric
           hits == [p \in Posts |-> IF p \in req[r].ids /\ cache[m][p] # None
                                    THEN cache[m][p].count ELSE None]
       IN \E found \in {hits} \cup (IF CacheFails THEN {NoCounts} ELSE {}) :
              IF Missing(found, req[r].ids) = {}
              THEN Reply(r, "ok")
              ELSE /\ req' = [req EXCEPT ![r].counts = found,
                                         ![r].ids = Missing(found, @)]
                   /\ pc' = [pc EXCEPT ![r] = "load"]
    /\ UNCHANGED <<visibility, muted, rows, cache>>

\* One query counts for every post that was missing.
LoadCounts(r) ==
    /\ pc[r] = "load"
    /\ req' = [req EXCEPT ![r].counts =
                   [p \in Posts |-> IF p \in req[r].ids
                                    THEN Count(req[r].metric, p) ELSE @[p]]]
    /\ pc' = [pc EXCEPT ![r] = "set"]
    /\ UNCHANGED <<visibility, muted, rows, cache>>

\* A pipeline of SETs with the TTL, of which any may fail.
SetMany(r) ==
    /\ pc[r] = "set"
    /\ \E stored \in IF CacheFails THEN SUBSET req[r].ids ELSE {req[r].ids} :
           cache' = [cache EXCEPT ![req[r].metric] =
               [p \in Posts |-> IF p \in stored
                                THEN [count |-> req[r].counts[p], life |-> TTL]
                                ELSE @[p]]]
    /\ Reply(r, "ok")
    /\ UNCHANGED <<visibility, muted, rows>>
-----------------------------------------------------------------------------
(* Environment *)

\* The database fails or the client's context ends before the next statement.
\* Operations on the cache use the same context: then they are not done.
Abort(r) ==
    /\ pc[r] \in Steps
    /\ Reply(r, "error")
    /\ UNCHANGED <<visibility, muted, rows, cache>>

SetVisible ==
    /\ \E p \in Hideable, v \in {"public", "private"} :
           /\ visibility[p] # "deleted"
           /\ visibility' = [visibility EXCEPT ![p] = v]
    /\ UNCHANGED <<muted, rows, cache, req, pc>>

SetStatus ==
    /\ \E u \in Mutable : muted' = IF u \in muted THEN muted \ {u} ELSE muted \cup {u}
    /\ UNCHANGED <<visibility, rows, cache, req, pc>>

\* The keys of the cache, each with one tick less to live.
Mutant_Ageless(entry) == entry
Mutant_OneTickMore(entry) == [entry EXCEPT !.life = @ - 1]
Aged(entry) == IF entry.life = 1 THEN None ELSE [entry EXCEPT !.life = @ - 1]

Tick ==
    /\ cache' = [m \in Metrics |-> [p \in Posts |->
                     IF cache[m][p] = None THEN None ELSE Aged(cache[m][p])]]
    /\ UNCHANGED <<visibility, muted, rows, req, pc>>

\* LRU Redis drops a key under memory pressure.
Evict ==
    /\ \E m \in Metrics, p \in Posts : cache' = [cache EXCEPT ![m][p] = None]
    /\ UNCHANGED <<visibility, muted, rows, req, pc>>

Step(r) ==
    \/ CheckActor(r)
    \/ CheckPost(r)
    \/ CheckComment(r)
    \/ Write(r)
    \/ Invalidate(r)
    \/ CountLikes(r)
    \/ GetMany(r)
    \/ LoadCounts(r)
    \/ SetMany(r)

Next ==
    \/ \E r \in Requests : BeginWrite(r) \/ BeginRead(r) \/ Step(r) \/ Abort(r)
    \/ SetVisible
    \/ SetStatus
    \/ Tick
    \/ Evict

Spec == Init /\ [][Next]_vars

\* Statements return, and time passes.
Fairness == WF_vars(Tick) /\ \A r \in Requests : WF_vars(Step(r))
-----------------------------------------------------------------------------
(* Properties *)

\* Whatever races and failures put into the cache, it heals by itself: once
\* the writes are over, no wrong count stays in it.
CacheIsRight ==
    \A m \in Metrics, p \in Posts :
        cache[m][p] # None => cache[m][p].count = Count(m, p)
CacheHeals == <>[]CacheIsRight
=============================================================================
