------------------------- MODULE InteractionsProofs -------------------------
(***************************************************************************)
(* Theorems about Interactions, for any users, posts, comments, requests   *)
(* and cache lifetime, and whatever LRU Redis loses.                       *)
(*                                                                         *)
(* What a request in flight knows (Local) is little: what it is about, the *)
(* metric it will invalidate, and, once a deletion has found its comment,  *)
(* that this comment is one of its post.  That is enough to tell which     *)
(* count a statement can change (WriteOutdates), and the two history       *)
(* invariants follow from that step by step.                               *)
(***************************************************************************)
EXTENDS InteractionsHistory, FiniteSetTheorems, TLAPS

Writer(r) ==
    /\ Kind(r) \in Writing
    /\ Kind(r) \in Interacting => User(r) \in Users /\ PostOf(r) \in Posts
    /\ Kind(r) = "uncomment" => User(r) \in Users /\ req[r].comment \in CommentIds
    /\ Kind(r) = "deletePost" => PostOf(r) \in Posts
    /\ Kind(r) # "deletePost" => req[r].metric = MetricOf(Kind(r))

\* What the locals of a request are at each step.
Local(r) ==
    /\ pc[r] \in Steps => req[r] \in Request
    /\ pc[r] \in {"actor", "post", "comment", "write", "invalidate"} => Writer(r)
    /\ pc[r] = "actor" => Kind(r) # "deletePost"
    /\ pc[r] = "post" => Kind(r) \in Interacting
    /\ pc[r] = "comment" => Kind(r) = "uncomment"
    /\ pc[r] \in {"write", "invalidate"} => PostOf(r) \in Posts
    /\ pc[r] = "write" /\ Kind(r) = "uncomment" =>
           CommentOf(r) # None /\ CommentOf(r).post = PostOf(r)
    /\ pc[r] = "set" => \A p \in req[r].ids : req[r].counts[p] \in Nat

\* The part of the inductive invariant that speaks of Interactions alone.
Located == TypeOK /\ \A r \in Requests : Local(r)

IInv == Located /\ BarredRequestsWriteNothing /\ WrongCountsAreExplained
-----------------------------------------------------------------------------
\* A comment keeps its id and its post for ever.
CommentsStay ==
    \A k \in CommentIds : comments[k] # None =>
        comments'[k] # None /\ comments'[k].post = comments[k].post

OnlyMoves(r) == \A x \in Requests \ {r} : pc'[x] = pc[x] /\ req'[x] = req[x]

LEMMA LocalSurvives ==
    ASSUME NEW x \in Requests, Local(x), CommentsStay,
           pc'[x] = pc[x], req'[x] = req[x]
    PROVE  Local(x)'
<1> USE DEF Kind, User, PostOf, CommentOf
<1>1. Writer(x)' <=> Writer(x)
  BY DEF Writer
<1>2. pc[x] = "write" /\ Kind(x) = "uncomment" => req[x].comment \in CommentIds
  BY DEF Local, Writer
<1>3. QED BY <1>1, <1>2 DEF Local, CommentsStay

LEMMA OthersSurvive ==
    ASSUME Located, NEW r \in Requests, OnlyMoves(r), CommentsStay, TypeOK', Local(r)'
    PROVE  Located'
<1>1. ASSUME NEW x \in Requests PROVE Local(x)'
  <2>1. CASE x = r
    BY <2>1
  <2>2. CASE x # r
    BY <2>2, LocalSurvives DEF Located, OnlyMoves
  <2>3. QED BY <2>1, <2>2
<1>2. QED BY <1>1 DEF Located

\* Tables and cache are as they were.
Quiet == UNCHANGED <<visibility, muted, rows, cache>>

LEMMA ReplyTyped ==
    ASSUME TypeOK, NEW r \in Requests, NEW a \in Answers, Reply(r, a)
    PROVE  /\ pc' \in [Requests -> Steps \cup Answers \cup {"idle"}]
           /\ req' \in [Requests -> Request \cup {None}]
           /\ pc'[r] = a
           /\ OnlyMoves(r)
  BY DEF TypeOK, Reply, OnlyMoves

LEMMA GotoTyped ==
    ASSUME TypeOK, NEW r \in Requests, NEW s \in Steps, Goto(r, s)
    PROVE  /\ pc' \in [Requests -> Steps \cup Answers \cup {"idle"}]
           /\ req' \in [Requests -> Request \cup {None}]
           /\ pc'[r] = s /\ req'[r] = req[r]
           /\ OnlyMoves(r)
  BY DEF TypeOK, Goto, OnlyMoves

LEMMA SetTyped ==
    ASSUME TypeOK, NEW r \in Requests, NEW s \in Steps, NEW locals \in Request,
           pc' = [pc EXCEPT ![r] = s], req' = [req EXCEPT ![r] = locals]
    PROVE  /\ pc' \in [Requests -> Steps \cup Answers \cup {"idle"}]
           /\ req' \in [Requests -> Request \cup {None}]
           /\ pc'[r] = s /\ req'[r] = locals
           /\ OnlyMoves(r)
  BY DEF TypeOK, OnlyMoves

LEMMA Answered ==
    ASSUME NEW r \in Requests, pc'[r] \in Answers PROVE Local(r)'
  BY DEF Local, Answers, Steps

\* Any request, at any point, can be answered.
LEMMA ReplyKeeps ==
    ASSUME Located, NEW r \in Requests, NEW a \in Answers, Reply(r, a), Quiet
    PROVE  Located'
<1>1. TypeOK' /\ OnlyMoves(r) /\ pc'[r] \in Answers
  BY ReplyTyped DEF Located, TypeOK, Quiet, rows
<1>2. CommentsStay
  BY DEF CommentsStay, Quiet, rows
<1>3. QED BY <1>1, <1>2, Answered, OthersSurvive

\* Going on with new locals, to a step at which they are what they should be.
LEMMA SetKeeps ==
    ASSUME Located, NEW r \in Requests, NEW s \in Steps, NEW locals \in Request,
           pc' = [pc EXCEPT ![r] = s], req' = [req EXCEPT ![r] = locals], Quiet,
           pc'[r] = s /\ req'[r] = locals => Local(r)'
    PROVE  Located'
<1>1. TypeOK' /\ OnlyMoves(r) /\ Local(r)'
  BY SetTyped DEF Located, TypeOK, Quiet, rows
<1>2. CommentsStay
  BY DEF CommentsStay, Quiet, rows
<1>3. QED BY <1>1, <1>2, OthersSurvive

LEMMA GotoKeeps ==
    ASSUME Located, NEW r \in Requests, NEW s \in Steps, Goto(r, s), Quiet,
           pc[r] \in Steps, pc'[r] = s /\ req'[r] = req[r] => Local(r)'
    PROVE  Located'
<1>1. TypeOK' /\ OnlyMoves(r) /\ Local(r)'
  BY GotoTyped DEF Located, TypeOK, Quiet, rows
<1>2. CommentsStay
  BY DEF CommentsStay, Quiet, rows
<1>3. QED BY <1>1, <1>2, OthersSurvive

\* DEL and eviction take one key away and touch no other.
LEMMA Erased ==
    ASSUME TypeOK, NEW m \in Metrics, NEW p \in Posts,
           cache' = [cache EXCEPT ![m][p] = None]
    PROVE  /\ cache' \in [Metrics -> [Posts -> Entry \cup {None}]]
           /\ \A n \in Metrics, q \in Posts :
                  cache'[n][q] = IF n = m /\ q = p THEN None ELSE cache[n][q]
<1>1. cache[m] \in [Posts -> Entry \cup {None}]
  BY DEF TypeOK
<1>2. [cache[m] EXCEPT ![p] = None] \in [Posts -> Entry \cup {None}]
  BY <1>1
<1>3. cache' = [cache EXCEPT ![m] = [cache[m] EXCEPT ![p] = None]]
  OBVIOUS
<1>4. QED BY <1>1, <1>2, <1>3 DEF TypeOK

LEMMA CountTyped ==
    ASSUME NEW m \in Metrics, NEW p \in Posts PROVE Count(m, p) \in Nat
<1> DEFINE fans == {u \in Users : <<u, p>> \in likes}
           remarks == {k \in CommentIds : /\ comments[k] # None
                                          /\ comments[k].post = p
                                          /\ ~comments[k].deleted}
<1>1. IsFiniteSet(fans) /\ IsFiniteSet(remarks)
  <2>1. fans \subseteq Users /\ remarks \subseteq CommentIds
    OBVIOUS
  <2>2. QED BY <2>1, FS_Subset, ConstantsOK
<1>2. Cardinality(fans) \in Nat /\ Cardinality(remarks) \in Nat
  BY <1>1, FS_CardinalityType
<1>3. QED BY <1>2 DEF Count
-----------------------------------------------------------------------------
(* Located, one lemma per action. *)

LEMMA BlankShape ==
    ASSUME NEW k \in Writing \cup {"read"}
    PROVE  /\ Blank(k) \in Request /\ Blank(k).kind = k
           /\ Blank(k).metric = MetricOf(k)
<1>1. NoCounts \in [Posts -> Nat \cup {None}]
  BY DEF NoCounts
<1>2. MetricOf(k) \in Metrics
  BY DEF MetricOf, Metrics
<1>3. QED BY <1>1, <1>2 DEF Blank, Request

\* The locals of a request about a post, and about a comment.
PostLocals(k, u, p) == [Blank(k) EXCEPT !.user = u, !.post = p]
CommentLocals(u, c) == [Blank("uncomment") EXCEPT !.user = u, !.comment = c]

LEMMA AboutPost ==
    ASSUME NEW k \in {"like", "unlike", "comment"}, NEW u \in Users, NEW p \in Posts
    PROVE  LET locals == PostLocals(k, u, p)
           IN  /\ locals \in Request /\ locals.kind = k /\ locals.user = u
               /\ locals.post = p /\ locals.metric = MetricOf(k)
<1>1. Blank(k) \in Request /\ Blank(k).kind = k /\ Blank(k).metric = MetricOf(k)
  BY BlankShape DEF Writing
<1>2. QED BY <1>1 DEF Request, PostLocals

LEMMA AboutComment ==
    ASSUME NEW u \in Users, NEW c \in CommentIds
    PROVE  LET locals == CommentLocals(u, c)
           IN  /\ locals \in Request /\ locals.kind = "uncomment" /\ locals.user = u
               /\ locals.comment = c /\ locals.metric = MetricOf("uncomment")
<1>1. LET b == Blank("uncomment")
      IN  b \in Request /\ b.kind = "uncomment" /\ b.metric = MetricOf("uncomment")
  BY BlankShape DEF Writing
<1>2. QED BY <1>1 DEF Request, CommentLocals

LEMMA Deletes ==
    ASSUME NEW p \in Posts, NEW locals,
           locals = [Blank("deletePost") EXCEPT !.post = p]
    PROVE  locals \in Request /\ locals.kind = "deletePost" /\ locals.post = p
<1>1. Blank("deletePost") \in Request /\ Blank("deletePost").kind = "deletePost"
  BY BlankShape DEF Writing
<1>2. QED BY <1>1 DEF Request

LEMMA Reads ==
    ASSUME NEW m \in Metrics, NEW ids \in SUBSET Posts
    PROVE  [Blank("read") EXCEPT !.metric = m, !.ids = ids] \in Request
<1>1. Blank("read") \in Request
  BY BlankShape
<1>2. QED BY <1>1 DEF Request

LEMMA BeginWriteLocates ==
    ASSUME Located, NEW r \in Requests, BeginWrite(r) PROVE Located'
<1>1. Quiet
  BY DEF BeginWrite, Quiet
<1>2. PICK u \in Users, p \in Posts :
          \/ \E k \in {"like", "unlike", "comment"} :
                 /\ req' = [req EXCEPT ![r] = [Blank(k) EXCEPT !.user = u, !.post = p]]
                 /\ pc' = [pc EXCEPT ![r] = "actor"]
          \/ /\ \E k \in CommentIds :
                    req' = [req EXCEPT ![r] =
                        [Blank("uncomment") EXCEPT !.user = u, !.comment = k]]
             /\ pc' = [pc EXCEPT ![r] = "actor"]
          \/ /\ req' = [req EXCEPT ![r] = [Blank("deletePost") EXCEPT !.post = p]]
             /\ pc' = [pc EXCEPT ![r] = "write"]
  BY DEF BeginWrite
<1>3. ASSUME NEW k \in {"like", "unlike", "comment"},
             req' = [req EXCEPT ![r] = [Blank(k) EXCEPT !.user = u, !.post = p]],
             pc' = [pc EXCEPT ![r] = "actor"]
      PROVE  Located'
  <2> DEFINE locals == PostLocals(k, u, p)
  <2>1. /\ locals \in Request /\ locals.kind = k /\ locals.user = u
        /\ locals.post = p /\ locals.metric = MetricOf(k)
    BY AboutPost
  <2> HIDE DEF locals
  <2>2. pc'[r] = "actor" /\ req'[r] = locals => Local(r)'
    BY <2>1 DEF Local, Writer, Writing, Interacting, Kind, User, PostOf
  <2>3. "actor" \in Steps /\ req' = [req EXCEPT ![r] = locals]
    BY <1>3 DEF Steps, locals, PostLocals
  <2>4. QED BY <1>1, <1>3, <2>1, <2>2, <2>3, SetKeeps
<1>4. ASSUME NEW k \in CommentIds,
             req' = [req EXCEPT ![r] =
                        [Blank("uncomment") EXCEPT !.user = u, !.comment = k]],
             pc' = [pc EXCEPT ![r] = "actor"]
      PROVE  Located'
  <2> DEFINE locals == CommentLocals(u, k)
  <2>1. /\ locals \in Request /\ locals.kind = "uncomment" /\ locals.user = u
        /\ locals.comment = k /\ locals.metric = MetricOf("uncomment")
    BY AboutComment
  <2> HIDE DEF locals
  <2>2. pc'[r] = "actor" /\ req'[r] = locals => Local(r)'
    BY <2>1 DEF Local, Writer, Writing, Interacting, Kind, User, PostOf
  <2>3. "actor" \in Steps /\ req' = [req EXCEPT ![r] = locals]
    BY <1>4 DEF Steps, locals, CommentLocals
  <2>4. QED BY <1>1, <1>4, <2>1, <2>2, <2>3, SetKeeps
<1>5. ASSUME req' = [req EXCEPT ![r] = [Blank("deletePost") EXCEPT !.post = p]],
             pc' = [pc EXCEPT ![r] = "write"]
      PROVE  Located'
  <2> DEFINE locals == [Blank("deletePost") EXCEPT !.post = p]
  <2>1. locals \in Request /\ locals.kind = "deletePost" /\ locals.post = p
    BY Deletes
  <2> HIDE DEF locals
  <2>2. pc'[r] = "write" /\ req'[r] = locals => Local(r)'
    BY <2>1 DEF Local, Writer, Writing, Interacting, Kind, User, PostOf
  <2>3. "write" \in Steps /\ req' = [req EXCEPT ![r] = locals]
    BY <1>5 DEF Steps, locals
  <2>4. QED BY <1>1, <1>5, <2>1, <2>2, <2>3, SetKeeps
<1>6. QED BY <1>2, <1>3, <1>4, <1>5

LEMMA CheckActorLocates ==
    ASSUME Located, NEW r \in Requests, CheckActor(r) PROVE Located'
<1>1. Quiet /\ pc[r] = "actor"
  BY DEF CheckActor, Quiet
<1>2. req[r] \in Request /\ Writer(r) /\ Kind(r) # "deletePost"
  BY <1>1 DEF Located, Local, Steps
<1>3. CASE IsMuted(r)
  BY <1>1, <1>3, ReplyKeeps DEF CheckActor, Answers
<1>4. CASE ~IsMuted(r) /\ Kind(r) = "uncomment"
  <2>1. Goto(r, "comment")
    BY <1>4 DEF CheckActor
  <2>2. pc'[r] = "comment" /\ req'[r] = req[r] => Local(r)'
    BY <1>2, <1>4 DEF Local, Writer, Kind, User, PostOf
  <2>3. QED BY <1>1, <2>1, <2>2, GotoKeeps DEF Steps
<1>5. CASE ~IsMuted(r) /\ Kind(r) # "uncomment"
  <2>1. Goto(r, "post")
    BY <1>5 DEF CheckActor
  <2>2. pc'[r] = "post" /\ req'[r] = req[r] => Local(r)'
    BY <1>2, <1>5 DEF Local, Writer, Writing, Interacting, Kind, User, PostOf
  <2>3. QED BY <1>1, <2>1, <2>2, GotoKeeps DEF Steps
<1>6. QED BY <1>3, <1>4, <1>5

LEMMA CheckPostLocates ==
    ASSUME Located, NEW r \in Requests, CheckPost(r) PROVE Located'
<1>1. Quiet /\ pc[r] = "post"
  BY DEF CheckPost, Quiet
<1>2. req[r] \in Request /\ Writer(r) /\ Kind(r) \in Interacting
  BY <1>1 DEF Located, Local, Steps
<1>3. CASE ~IsPublic(PostOf(r))
  BY <1>1, <1>3, ReplyKeeps DEF CheckPost, Answers
<1>4. CASE IsPublic(PostOf(r))
  <2>1. Goto(r, "write")
    BY <1>4 DEF CheckPost
  <2>2. pc'[r] = "write" /\ req'[r] = req[r] => Local(r)'
    BY <1>2 DEF Local, Writer, Interacting, Kind, User, PostOf
  <2>3. QED BY <1>1, <2>1, <2>2, GotoKeeps DEF Steps
<1>5. QED BY <1>3, <1>4

LEMMA CheckCommentLocates ==
    ASSUME Located, NEW r \in Requests, CheckComment(r) PROVE Located'
<1>1. Quiet /\ pc[r] = "comment"
  BY DEF CheckComment, Quiet
<1>2. req[r] \in Request /\ Writer(r) /\ Kind(r) = "uncomment"
  BY <1>1 DEF Located, Local, Steps
<1>3. CASE ~InScope(r) \/ CommentOf(r).author # User(r)
  BY <1>1, <1>3, ReplyKeeps DEF CheckComment, Answers
<1>4. CASE InScope(r) /\ CommentOf(r).author = User(r)
  <2> DEFINE locals == [req[r] EXCEPT !.post = CommentOf(r).post]
  <2>1. req[r].comment \in CommentIds /\ CommentOf(r) # None /\ CommentOf(r).post \in Posts
    BY <1>2, <1>4 DEF Writer, InScope, CommentOf, Located, TypeOK, Comment
  <2>2. /\ locals \in Request /\ locals.kind = "uncomment"
        /\ locals.user = User(r) /\ locals.post = CommentOf(r).post
        /\ locals.comment = req[r].comment /\ locals.metric = req[r].metric
    BY <1>2, <2>1 DEF Request, Kind, User
  <2>3. "write" \in Steps /\ req' = [req EXCEPT ![r] = locals]
        /\ pc' = [pc EXCEPT ![r] = "write"]
    <3>1. req' = [req EXCEPT ![r].post = CommentOf(r).post]
          /\ pc' = [pc EXCEPT ![r] = "write"]
      BY <1>4 DEF CheckComment
    <3>2. QED BY <3>1 DEF Steps
  <2> HIDE DEF locals
  <2>4. pc'[r] = "write" /\ req'[r] = locals => Local(r)'
    BY <1>1, <1>2, <2>1, <2>2 DEF Local, Writer, Writing, Interacting, Kind, User, PostOf,
       CommentOf, Quiet, rows
  <2>5. QED BY <1>1, <2>2, <2>3, <2>4, SetKeeps
<1>5. QED BY <1>3, <1>4

LEMMA WrittenKeeps ==
    ASSUME Located, NEW r \in Requests, pc[r] = "write",
           WrittenThen(r, "invalidate") \/ Reply(r, "notfound"),
           visibility' \in [Posts -> {"public", "private", "deleted"}],
           likes' \subseteq Users \X Posts,
           comments' \in [CommentIds -> Comment \cup {None}],
           CommentsStay, UNCHANGED <<muted, cache>>
    PROVE  /\ Located' /\ OnlyMoves(r)
           /\ \/ pc'[r] = "invalidate" /\ req'[r] = req[r]
              \/ pc'[r] = "error"
              \/ pc'[r] = "notfound" /\ Reply(r, "notfound")
<1>1. CASE Goto(r, "invalidate")
  <2>1. /\ TypeOK' /\ OnlyMoves(r) /\ pc'[r] = "invalidate" /\ req'[r] = req[r]
    BY <1>1, GotoTyped DEF Located, TypeOK, Steps
  <2>2. req[r] \in Request /\ Writer(r) /\ PostOf(r) \in Posts
    BY DEF Located, Local, Steps
  <2>3. Local(r)'
    BY <2>1, <2>2 DEF Local, Writer, Kind, User, PostOf
  <2>4. QED BY <2>1, <2>3, OthersSurvive
<1>2. ASSUME NEW a \in {"error", "notfound"}, Reply(r, a)
      PROVE  Located' /\ OnlyMoves(r) /\ pc'[r] = a
  <2>1. TypeOK' /\ OnlyMoves(r) /\ pc'[r] = a
    BY <1>2, ReplyTyped DEF Located, TypeOK, Answers
  <2>2. Local(r)'
    BY <2>1, Answered DEF Answers
  <2>3. QED BY <2>1, <2>2, OthersSurvive
<1>3. QED BY <1>1, <1>2 DEF WrittenThen

NewComment(r) == [post |-> PostOf(r), author |-> User(r), deleted |-> FALSE]

\* Each of the four statements, as what it does to the tables.
LEMMA WriteCases ==
    ASSUME Located, NEW r \in Requests, Write(r)
    PROVE  \/ /\ Kind(r) \in {"like", "unlike"}
              /\ likes' \in {likes \cup {<<User(r), PostOf(r)>>},
                             likes \ {<<User(r), PostOf(r)>>}}
              /\ <<User(r), PostOf(r)>> \in Users \X Posts
              /\ UNCHANGED <<visibility, comments>>
           \/ /\ Kind(r) = "comment"
              /\ User(r) \in Users
              /\ UNCHANGED <<visibility, likes>>
              /\ \E k \in CommentIds :
                     /\ comments[k] = None
                     /\ comments' = [comments EXCEPT ![k] = NewComment(r)]
           \/ /\ Kind(r) = "uncomment"
              /\ req[r].comment \in CommentIds
              /\ CommentOf(r) \in Comment /\ CommentOf(r).post = PostOf(r)
              /\ comments' = [comments EXCEPT ![req[r].comment].deleted = TRUE]
              /\ UNCHANGED <<visibility, likes>>
           \/ /\ Kind(r) = "deletePost"
              /\ visibility' = [visibility EXCEPT ![PostOf(r)] = "deleted"]
              /\ UNCHANGED rows
           \/ UNCHANGED <<visibility, rows>>
<1>1. Writer(r) /\ PostOf(r) \in Posts
  BY DEF Write, Located, Local
<1>2. CASE WriteLike(r)
  BY <1>1, <1>2 DEF WriteLike, Writer, Interacting
<1>3. CASE WriteComment(r)
  BY <1>1, <1>3 DEF WriteComment, Writer, Interacting, NewComment
<1>4. CASE WriteUncomment(r)
  <2>1. Kind(r) = "uncomment" /\ req[r].comment \in CommentIds
    BY <1>1, <1>4 DEF WriteUncomment, Writer
  <2>2. CommentOf(r) \in Comment /\ CommentOf(r).post = PostOf(r)
    BY <2>1 DEF Write, Located, Local, TypeOK, CommentOf
  <2>3. QED BY <1>4, <2>1, <2>2 DEF WriteUncomment, rows
<1>5. CASE WriteDeletePost(r)
  BY <1>5 DEF WriteDeletePost, rows
<1>6. QED BY <1>2, <1>3, <1>4, <1>5 DEF Write

LEMMA WriteTyped ==
    ASSUME Located, NEW r \in Requests, Write(r)
    PROVE  /\ visibility' \in [Posts -> {"public", "private", "deleted"}]
           /\ likes' \subseteq Users \X Posts
           /\ comments' \in [CommentIds -> Comment \cup {None}]
           /\ CommentsStay
<1>1. /\ visibility \in [Posts -> {"public", "private", "deleted"}]
      /\ likes \subseteq Users \X Posts
      /\ comments \in [CommentIds -> Comment \cup {None}]
  BY DEF Located, TypeOK
<1>2. PostOf(r) \in Posts
  BY DEF Write, Located, Local
<1>3. CASE /\ Kind(r) \in {"like", "unlike"}
           /\ likes' \in {likes \cup {<<User(r), PostOf(r)>>},
                          likes \ {<<User(r), PostOf(r)>>}}
           /\ <<User(r), PostOf(r)>> \in Users \X Posts
           /\ UNCHANGED <<visibility, comments>>
  BY <1>1, <1>3 DEF CommentsStay
<1>4. CASE /\ UNCHANGED <<visibility, likes>>
           /\ User(r) \in Users
           /\ \E k \in CommentIds :
                  /\ comments[k] = None
                  /\ comments' = [comments EXCEPT ![k] = NewComment(r)]
  BY <1>1, <1>2, <1>4 DEF CommentsStay, Comment, NewComment
<1>5. CASE /\ req[r].comment \in CommentIds
           /\ CommentOf(r) \in Comment
           /\ comments' = [comments EXCEPT ![req[r].comment].deleted = TRUE]
           /\ UNCHANGED <<visibility, likes>>
  <2>1. /\ [CommentOf(r) EXCEPT !.deleted = TRUE] \in Comment
        /\ [CommentOf(r) EXCEPT !.deleted = TRUE].post = CommentOf(r).post
    BY <1>5 DEF Comment
  <2>2. comments' = [comments EXCEPT ![req[r].comment] =
                        [CommentOf(r) EXCEPT !.deleted = TRUE]]
    BY <1>5 DEF CommentOf
  <2>3. QED BY <1>1, <1>5, <2>1, <2>2, NoneIsNoComment DEF CommentsStay, CommentOf
<1>6. CASE /\ visibility' = [visibility EXCEPT ![PostOf(r)] = "deleted"]
           /\ UNCHANGED rows
  BY <1>1, <1>6 DEF CommentsStay, rows
<1>7. CASE UNCHANGED <<visibility, rows>>
  BY <1>1, <1>7 DEF CommentsStay, rows
<1>8. QED BY <1>3, <1>4, <1>5, <1>6, <1>7, WriteCases

\* A write either goes on to its invalidation with the locals it had, or is
\* answered: with an error, or because it found no row and wrote nothing.
LEMMA WriteMoves ==
    ASSUME Located, NEW r \in Requests, Write(r)
    PROVE  /\ Located' /\ OnlyMoves(r)
           /\ \/ pc'[r] = "invalidate" /\ req'[r] = req[r]
              \/ pc'[r] = "error"
              \/ UNCHANGED rows
<1>1. pc[r] = "write" /\ UNCHANGED <<muted, cache>>
  BY DEF Write
<1>2. WrittenThen(r, "invalidate") \/ (Reply(r, "notfound") /\ UNCHANGED rows)
  BY DEF Write, WriteLike, WriteComment, WriteUncomment, WriteDeletePost, rows
<1>3. CASE WrittenThen(r, "invalidate")
  <2>1. ~ Reply(r, "notfound")
    BY <1>3 DEF WrittenThen, Goto, Reply, Located, TypeOK
  <2>2. QED BY <1>1, <1>3, <2>1, WriteTyped, WrittenKeeps
<1>4. CASE Reply(r, "notfound") /\ UNCHANGED rows
  BY <1>1, <1>4, WriteTyped, WrittenKeeps
<1>5. QED BY <1>2, <1>3, <1>4

LEMMA InvalidateLocates ==
    ASSUME Located, NEW r \in Requests, Invalidate(r) PROVE Located'
<1>1. /\ pc[r] = "invalidate" /\ UNCHANGED <<visibility, muted, rows>>
      /\ Delete(req[r].metric, PostOf(r))
  BY DEF Invalidate
<1>2. req[r] \in Request /\ Writer(r) /\ PostOf(r) \in Posts
  BY <1>1 DEF Located, Local, Steps
<1>3. cache' \in [Metrics -> [Posts -> Entry \cup {None}]]
  <2>1. req[r].metric \in Metrics
    BY <1>2 DEF Request
  <2>2. QED BY <1>1, <1>2, <2>1, Erased DEF Delete, Located, TypeOK
<1>4. CommentsStay
  BY <1>1 DEF CommentsStay, rows
<1>5. CASE \E a \in Answers : Reply(r, a)
  <2>1. TypeOK' /\ OnlyMoves(r) /\ pc'[r] \in Answers
    BY <1>1, <1>3, <1>5, ReplyTyped DEF Located, TypeOK, rows
  <2>2. QED BY <1>4, <2>1, Answered, OthersSurvive
<1>6. CASE Goto(r, "count")
  <2>1. TypeOK' /\ OnlyMoves(r) /\ pc'[r] = "count" /\ req'[r] = req[r]
    BY <1>1, <1>3, <1>6, GotoTyped DEF Located, TypeOK, rows, Steps
  <2>2. Local(r)'
    BY <1>2, <2>1 DEF Local
  <2>3. QED BY <1>4, <2>1, <2>2, OthersSurvive
<1>7. CASE /\ Kind(r) = "deletePost"
           /\ req' = [req EXCEPT ![r].metric = "comments"]
           /\ UNCHANGED pc
  <2> DEFINE locals == [req[r] EXCEPT !.metric = "comments"]
  <2>1. /\ locals \in Request /\ locals.kind = "deletePost"
        /\ locals.post = PostOf(r)
    BY <1>2, <1>7 DEF Request, Metrics, Kind, PostOf
  <2>2. "invalidate" \in Steps /\ req' = [req EXCEPT ![r] = locals]
        /\ pc' = [pc EXCEPT ![r] = "invalidate"]
    BY <1>1, <1>7 DEF Steps, Located, TypeOK
  <2> HIDE DEF locals
  <2>3. TypeOK' /\ OnlyMoves(r) /\ pc'[r] = "invalidate" /\ req'[r] = locals
    BY <1>1, <1>3, <2>1, <2>2, SetTyped DEF Located, TypeOK, rows
  <2>4. Local(r)'
    BY <1>2, <2>1, <2>3 DEF Local, Writer, Writing, Interacting, Kind, User, PostOf
  <2>5. QED BY <1>4, <2>3, <2>4, OthersSurvive
<1>8. QED BY <1>5, <1>6, <1>7 DEF Invalidate, Answers

LEMMA BeginReadLocates ==
    ASSUME Located, NEW r \in Requests, BeginRead(r) PROVE Located'
<1>1. PICK m \in Metrics, ids \in SUBSET Posts :
          req' = [req EXCEPT ![r] = [Blank("read") EXCEPT !.metric = m, !.ids = ids]]
  BY DEF BeginRead
<1> DEFINE locals == [Blank("read") EXCEPT !.metric = m, !.ids = ids]
<1>2. locals \in Request
  BY Reads
<1>3. /\ req' = [req EXCEPT ![r] = locals] /\ pc' = [pc EXCEPT ![r] = "get"]
      /\ "get" \in Steps /\ Quiet
  BY <1>1 DEF BeginRead, Steps, Quiet
<1> HIDE DEF locals
<1>4. pc'[r] = "get" /\ req'[r] = locals => Local(r)'
  BY <1>2 DEF Local
<1>5. QED BY <1>2, <1>3, <1>4, SetKeeps

\* The hits of MGET, as the locals keep them.
Hits(r) == [p \in Posts |-> IF /\ p \in req[r].ids
                               /\ cache[req[r].metric][p] # None
                            THEN cache[req[r].metric][p].count ELSE None]

LEMMA GetManyLocates ==
    ASSUME Located, NEW r \in Requests, GetMany(r) PROVE Located'
<1>1. Quiet /\ pc[r] = "get"
  BY DEF GetMany, Quiet
<1>2. req[r] \in Request
  BY <1>1 DEF Located, Local, Steps
<1>3. PICK found \in {Hits(r), NoCounts} :
          IF Missing(found, req[r].ids) = {}
          THEN Reply(r, "ok")
          ELSE /\ req' = [req EXCEPT ![r].counts = found, ![r].ids = Missing(found, @)]
               /\ pc' = [pc EXCEPT ![r] = "load"]
  BY DEF GetMany, Hits
<1>4. found \in [Posts -> Nat \cup {None}]
  <2>1. cache[req[r].metric] \in [Posts -> Entry \cup {None}]
    BY <1>2 DEF Located, TypeOK, Request
  <2>2. Hits(r) \in [Posts -> Nat \cup {None}]
    BY <2>1 DEF Hits, Entry
  <2>3. QED BY <1>3, <2>2 DEF NoCounts
<1>5. CASE Missing(found, req[r].ids) = {}
  BY <1>1, <1>3, <1>5, ReplyKeeps DEF Answers
<1>6. CASE Missing(found, req[r].ids) # {}
  <2> DEFINE locals == [req[r] EXCEPT !.counts = found, !.ids = Missing(found, @)]
  <2>1. Missing(found, req[r].ids) \in SUBSET Posts
    BY <1>2 DEF Missing, Request
  <2>2. locals \in Request
    BY <1>2, <1>4, <2>1 DEF Request
  <2>3. req' = [req EXCEPT ![r] = locals] /\ pc' = [pc EXCEPT ![r] = "load"]
    BY <1>2, <1>3, <1>6 DEF Located, TypeOK
  <2> HIDE DEF locals
  <2>4. pc'[r] = "load" /\ req'[r] = locals => Local(r)'
    BY <2>2 DEF Local
  <2>5. QED BY <1>1, <2>2, <2>3, <2>4, SetKeeps DEF Steps
<1>7. QED BY <1>5, <1>6

LEMMA LoadCountsLocates ==
    ASSUME Located, NEW r \in Requests, LoadCounts(r) PROVE Located'
<1>1. Quiet /\ pc[r] = "load"
  BY DEF LoadCounts, Quiet
<1>2. req[r] \in Request
  BY <1>1 DEF Located, Local, Steps
<1> DEFINE loaded == [p \in Posts |-> IF p \in req[r].ids
                          THEN Count(req[r].metric, p) ELSE req[r].counts[p]]
           locals == [req[r] EXCEPT !.counts = loaded]
<1>3. /\ loaded \in [Posts -> Nat \cup {None}]
      /\ \A p \in req[r].ids : loaded[p] \in Nat
  BY <1>2, CountTyped DEF Request
<1>4. req' = [req EXCEPT ![r] = locals] /\ pc' = [pc EXCEPT ![r] = "set"]
  BY DEF LoadCounts
<1> HIDE DEF loaded
<1>5. /\ locals \in Request
      /\ \A p \in locals.ids : locals.counts[p] \in Nat
  BY <1>2, <1>3 DEF Request
<1> HIDE DEF locals
<1>6. pc'[r] = "set" /\ req'[r] = locals => Local(r)'
  BY <1>5 DEF Local
<1>7. QED BY <1>1, <1>4, <1>5, <1>6, SetKeeps DEF Steps

\* What a reader leaves in the cache: fresh entries for some of its posts.
LEMMA Stored ==
    ASSUME Located, NEW r \in Requests, SetMany(r)
    PROVE  /\ pc[r] = "set" /\ Reply(r, "ok") /\ UNCHANGED <<visibility, muted, rows>>
           /\ cache' \in [Metrics -> [Posts -> Entry \cup {None}]]
           /\ \A m \in Metrics, p \in Posts : cache'[m][p] # cache[m][p] =>
                  m = req[r].metric /\ p \in req[r].ids
<1>1. pc[r] = "set" /\ Reply(r, "ok") /\ UNCHANGED <<visibility, muted, rows>>
  BY DEF SetMany
<1>2. PICK stored \in SUBSET req[r].ids :
          cache' = [cache EXCEPT ![req[r].metric] =
               [p \in Posts |-> IF p \in stored
                                THEN [count |-> req[r].counts[p], life |-> TTL]
                                ELSE @[p]]]
  BY DEF SetMany
<1>3. /\ req[r].metric \in Metrics /\ req[r].ids \subseteq Posts
      /\ \A p \in req[r].ids : req[r].counts[p] \in Nat
  BY <1>1 DEF Located, Local, Steps, Request
<1> DEFINE m0 == req[r].metric
           after == [p \in Posts |-> IF p \in stored
                                     THEN [count |-> req[r].counts[p], life |-> TTL]
                                     ELSE cache[m0][p]]
<1>4. /\ cache \in [Metrics -> [Posts -> Entry \cup {None}]] /\ TTL \in 1 .. TTL
      /\ cache' = [cache EXCEPT ![m0] = after]
  BY <1>2, <1>3, ConstantsOK DEF Located, TypeOK
<1>5. after \in [Posts -> Entry \cup {None}]
  BY <1>3, <1>4 DEF Entry
<1>6. \A p \in Posts : after[p] # cache[m0][p] => p \in req[r].ids
  BY <1>2
<1> HIDE DEF after
<1>7. QED BY <1>1, <1>3, <1>4, <1>5, <1>6

LEMMA SetManyLocates ==
    ASSUME Located, NEW r \in Requests, SetMany(r) PROVE Located'
<1>1. TypeOK' /\ OnlyMoves(r) /\ pc'[r] \in Answers
  BY Stored, ReplyTyped DEF Located, TypeOK, rows, Answers
<1>2. CommentsStay
  BY Stored DEF CommentsStay, rows
<1>3. QED BY <1>1, <1>2, Answered, OthersSurvive

\* A tick takes expired keys away and leaves the counts of the others.
LEMMA Ticked ==
    ASSUME Located, Tick
    PROVE  /\ cache' \in [Metrics -> [Posts -> Entry \cup {None}]]
           /\ \A m \in Metrics, p \in Posts : cache'[m][p] # None =>
                  cache[m][p] # None /\ cache'[m][p].count = cache[m][p].count
<1>1. ASSUME NEW m \in Metrics, NEW p \in Posts
      PROVE  /\ cache'[m][p] \in Entry \cup {None}
             /\ cache'[m][p] # None =>
                    cache[m][p] # None /\ cache'[m][p].count = cache[m][p].count
  <2>1. cache'[m][p] = IF cache[m][p] = None THEN None ELSE Aged(cache[m][p])
    BY DEF Tick
  <2>2. cache[m][p] \in Entry \cup {None}
    BY DEF Located, TypeOK
  <2>3. ASSUME NEW e \in Entry
        PROVE  Aged(e) \in Entry \cup {None} /\ (Aged(e) # None => Aged(e).count = e.count)
    <3>1. TTL \in Nat \ {0} /\ e.life \in 1 .. TTL
      BY ConstantsOK DEF Entry
    <3>2. e.life # 1 => e.life - 1 \in 1 .. TTL
      BY <3>1
    <3>3. QED BY <3>2 DEF Aged, Entry
  <2>4. QED BY <2>1, <2>2, <2>3
<1>2. cache' \in [Metrics -> [Posts -> Entry \cup {None}]]
  BY <1>1 DEF Tick
<1>3. QED BY <1>1, <1>2

\* A step of the environment moves no request and touches no row.
LEMMA EnvironmentLocates ==
    ASSUME Located, SetVisible \/ SetStatus \/ Tick \/ Evict
    PROVE  Located' /\ UNCHANGED <<rows, req, pc>>
<1>1. UNCHANGED <<rows, req, pc>>
  BY DEF SetVisible, SetStatus, Tick, Evict
<1>2. /\ visibility' \in [Posts -> {"public", "private", "deleted"}]
      /\ muted' \subseteq Users
      /\ cache' \in [Metrics -> [Posts -> Entry \cup {None}]]
  <2>1. CASE SetVisible
    BY <2>1, ConstantsOK DEF SetVisible, Located, TypeOK
  <2>2. CASE SetStatus
    BY <2>2, ConstantsOK DEF SetStatus, Located, TypeOK
  <2>3. CASE Tick
    BY <2>3, Ticked DEF Tick, Located, TypeOK
  <2>4. CASE Evict
    BY <2>4, Erased DEF Evict, Located, TypeOK
  <2>5. QED BY <2>1, <2>2, <2>3, <2>4
<1>3. TypeOK'
  BY <1>1, <1>2 DEF Located, TypeOK, rows
<1>4. \A x \in Requests : Local(x)'
  <2>1. CommentsStay
    BY <1>1 DEF CommentsStay, rows
  <2>2. QED BY <1>1, <2>1, LocalSurvives DEF Located
<1>5. QED BY <1>1, <1>3, <1>4 DEF Located

LEMMA NextLocates == Located /\ [Next]_vars => Located'
<1> SUFFICES ASSUME Located, [Next]_vars PROVE Located'
  OBVIOUS
<1>1. CASE UNCHANGED vars
  <2>1. TypeOK' /\ CommentsStay
    BY <1>1 DEF vars, Located, TypeOK, CommentsStay
  <2>2. QED BY <1>1, <2>1, LocalSurvives DEF vars, Located
<1>2. ASSUME NEW r \in Requests, Step(r) PROVE Located'
  <2>1. CASE CountLikes(r)
    BY <2>1, ReplyKeeps DEF CountLikes, Quiet, Answers
  <2>2. CASE Write(r)
    BY <2>2, WriteMoves
  <2>3. QED BY <1>2, <2>1, <2>2, CheckActorLocates, CheckPostLocates, CheckCommentLocates,
        InvalidateLocates, GetManyLocates, LoadCountsLocates, SetManyLocates DEF Step
<1>3. ASSUME NEW r \in Requests, Abort(r) PROVE Located'
  BY <1>3, ReplyKeeps DEF Abort, Quiet, Answers
<1>4. CASE SetVisible \/ SetStatus \/ Tick \/ Evict
  BY <1>4, EnvironmentLocates
<1>5. QED BY <1>1, <1>2, <1>3, <1>4, BeginWriteLocates, BeginReadLocates DEF Next
-----------------------------------------------------------------------------
(* Which count a statement can change. *)

LEMMA RowsDecideCounts ==
    ASSUME UNCHANGED rows, NEW m, NEW p PROVE Count(m, p)' = Count(m, p)
  BY DEF Count, rows

LEMMA LikesDecideLikeCounts ==
    ASSUME NEW q, UNCHANGED comments,
           \A u \in Users, x \in Posts :
               x # q => (<<u, x>> \in likes' <=> <<u, x>> \in likes),
           NEW m \in Metrics, NEW p \in Posts,
           Count(m, p)' # Count(m, p)
    PROVE  m = "likes" /\ p = q
<1>1. m = "likes"
  BY DEF Count, Metrics
<1>2. CASE p # q
  <2>1. \A v \in Users : <<v, p>> \in likes' <=> <<v, p>> \in likes
    BY <1>2
  <2>2. {v \in Users : <<v, p>> \in likes'} = {v \in Users : <<v, p>> \in likes}
    BY <2>1
  <2>3. QED BY <1>1, <2>2 DEF Count
<1>3. QED BY <1>1, <1>2

LEMMA CommentsDecideCommentCounts ==
    ASSUME NEW q, UNCHANGED likes, NEW m \in Metrics, NEW p \in Posts,
           \A k \in CommentIds : comments'[k] # comments[k] =>
               /\ comments[k] # None => comments[k].post = q
               /\ comments'[k] # None => comments'[k].post = q,
           Count(m, p)' # Count(m, p)
    PROVE  m = "comments" /\ p = q
<1>1. m = "comments"
  BY DEF Count, Metrics
<1>2. CASE p # q
  <2> DEFINE Of(c, k) == c[k] # None /\ c[k].post = p /\ ~c[k].deleted
  <2>1. \A k \in CommentIds : Of(comments', k) <=> Of(comments, k)
    BY <1>2
  <2>2. {k \in CommentIds : Of(comments', k)} = {k \in CommentIds : Of(comments, k)}
    BY <2>1
  <2>3. QED BY <1>1, <2>2 DEF Count, Metrics
<1>3. QED BY <1>1, <1>2

\* A write outdates no count but the one whose key its request will delete.
LEMMA WriteOutdates ==
    ASSUME Located, NEW r \in Requests, Write(r), NEW m \in Metrics, NEW p \in Posts,
           Count(m, p)' # Count(m, p)
    PROVE  p = PostOf(r) /\ m = req[r].metric
<1>1. pc[r] = "write" /\ Writer(r) /\ PostOf(r) \in Posts
  BY DEF Write, Located, Local
<1>2. CASE /\ Kind(r) \in {"like", "unlike"}
           /\ likes' \in {likes \cup {<<User(r), PostOf(r)>>},
                          likes \ {<<User(r), PostOf(r)>>}}
           /\ UNCHANGED <<visibility, comments>>
  <2>1. \A u \in Users, x \in Posts : x # PostOf(r) =>
            (<<u, x>> \in likes' <=> <<u, x>> \in likes)
    BY <1>2
  <2>2. m = "likes" /\ p = PostOf(r)
    BY <1>2, <2>1, LikesDecideLikeCounts
  <2>3. QED BY <1>1, <1>2, <2>2 DEF Writer, MetricOf
<1>3. CASE /\ Kind(r) = "comment"
           /\ UNCHANGED <<visibility, likes>>
           /\ \E k \in CommentIds :
                  /\ comments[k] = None
                  /\ comments' = [comments EXCEPT ![k] = NewComment(r)]
  <2>1. PICK k \in CommentIds : /\ comments[k] = None
                                /\ comments' = [comments EXCEPT ![k] = NewComment(r)]
    BY <1>3
  <2>2. \A j \in CommentIds : comments'[j] # comments[j] =>
            comments[j] = None /\ comments'[j].post = PostOf(r)
    BY <2>1 DEF Located, TypeOK, NewComment
  <2>3. m = "comments" /\ p = PostOf(r)
    BY <1>3, <2>2, CommentsDecideCommentCounts
  <2>4. QED BY <1>1, <1>3, <2>3 DEF Writer, MetricOf
<1>4. CASE /\ Kind(r) = "uncomment"
           /\ req[r].comment \in CommentIds
           /\ CommentOf(r) \in Comment /\ CommentOf(r).post = PostOf(r)
           /\ comments' = [comments EXCEPT ![req[r].comment].deleted = TRUE]
           /\ UNCHANGED <<visibility, likes>>
  <2>1. \A j \in CommentIds : comments'[j] # comments[j] =>
            comments[j].post = PostOf(r) /\ comments'[j].post = PostOf(r)
    BY <1>4 DEF Located, TypeOK, Comment, CommentOf
  <2>2. m = "comments" /\ p = PostOf(r)
    BY <1>4, <2>1, CommentsDecideCommentCounts
  <2>3. QED BY <1>1, <1>4, <2>2 DEF Writer, MetricOf
<1>5. CASE UNCHANGED rows
  BY <1>5, RowsDecideCounts
<1>6. QED BY <1>2, <1>3, <1>4, <1>5, WriteCases DEF rows
-----------------------------------------------------------------------------
(* The two history invariants. *)

\* A count that becomes wrong has a cause, or awaits its invalidation.
LEMMA BecomesWrong ==
    ASSUME Located, Next, NEW m \in Metrics, NEW p \in Posts,
           Wrong(m, p)', ~ Wrong(m, p)
    PROVE  Excuse(m, p) \/ \E r \in Requests : AwaitsInvalidation(r, m, p)'
<1>1. CASE \E r \in Requests : Write(r)
  <2>1. PICK r \in Requests : Write(r)
    BY <1>1
  <2>2. pc[r] = "write" /\ UNCHANGED cache
    BY <2>1 DEF Write
  <2>3. Count(m, p)' # Count(m, p)
    BY <2>2 DEF Wrong
  <2>4. p = PostOf(r) /\ m = req[r].metric /\ ~ UNCHANGED rows
    BY <2>1, <2>3, WriteOutdates, RowsDecideCounts
  <2>5. CASE pc'[r] = "invalidate" /\ req'[r] = req[r]
    BY <2>4, <2>5 DEF AwaitsInvalidation, PostOf
  <2>6. CASE pc'[r] = "error"
    BY <2>2, <2>6 DEF Excuse
  <2>7. QED BY <2>1, <2>4, <2>5, <2>6, WriteMoves
<1>2. CASE \E r \in Requests : SetMany(r)
  <2>1. PICK r \in Requests : SetMany(r)
    BY <1>2
  <2>2. cache'[m][p] # cache[m][p]
    BY <2>1, Stored, RowsDecideCounts DEF Wrong
  <2>3. pc[r] = "set" /\ m = req[r].metric /\ p \in req[r].ids
    BY <2>1, <2>2, Stored
  <2>4. pc'[r] = "ok"
    BY <2>1, Stored DEF Reply, Located, TypeOK
  <2>5. QED BY <2>3, <2>4 DEF Excuse
<1>3. CASE Tick
  <2>1. Count(m, p)' = Count(m, p)
    BY <1>3, RowsDecideCounts DEF Tick
  <2>2. QED BY <1>3, <2>1, Ticked DEF Wrong
<1>4. CASE \E r \in Requests : Invalidate(r)
  <2>1. PICK r \in Requests : Invalidate(r)
    BY <1>4
  <2>2. UNCHANGED rows /\ Delete(req[r].metric, PostOf(r)) /\ pc[r] = "invalidate"
    BY <2>1 DEF Invalidate
  <2>3. req[r].metric \in Metrics /\ PostOf(r) \in Posts
    BY <2>2 DEF Located, Local, Steps, Request
  <2>4. cache'[m][p] = cache[m][p] \/ cache'[m][p] = None
    BY <2>2, <2>3, Erased DEF Delete, Located
  <2>5. QED BY <2>2, <2>4, RowsDecideCounts DEF Wrong
<1>5. CASE Evict
  <2>1. UNCHANGED rows
    BY <1>5 DEF Evict
  <2>2. cache'[m][p] = cache[m][p] \/ cache'[m][p] = None
    BY <1>5, Erased DEF Evict, Located
  <2>3. QED BY <2>1, <2>2, RowsDecideCounts DEF Wrong
<1>6. CASE UNCHANGED <<rows, cache>>
  BY <1>6, RowsDecideCounts DEF Wrong
<1>7. \/ \E r \in Requests : Write(r) \/ SetMany(r) \/ Invalidate(r)
      \/ Tick \/ Evict
      \/ UNCHANGED <<rows, cache>>
  BY DEF Next, Step, BeginWrite, BeginRead, Abort, CheckActor, CheckPost, CheckComment,
     CountLikes, GetMany, LoadCounts, SetVisible, SetStatus
<1>8. QED BY <1>1, <1>2, <1>3, <1>4, <1>5, <1>6, <1>7

LEMMA ExplainedKept ==
    ASSUME Located, Located', WrongCountsAreExplained, HNext
    PROVE  WrongCountsAreExplained'
<1> SUFFICES ASSUME NEW m \in Metrics, NEW p \in Posts, Wrong(m, p)',
                    \A r \in Requests : ~ AwaitsInvalidation(r, m, p)'
             PROVE  <<m, p>> \in excused'
  BY DEF WrongCountsAreExplained, Located
<1>1. excused' = {mp \in Metrics \X Posts :
                      /\ Wrong(mp[1], mp[2])'
                      /\ mp \in excused \/ Excuse(mp[1], mp[2])}
  BY DEF HNext, History
<1>2. <<m, p>> \in excused \/ Excuse(m, p)
  <2>1. CASE Wrong(m, p)
    <3>1. <<m, p>> \in excused \/ \E r \in Requests : AwaitsInvalidation(r, m, p)
      BY <2>1 DEF WrongCountsAreExplained
    <3>2. QED BY <3>1 DEF Excuse
  <2>2. CASE ~ Wrong(m, p)
    BY <2>2, BecomesWrong DEF HNext
  <2>3. QED BY <2>1, <2>2
<1>3. QED BY <1>1, <1>2

\* Every request but the one that takes the step stays where it is.
LEMMA OneMoves ==
    ASSUME Located, NEW x \in Requests,
           BeginWrite(x) \/ BeginRead(x) \/ Step(x) \/ Abort(x)
    PROVE  OnlyMoves(x)
<1>1. DOMAIN pc = Requests /\ DOMAIN req = Requests
  BY DEF Located, TypeOK
<1>2. ASSUME NEW a, Reply(x, a) \/ Goto(x, a) PROVE OnlyMoves(x)
  BY <1>1, <1>2 DEF Reply, Goto, OnlyMoves
<1>3. CASE BeginWrite(x)
  BY <1>1, <1>3 DEF BeginWrite, OnlyMoves
<1>4. CASE BeginRead(x)
  BY <1>1, <1>4 DEF BeginRead, OnlyMoves
<1>5. CASE GetMany(x)
  <2>1. CASE Reply(x, "ok")
    BY <1>2, <2>1
  <2>2. CASE ~ Reply(x, "ok")
    BY <1>1, <1>5, <2>2 DEF GetMany, OnlyMoves
  <2>3. QED BY <2>1, <2>2
<1>6. CASE LoadCounts(x)
  BY <1>1, <1>6 DEF LoadCounts, OnlyMoves
<1>7. CASE CheckComment(x) \/ Invalidate(x)
  BY <1>1, <1>2, <1>7 DEF CheckComment, Invalidate, OnlyMoves
<1>8. CASE CheckActor(x) \/ CheckPost(x) \/ CountLikes(x) \/ SetMany(x) \/ Abort(x)
  BY <1>2, <1>8 DEF CheckActor, CheckPost, CountLikes, SetMany, Abort
<1>9. CASE Write(x)
  BY <1>9, WriteMoves
<1>10. QED BY <1>3, <1>4, <1>5, <1>6, <1>7, <1>8, <1>9 DEF Step

\* Whoever leaves the actor check is not muted, and whoever leaves the post
\* check is about a public post.
LEMMA ChecksHold ==
    ASSUME Located, Next, NEW r \in Requests, pc'[r] \in Steps, pc'[r] # pc[r]
    PROVE  /\ pc[r] = "actor" => /\ req'[r] = req[r] /\ User(r) \notin muted'
                                 /\ pc'[r] = "post" \/ Kind(r) = "uncomment"
           /\ pc[r] = "post" => req'[r] = req[r] /\ visibility'[PostOf(r)] = "public"
<1>1. BeginWrite(r) \/ BeginRead(r) \/ Step(r) \/ Abort(r)
  <2>1. \A x \in Requests : BeginWrite(x) \/ BeginRead(x) \/ Step(x) \/ Abort(x) => x = r
    BY OneMoves DEF OnlyMoves
  <2>2. ~ (SetVisible \/ SetStatus \/ Tick \/ Evict)
    BY EnvironmentLocates
  <2>3. QED BY <2>1, <2>2 DEF Next
<1>2. \A a \in Answers : ~ Reply(r, a)
  BY DEF Reply, Located, TypeOK, Steps, Answers
<1>3. CASE pc[r] = "actor"
  <2>1. CheckActor(r)
    BY <1>1, <1>2, <1>3 DEF Step, BeginWrite, BeginRead, CheckPost, CheckComment, Write,
       Invalidate, CountLikes, GetMany, LoadCounts, SetMany, Abort, Answers
  <2>2. QED BY <1>2, <1>3, <2>1 DEF CheckActor, IsMuted, Goto, Located, TypeOK, Answers
<1>4. CASE pc[r] = "post"
  <2>1. CheckPost(r)
    BY <1>1, <1>2, <1>4 DEF Step, BeginWrite, BeginRead, CheckActor, CheckComment, Write,
       Invalidate, CountLikes, GetMany, LoadCounts, SetMany, Abort, Answers
  <2>2. QED BY <1>2, <1>4, <2>1 DEF CheckPost, IsPublic, Goto, Answers
<1>5. QED BY <1>3, <1>4

LEMMA BarredKept ==
    ASSUME Located, BarredRequestsWriteNothing, HNext
    PROVE  BarredRequestsWriteNothing'
<1>1. ASSUME NEW r \in Requests, NEW why \in Reasons, <<r, why>> \in barred'
      PROVE  Forbidden(r, why)' /\ (pc'[r] = "actor" \/ <<r, why>> \in barred)
  BY <1>1 DEF HNext, History, Bars
<1>2. ASSUME NEW r \in Requests, <<r, "hidden">> \in barred'
      PROVE  pc'[r] \in {"actor", "post"}
  <2>1. Forbidden(r, "hidden")' /\ (pc'[r] = "actor" \/ <<r, "hidden">> \in barred)
    BY <1>1, <1>2 DEF Reasons
  <2>2. /\ pc'[r] \in Steps /\ req'[r].kind \in Interacting
        /\ visibility'[req'[r].post] # "public"
    BY <2>1 DEF Forbidden, Kind, PostOf
  <2>3. SUFFICES ASSUME pc'[r] # pc[r], pc[r] \in {"actor", "post"}
                 PROVE  pc'[r] \in {"actor", "post"}
    BY <2>1 DEF BarredRequestsWriteNothing
  <2>4. QED BY <2>2, <2>3, ChecksHold DEF HNext, Kind, PostOf, Interacting
<1>3. ASSUME NEW r \in Requests, <<r, "muted">> \in barred'
      PROVE  pc'[r] = "actor"
  <2>1. Forbidden(r, "muted")' /\ (pc'[r] = "actor" \/ <<r, "muted">> \in barred)
    BY <1>1, <1>3 DEF Reasons
  <2>2. pc'[r] \in Steps /\ req'[r].user \in muted'
    BY <2>1 DEF Forbidden, User
  <2>3. SUFFICES ASSUME pc'[r] # pc[r], pc[r] = "actor" PROVE FALSE
    BY <2>1 DEF BarredRequestsWriteNothing
  <2>4. QED BY <2>2, <2>3, ChecksHold DEF HNext, User
<1>4. QED BY <1>2, <1>3 DEF BarredRequestsWriteNothing
-----------------------------------------------------------------------------
LEMMA InitLocates == Init => Located
  BY ConstantsOK DEF Init, Located, Local, TypeOK, Steps

LEMMA InitIInv == HInit => IInv
  BY InitLocates DEF HInit, Init, IInv, BarredRequestsWriteNothing,
     WrongCountsAreExplained, Located, Wrong

LEMMA NextKeepsIInv == IInv /\ [HNext]_hvars => IInv'
<1> SUFFICES ASSUME IInv, [HNext]_hvars PROVE IInv'
  OBVIOUS
<1>1. Located'
  BY NextLocates DEF IInv, HNext, hvars, vars
<1>2. CASE HNext
  BY <1>1, <1>2, ExplainedKept, BarredKept DEF IInv
<1>3. CASE UNCHANGED hvars
  <2>1. \A m \in Metrics, p \in Posts : Wrong(m, p)' <=> Wrong(m, p)
    BY <1>3, RowsDecideCounts DEF hvars, Wrong, rows
  <2>2. \A r \in Requests, m \in Metrics, p \in Posts :
            AwaitsInvalidation(r, m, p)' <=> AwaitsInvalidation(r, m, p)
    BY <1>3 DEF hvars, AwaitsInvalidation, PostOf
  <2>3. WrongCountsAreExplained'
    BY <1>1, <1>3, <2>1, <2>2 DEF hvars, IInv, Located, WrongCountsAreExplained
  <2>4. BarredRequestsWriteNothing'
    BY <1>3 DEF hvars, IInv, BarredRequestsWriteNothing
  <2>5. QED BY <1>1, <2>3, <2>4 DEF IInv
<1>4. QED BY <1>2, <1>3

\* The inductive invariant holds in every reachable state.
THEOREM Invariance == FairHSpec => []IInv
  BY InitIInv, NextKeepsIInv, PTL DEF FairHSpec

\* Every variable of Interactions keeps its type; in particular every cached
\* count is younger than its TTL (post_counts.go).
THEOREM TypeCorrect == Spec => []TypeOK
<1>1. Located => TypeOK
  BY DEF Located
<1>2. QED BY <1>1, InitLocates, NextLocates, PTL DEF Spec

\* Nobody writes a like or a comment on a post that was hidden before the check,
\* or after a mute the service has seen (like_service.go, comment_service.go).
THEOREM BarredWriteNothing == FairHSpec => []BarredRequestsWriteNothing
<1>1. IInv => BarredRequestsWriteNothing
  BY DEF IInv
<1>2. QED BY Invariance, <1>1, PTL

\* A wrong cached count has a known cause or is about to be deleted: every
\* write invalidates the key it outdates, and after its write (like_service.go,
\* comment_service.go, post_service.go).
THEOREM WrongCountsExplained == FairHSpec => []WrongCountsAreExplained
<1>1. IInv => WrongCountsAreExplained
  BY DEF IInv
<1>2. QED BY Invariance, <1>1, PTL
=============================================================================
