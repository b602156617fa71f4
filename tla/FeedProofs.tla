----------------------------- MODULE FeedProofs -----------------------------
(***************************************************************************)
(* Theorems about Pages, the arithmetic of lists; about Posts, for any     *)
(* users, posts, texts and requests; and about Feed, whose readers ask for *)
(* pages of those posts, for any limits, readers and page sizes.           *)
(***************************************************************************)
EXTENDS Feed, FiniteSetTheorems, TLAPS
-----------------------------------------------------------------------------
(* Pages: what the arithmetic of lists promises, for any limits and rows. *)

LEMMA QuotientBound ==
    ASSUME NEW m \in Nat, NEW s \in Nat \ {0}
    PROVE  /\ m \div s \in Nat
           /\ (m \div s) * s <= m
           /\ m < (m \div s) * s + s
    OBVIOUS

LEMMA TimesGrows ==
    ASSUME NEW a \in Nat, NEW b \in Nat, NEW c \in Nat, a <= b
    PROVE  a * c <= b * c
    OBVIOUS

LEMMA NormalizeShape ==
    ASSUME NEW L \in Limits, NEW q, q.no \in Int, q.size \in Int
    PROVE  /\ Normalize(L, q).size \in 1 .. L.largest
           /\ Normalize(L, q).no \in Nat \ {0}
           /\ Normalize(L, q).no - 1 <= L.offset \div Normalize(L, q).size
PROOF
<1> DEFINE size == IF q.size < 1 THEN L.default ELSE Least(q.size, L.largest)
           no == IF q.no < 1 THEN 1 ELSE q.no
<1>1. /\ L.default \in Nat \ {0} /\ L.largest \in Nat \ {0} /\ L.offset \in Nat
      /\ L.default <= L.largest
      BY DEF Limits
<1>2. size \in 1 .. L.largest BY <1>1 DEF Least
<1>3. L.offset \div size \in Nat BY <1>1, <1>2, QuotientBound
<1>4. no \in Nat \ {0} OBVIOUS
<1>5. Normalize(L, q) = [no |-> Least(no, L.offset \div size + 1), size |-> size]
      BY DEF Normalize, Query
<1> HIDE DEF size, no
<1> QED BY <1>2, <1>3, <1>4, <1>5 DEF Least

\* Whatever the caller passes, the query that reaches MySQL is one the limits
\* allow (pagination.Query.Normalize).
THEOREM NormalizedIsAllowed ==
    ASSUME NEW L \in Limits, NEW q, q.no \in Int, q.size \in Int
    PROVE  IsOffsetAllowed(L, Normalize(L, q)) /\ Normalize(L, q).size <= L.largest
BY NormalizeShape DEF IsOffsetAllowed

\* No OFFSET exceeds the limit, so no product overflows (pagination.Query.Offset).
THEOREM OffsetsAreBounded ==
    ASSUME NEW L \in Limits, NEW q, q.no \in Int, q.size \in Int
    PROVE  Offset(L, q) \in 0 .. L.offset
PROOF
<1> DEFINE n == Normalize(L, q).no - 1
           s == Normalize(L, q).size
<1>1. /\ s \in Nat \ {0} /\ n \in Nat /\ n <= L.offset \div s
      BY NormalizeShape DEF Limits
<1>2. L.offset \in Nat BY DEF Limits
<1>3. L.offset \div s \in Nat /\ (L.offset \div s) * s <= L.offset
      BY <1>1, <1>2, QuotientBound
<1>4. Offset(L, q) = n * s BY DEF Offset
<1> HIDE DEF n, s
<1>5. n * s <= (L.offset \div s) * s BY <1>1, <1>3, TimesGrows
<1>6. n * s \in Nat BY <1>1
<1>7. (L.offset \div s) * s \in Nat BY <1>1, <1>3
<1> QED BY <1>2, <1>3, <1>4, <1>5, <1>6, <1>7

\* What the HTTP layer accepts reaches the database as it was asked: the
\* correction of the service never answers another page than the client named.
THEOREM AcceptedIsUnchanged ==
    ASSUME NEW L \in Limits, NEW no \in Raw, NEW size \in Raw, IsBindable(L, no, size)
    PROVE  Normalize(L, BoundQuery(L, no, size)) = BoundQuery(L, no, size)
PROOF
<1> DEFINE q == BoundQuery(L, no, size)
<1>1. /\ L.default \in Nat \ {0} /\ L.largest \in Nat \ {0} /\ L.offset \in Nat
      BY DEF Limits
<1>2. q = [no |-> ValueOf(no, 1), size |-> ValueOf(size, L.default)]
      BY DEF BoundQuery, Query
<1>3. ValueOf(no, 1) \in Nat \ {0}
      BY NumbersOK DEF IsBindable, IsPositiveInt, ValueOf, Ints
<1>4. ValueOf(size, L.default) \in 1 .. L.largest
      BY <1>1, NumbersOK DEF IsBindable, IsPositiveInt, ValueOf, Ints
<1>5. ValueOf(no, 1) - 1 <= L.offset \div ValueOf(size, L.default)
      BY <1>2 DEF IsBindable, IsOffsetAllowed
<1>6. L.offset \div ValueOf(size, L.default) \in Nat
      BY <1>1, <1>4, QuotientBound
<1> QED BY <1>1, <1>2, <1>3, <1>4, <1>5, <1>6 DEF Normalize, Query, Least

\* A page that is offered is accepted when the client asks for it.
THEOREM OffersAreAccepted ==
    ASSUME NEW L \in Limits, NEW no \in Raw, NEW size \in Raw, IsBindable(L, no, size),
           NextIsAllowed(L, BoundQuery(L, no, size))
    PROVE  LET next == NextQuery(BoundQuery(L, no, size))
           IN  IsBindable(L, next.no, next.size)
PROOF
<1> DEFINE q == BoundQuery(L, no, size)
<1>1. /\ L.default \in Nat \ {0} /\ L.largest \in Nat \ {0} /\ L.offset \in Nat
      /\ L.largest + L.offset < MaxInt
      BY DEF Limits
<1>2. q.no = ValueOf(no, 1) /\ q.size = ValueOf(size, L.default)
      BY DEF BoundQuery, Query
<1>3. q.no \in Nat \ {0}
      BY <1>2, NumbersOK DEF IsBindable, IsPositiveInt, ValueOf, Ints
<1>4. q.size \in 1 .. L.largest
      BY <1>1, <1>2, NumbersOK DEF IsBindable, IsPositiveInt, ValueOf, Ints
<1>5. q.no <= L.offset \div q.size BY DEF NextIsAllowed
<1>6. L.offset \div q.size \in Nat /\ L.offset \div q.size <= L.offset
  <2> DEFINE d == L.offset \div q.size
             s == q.size
  <2>1. d \in Nat /\ d * s <= L.offset BY <1>1, <1>4, QuotientBound
  <2>2. s \in Nat \ {0} BY <1>1, <1>4
  <2> HIDE DEF d, s
  <2>3. 1 * d <= s * d BY <2>1, <2>2, TimesGrows
  <2>4. s * d = d * s /\ 1 * d = d BY <2>1, <2>2
  <2>5. d <= d * s /\ d * s \in Nat BY <2>1, <2>2, <2>3, <2>4
  <2>6. d <= L.offset BY <1>1, <2>1, <2>5
  <2> QED BY <2>1, <2>6 DEF d, s
<1> DEFINE next == NextQuery(q)
<1>7. next.no = q.no + 1 /\ next.size = q.size BY DEF NextQuery, Query
<1> HIDE DEF q, next
<1>8. next.no \in Ints /\ next.size \in Ints
      BY <1>1, <1>3, <1>4, <1>5, <1>6, <1>7, NumbersOK DEF Ints
<1>9. /\ next.no > 0 /\ next.size > 0 /\ next.size <= L.largest
      /\ next.no # Absent /\ next.size # Absent
      BY <1>1, <1>3, <1>4, <1>7, <1>8, NumbersOK DEF Ints
<1>10. next.no - 1 <= L.offset \div next.size BY <1>3, <1>5, <1>7
<1>11. BoundQuery(L, next.no, next.size) = [no |-> next.no, size |-> next.size]
       BY <1>9 DEF BoundQuery, ValueOf, Query
<1>12. IsBindable(L, next.no, next.size)
       BY <1>8, <1>9, <1>10, <1>11 DEF IsBindable, IsPositiveInt, ValueOf, IsOffsetAllowed
<1> QED BY <1>12 DEF q, next

\* Every row up to the limit is on a page that may be asked for, whatever the
\* size of the pages: the limit cuts the end of a list and leaves no gap in it.
THEOREM RowsAreReachable ==
    ASSUME NEW L \in Limits, NEW row \in 0 .. L.offset, NEW size \in 1 .. L.largest
    PROVE  LET q == Query(row \div size + 1, size)
           IN  /\ IsOffsetAllowed(L, q)
               /\ Offset(L, q) <= row
               /\ row < Offset(L, q) + size
PROOF
<1> DEFINE k == row \div size
           m == L.offset \div size
<1>1. /\ L.largest \in Nat \ {0} /\ L.offset \in Nat
      BY DEF Limits
<1>2. size \in Nat \ {0} /\ size <= L.largest BY <1>1
<1>3. k \in Nat /\ k * size <= row /\ row < k * size + size
      BY <1>1, <1>2, QuotientBound
<1>4. m \in Nat /\ m * size <= L.offset /\ L.offset < m * size + size
      BY <1>1, <1>2, QuotientBound
<1>5. k <= m
  <2>1. SUFFICES ASSUME m + 1 <= k PROVE FALSE
        BY <1>3, <1>4
  <2>2. (m + 1) * size <= k * size BY <1>2, <1>3, <1>4, <2>1, TimesGrows
  <2>3. (m + 1) * size = m * size + size BY <1>2, <1>4
  <2>4. row <= L.offset /\ row \in Nat BY <1>1
  <2>5. k * size \in Nat /\ m * size \in Nat BY <1>2, <1>3, <1>4
  <2> QED BY <1>1, <1>2, <1>3, <1>4, <2>2, <2>3, <2>4, <2>5
<1> DEFINE q == Query(k + 1, size)
<1>6. q.no = k + 1 /\ q.size = size BY DEF Query
<1>7. IsOffsetAllowed(L, q) BY <1>2, <1>3, <1>5, <1>6 DEF IsOffsetAllowed
<1>8. Normalize(L, q) = q
  <2>1. ~(q.size < 1) /\ ~(q.no < 1) BY <1>2, <1>3, <1>6
  <2>2. Least(q.size, L.largest) = size BY <1>1, <1>2, <1>6 DEF Least
  <2>3. Least(q.no, m + 1) = k + 1
    <3> HIDE DEF k, m, q
    <3> QED BY <1>3, <1>4, <1>5, <1>6 DEF Least
  <2> QED BY <2>1, <2>2, <2>3 DEF Normalize
<1>9. Offset(L, q) = k * size BY <1>3, <1>6, <1>8 DEF Offset
<1> QED BY <1>3, <1>7, <1>9

\* A search result quotes the whole keyword where it was found, in a window of
\* bounded length inside the text (searchExcerpt: 30 runes before the match, 120
\* in all, and keywords of at most 50).
THEOREM ExcerptShowsMatch ==
    ASSUME NEW length \in Nat, NEW match \in Nat, NEW runes \in Nat, NEW bytes \in Nat,
           IsKeyword(runes, bytes), match + runes <= length
    PROVE  /\ 0 <= ExcerptStart(match) /\ ExcerptStart(match) <= match
           /\ match + runes <= ExcerptEnd(length, match)
           /\ ExcerptEnd(length, match) <= length
           /\ ExcerptEnd(length, match) - ExcerptStart(match) <= MaxExcerptRunes
BY DEF IsKeyword, ExcerptStart, ExcerptEnd, Least, MaxExcerptRunes, ContextBeforeMatch

\* The comparison of hot posts is a strict total order of posts with different
\* ids: sort.Slice yields one ranking, whatever the order MySQL returned them in.
THEOREM HotPostsAreOrdered ==
    ASSUME NEW p \in HotPost, NEW q \in HotPost, NEW r \in HotPost
    PROVE  /\ ~IsHotter(p, p)
           /\ IsHotter(p, q) => ~IsHotter(q, p)
           /\ p.id # q.id => IsHotter(p, q) \/ IsHotter(q, p)
           /\ IsHotter(p, q) /\ IsHotter(q, r) => IsHotter(p, r)
BY DEF HotPost, IsHotter, ScoreMillis
-----------------------------------------------------------------------------
(***************************************************************************)
(* Posts.                                                                  *)
(*                                                                         *)
(* The invariant keeps, for every request under way, what its earlier      *)
(* statements have found out and its write relies on: that the post it     *)
(* read exists and is by this author, that this actor is an administrator. *)
(* It survives the steps of the others because a post, once stored, stays  *)
(* in the table and keeps its author (Grows).                              *)
(***************************************************************************)

\* What a client has given, by the kind of the request.
Formed(r) ==
    /\ req[r] \in Request
    /\ Kind(r) = "create" => /\ req[r].title \in Texts
                             /\ req[r].content \in Texts
    /\ Kind(r) # "create" => req[r].post \in PostIds
    /\ Kind(r) = "visible" => req[r].visible \in Visibilities
    /\ Kind(r) = "pin" => req[r].duration \in Nat

\* Which statements a kind of request executes.
OnCourse(r) ==
    /\ Kind(r) = "create" => pc[r] \in {"actor", "insert"}
    /\ pc[r] = "insert" => Kind(r) = "create"
    /\ pc[r] = "admin" => Kind(r) = "delete"
    /\ pc[r] = "reread" => Kind(r) # "delete"

OwnPost(r) == PostOf(r) # None /\ IsAuthor(r)

\* What the request has found out before it writes.
Entitled(r) ==
    /\ Kind(r) = "edit" /\ pc[r] \in {"actor", "write", "reread"} =>
           /\ req[r].row \in Post
           /\ OwnPost(r)
    /\ Kind(r) = "visible" /\ pc[r] = "write" => OwnPost(r)
    /\ Kind(r) = "delete" /\ pc[r] = "write" => OwnPost(r) \/ Actor(r) \in Admins
    /\ Kind(r) \in Pinning /\ pc[r] # "actor" => Actor(r) \in Admins
    /\ Kind(r) = "pin" /\ pc[r] \in {"write", "reread"} => req[r].until \in Nat

Local(r) == pc[r] \in Steps => Formed(r) /\ OnCourse(r) /\ Entitled(r)

IInv ==
    /\ TypeOK
    /\ \A r \in Requests : Local(r)
    /\ PrivateIsNotPinned

\* A stored post stays in the table, with its author.
Grows ==
    \A p \in PostIds : posts[p] # None =>
        posts'[p] # None /\ posts'[p].author = posts[p].author

\* Only request r moves.
OnlyMoves(r) ==
    \A s \in Requests \ {r} : pc'[s] = pc[s] /\ req'[s] = req[s]

\* What is shown of every step of r.
Preserves(r) ==
    /\ TypeOK'
    /\ (Local(r))'
    /\ PrivateIsNotPinned'
    /\ Grows
    /\ OnlyMoves(r)
-----------------------------------------------------------------------------
(* Replies and local steps *)

LEMMA Replies ==
    ASSUME TypeOK, NEW r \in Requests, NEW answer \in Answers, Reply(r, answer)
    PROVE  /\ req' \in [Requests -> Request \cup {None}]
           /\ pc' \in [Requests -> Steps \cup Answers \cup {"idle"}]
           /\ pc'[r] = answer
           /\ (Local(r))'
           /\ OnlyMoves(r)
BY DEF Reply, TypeOK, Answers, Steps, Local, OnlyMoves

LEMMA Moves ==
    ASSUME TypeOK, NEW r \in Requests, NEW step \in Steps, Goto(r, step)
    PROVE  /\ req' = req
           /\ pc' \in [Requests -> Steps \cup Answers \cup {"idle"}]
           /\ pc'[r] = step
           /\ OnlyMoves(r)
BY DEF Goto, TypeOK, OnlyMoves

\* A step of r that leaves the tables alone.
LEMMA QuietStep ==
    ASSUME IInv, NEW r \in Requests, UNCHANGED <<posts, status, now>>,
           req' \in [Requests -> Request \cup {None}],
           pc' \in [Requests -> Steps \cup Answers \cup {"idle"}],
           (Local(r))', OnlyMoves(r)
    PROVE  Preserves(r)
<1>1. TypeOK'
  BY DEF IInv, TypeOK
<1>2. PrivateIsNotPinned' /\ Grows
  BY DEF IInv, PrivateIsNotPinned, Grows
<1> QED BY <1>1, <1>2 DEF Preserves

LEMMA QuietReply ==
    ASSUME IInv, NEW r \in Requests, UNCHANGED <<posts, status, now>>,
           NEW answer \in Answers, Reply(r, answer)
    PROVE  Preserves(r)
BY Replies, QuietStep DEF IInv
-----------------------------------------------------------------------------
(* Arrival and checks *)

LEMMA InputsAreFormed ==
    ASSUME NEW u \in Users, NEW input \in Inputs(u)
    PROVE  /\ input \in Request
           /\ input.actor = u
           /\ input.kind = "create" => input.title \in Texts /\ input.content \in Texts
           /\ input.kind # "create" => input.post \in PostIds
           /\ input.kind = "visible" => input.visible \in Visibilities
           /\ input.kind = "pin" => input.duration \in Nat
<1> DEFINE WellMade ==
    /\ input \in Request
    /\ input.actor = u
    /\ input.kind = "create" => input.title \in Texts /\ input.content \in Texts
    /\ input.kind # "create" => input.post \in PostIds
    /\ input.kind = "visible" => input.visible \in Visibilities
    /\ input.kind = "pin" => input.duration \in Nat
<1> SUFFICES WellMade
  OBVIOUS
<1> HIDE DEF WellMade
<1>1. ASSUME NEW t \in Texts, NEW c \in Texts,
             input = WithTexts(Blank("create", u, None), t, c)
      PROVE  WellMade
  <2>1. input = [kind |-> "create", actor |-> u, post |-> None, title |-> t, content |-> c,
                 visible |-> None, duration |-> None, row |-> None, until |-> None,
                 attempt |-> 1]
    BY <1>1 DEF WithTexts, Blank
  <2> QED BY <2>1 DEF WellMade, Request, Kinds, Pinning
<1>2. ASSUME NEW p \in PostIds, NEW t \in Texts \cup {None}, NEW c \in Texts \cup {None},
             input = WithTexts(Blank("edit", u, p), t, c)
      PROVE  WellMade
  <2>1. input = [kind |-> "edit", actor |-> u, post |-> p, title |-> t, content |-> c,
                 visible |-> None, duration |-> None, row |-> None, until |-> None,
                 attempt |-> 1]
    BY <1>2 DEF WithTexts, Blank
  <2> QED BY <2>1 DEF WellMade, Request, Kinds, Pinning
<1>3. ASSUME NEW p \in PostIds, NEW v \in Visibilities,
             input = [Blank("visible", u, p) EXCEPT !.visible = v]
      PROVE  WellMade
  BY <1>3 DEF WellMade, Blank, Request, Kinds, Pinning
<1>4. ASSUME NEW p \in PostIds, NEW d \in Durations \cup {Permanent},
             input = [Blank("pin", u, p) EXCEPT !.duration = d]
      PROVE  WellMade
  <2>1. d \in Nat
    BY ConstantsOK
  <2> QED BY <1>4, <2>1 DEF WellMade, Blank, Request, Kinds, Pinning
<1>5. ASSUME NEW k \in {"unpin", "delete"}, NEW p \in PostIds, input = Blank(k, u, p)
      PROVE  WellMade
  BY <1>5 DEF WellMade, Blank, Request, Kinds, Pinning
<1> QED BY <1>1, <1>2, <1>3, <1>4, <1>5 DEF Inputs

LEMMA BeginPreserves ==
    ASSUME IInv, NEW r \in Requests, Begin(r)
    PROVE  Preserves(r)
<1>1. PICK input \in Workload[r] :
          IF IsActive(input.actor)
          THEN /\ pc' = [pc EXCEPT ![r] = FirstStep(input.kind)]
               /\ req' = [req EXCEPT ![r] = input]
          ELSE Reply(r, "rejected")
  BY DEF Begin
<1>2. PICK u \in Users : input \in Inputs(u)
  BY WorkloadOK
<1>3. UNCHANGED <<posts, status, now>>
  BY DEF Begin
<1>4. CASE ~IsActive(input.actor)
  BY <1>1, <1>3, <1>4, QuietReply DEF Answers
<1>5. CASE IsActive(input.actor)
  <2>1. FirstStep(input.kind) \in {"post", "actor"}
        /\ (input.kind = "edit" => FirstStep(input.kind) = "post")
        /\ (input.kind # "edit" => FirstStep(input.kind) = "actor")
    BY DEF FirstStep
  <2>2. pc'[r] = FirstStep(input.kind) /\ req'[r] = input
    BY <1>1, <1>5 DEF IInv, TypeOK
  <2>3. (Formed(r))'
    BY <1>2, <2>2, InputsAreFormed DEF Formed, Kind
  <2>4. (OnCourse(r))'
    BY <2>1, <2>2 DEF OnCourse, Kind
  <2>5. (Entitled(r))'
    BY <2>1, <2>2 DEF Entitled, Kind, Pinning
  <2>6. (Local(r))'
    BY <2>3, <2>4, <2>5 DEF Local
  <2>7. /\ req' \in [Requests -> Request \cup {None}]
        /\ pc' \in [Requests -> Steps \cup Answers \cup {"idle"}]
    BY <1>1, <1>2, <1>5, <2>1, InputsAreFormed DEF IInv, TypeOK, Steps
  <2>8. OnlyMoves(r)
    BY <1>1, <1>5 DEF IInv, TypeOK, OnlyMoves
  <2> QED BY <1>3, <2>6, <2>7, <2>8, QuietStep
<1> QED BY <1>4, <1>5

\* A step that only moves on, with what it makes of the local conditions.
LEMMA QuietMove ==
    ASSUME IInv, NEW r \in Requests, UNCHANGED <<posts, status, now>>,
           NEW step \in Steps, Goto(r, step), Formed(r),
           (OnCourse(r))', (Entitled(r))'
    PROVE  Preserves(r)
<1>1. (Formed(r))'
  BY DEF Formed, Goto, Kind
<1>2. (Local(r))'
  BY <1>1 DEF Local
<1> QED
  BY <1>2, Moves, QuietStep DEF IInv, TypeOK

LEMMA CheckActorPreserves ==
    ASSUME IInv, NEW r \in Requests, CheckActor(r)
    PROVE  Preserves(r)
<1>1. UNCHANGED <<posts, status, now>> /\ pc[r] = "actor"
  BY DEF CheckActor
<1>2. Formed(r) /\ OnCourse(r) /\ Entitled(r)
  BY <1>1 DEF IInv, Local, Steps
<1>3. CASE Reply(r, "rejected")
  BY <1>1, <1>3, QuietReply DEF Answers
<1>4. CASE /\ Kind(r) \in Pinning => Actor(r) \in Admins
           /\ Goto(r, AfterActor(Kind(r)))
  <2>1. /\ AfterActor(Kind(r)) \in {"insert", "write", "post"}
        /\ AfterActor(Kind(r)) = "insert" <=> Kind(r) = "create"
        /\ AfterActor(Kind(r)) = "write" <=> Kind(r) = "edit"
    BY DEF AfterActor
  <2>2. pc'[r] = AfterActor(Kind(r)) /\ req' = req
    BY <1>4, <2>1, Moves DEF IInv, Steps
  <2>3. (OnCourse(r))'
    BY <2>1, <2>2 DEF OnCourse, Kind
  <2>4. (Entitled(r))'
    BY <1>1, <1>2, <1>4, <2>1, <2>2
       DEF Entitled, Kind, Actor, Pinning, OwnPost, PostOf, IsAuthor
  <2> QED BY <1>1, <1>2, <1>4, <2>1, <2>3, <2>4, QuietMove DEF Steps
<1> QED BY <1>3, <1>4 DEF CheckActor

LEMMA CheckAdminPreserves ==
    ASSUME IInv, NEW r \in Requests, CheckAdmin(r)
    PROVE  Preserves(r)
<1>1. UNCHANGED <<posts, status, now>> /\ pc[r] = "admin"
  BY DEF CheckAdmin
<1>2. Formed(r) /\ OnCourse(r) /\ Entitled(r)
  BY <1>1 DEF IInv, Local, Steps
<1>3. CASE Reply(r, "rejected")
  BY <1>1, <1>3, QuietReply DEF Answers
<1>4. CASE Actor(r) \in Admins /\ Goto(r, "write")
  <2>1. pc'[r] = "write" /\ req' = req
    BY <1>4, Moves DEF IInv, Steps
  <2>2. Kind(r) = "delete"
    BY <1>1, <1>2 DEF OnCourse
  <2>3. (OnCourse(r))' /\ (Entitled(r))'
    BY <1>4, <2>1, <2>2 DEF OnCourse, Entitled, Kind, Actor, Pinning
  <2> QED BY <1>1, <1>2, <1>4, <2>3, QuietMove DEF Steps
<1> QED BY <1>3, <1>4 DEF CheckAdmin

\* The overlaid row of an edit is a row.
LEMMA OverlaidIsPost ==
    ASSUME TypeOK, NEW r \in Requests, Formed(r), PostOf(r) \in Post
    PROVE  Overlaid(r) \in Post
<1>1. /\ req[r].title \in Texts \cup {None}
      /\ req[r].content \in Texts \cup {None}
  BY DEF Formed, Request
<1>2. PostOf(r).title \in Texts /\ PostOf(r).content \in Texts
  BY DEF Post
<1>3. /\ Given(req[r].title, PostOf(r).title) \in Texts
      /\ Given(req[r].content, PostOf(r).content) \in Texts
  BY <1>1, <1>2 DEF Given
<1> QED BY <1>3 DEF Overlaid, Post

LEMMA ReadPostPreserves ==
    ASSUME IInv, NEW r \in Requests, ReadPost(r)
    PROVE  Preserves(r)
<1>1. UNCHANGED <<posts, status, now>> /\ pc[r] = "post"
  BY DEF ReadPost
<1>2. Formed(r) /\ OnCourse(r) /\ Entitled(r)
  BY <1>1 DEF IInv, Local, Steps
<1>3. CASE Reply(r, "notfound") \/ Reply(r, "rejected")
  BY <1>1, <1>3, QuietReply DEF Answers
<1>4. CASE /\ InScope(req[r].post)
           /\ Kind(r) = "edit" /\ IsAuthor(r)
           /\ req' = [req EXCEPT ![r].row = Overlaid(r)]
           /\ pc' = [pc EXCEPT ![r] = "actor"]
  <2>1. PostOf(r) \in Post /\ PostOf(r) # None
    BY <1>2, <1>4 DEF InScope, PostOf, Formed, IInv, TypeOK
  <2>2. Overlaid(r) \in Post
    BY <1>2, <2>1, OverlaidIsPost DEF IInv
  <2>3. pc'[r] = "actor" /\ req'[r] = [req[r] EXCEPT !.row = Overlaid(r)]
    BY <1>4 DEF IInv, TypeOK
  <2>4. /\ (Kind(r))' = "edit" /\ (Actor(r))' = Actor(r)
        /\ req'[r].post = req[r].post /\ req'[r].row = Overlaid(r)
        /\ req'[r] \in Request
    BY <1>2, <1>4, <2>2, <2>3 DEF Kind, Actor, Formed, Request
  <2>5. (Formed(r))'
    BY <1>2, <1>4, <2>4 DEF Formed
  <2>6. (OnCourse(r))'
    BY <2>3, <2>4 DEF OnCourse
  <2>7. (PostOf(r))' = PostOf(r)
    BY <1>1, <2>4 DEF PostOf
  <2>8. (Entitled(r))'
    BY <1>4, <2>1, <2>2, <2>3, <2>4, <2>7 DEF Entitled, OwnPost, IsAuthor, Pinning
  <2>9. (Local(r))'
    BY <2>5, <2>6, <2>8 DEF Local
  <2>10. /\ req' \in [Requests -> Request \cup {None}]
         /\ pc' \in [Requests -> Steps \cup Answers \cup {"idle"}]
         /\ OnlyMoves(r)
    BY <1>4, <2>3, <2>4 DEF IInv, TypeOK, OnlyMoves, Steps
  <2> QED BY <1>1, <2>9, <2>10, QuietStep
<1>5. CASE /\ InScope(req[r].post)
           /\ Kind(r) = "delete"
           /\ Goto(r, IF IsAuthor(r) THEN "write" ELSE "admin")
  <2>1. PICK step \in {"write", "admin"} :
            Goto(r, step) /\ (step = "write" => IsAuthor(r))
    BY <1>5
  <2>2. pc'[r] = step /\ req' = req
    BY <2>1, Moves DEF IInv, Steps
  <2>3. (OnCourse(r))'
    BY <1>5, <2>2 DEF OnCourse, Kind
  <2>4. (Entitled(r))'
    BY <1>1, <1>5, <2>1, <2>2
       DEF Entitled, OwnPost, PostOf, IsAuthor, InScope, Kind, Actor, Pinning
  <2> QED BY <1>1, <1>2, <2>1, <2>3, <2>4, QuietMove DEF Steps
<1>6. CASE /\ InScope(req[r].post)
           /\ Kind(r) = "pin"
           /\ req' = [req EXCEPT ![r].until = PinnedUntil(req[r].duration)]
           /\ pc' = [pc EXCEPT ![r] = "write"]
  <2>1. PinnedUntil(req[r].duration) \in Nat
    BY <1>2, <1>6, ConstantsOK DEF PinnedUntil, Formed, IInv, TypeOK
  <2>2. pc'[r] = "write"
        /\ req'[r] = [req[r] EXCEPT !.until = PinnedUntil(req[r].duration)]
    BY <1>6 DEF IInv, TypeOK
  <2>3. /\ (Kind(r))' = "pin" /\ (Actor(r))' = Actor(r)
        /\ req'[r].post = req[r].post /\ req'[r].duration = req[r].duration
        /\ req'[r].until \in Nat
        /\ req'[r] \in Request
    BY <1>2, <1>6, <2>1, <2>2 DEF Kind, Actor, Formed, Request
  <2>4. (Formed(r))' /\ (OnCourse(r))'
    BY <1>2, <1>6, <2>2, <2>3 DEF Formed, OnCourse
  <2>5. (Entitled(r))'
    BY <1>1, <1>2, <1>6, <2>2, <2>3 DEF Entitled, Pinning
  <2>6. (Local(r))'
    BY <2>4, <2>5 DEF Local
  <2>7. /\ req' \in [Requests -> Request \cup {None}]
        /\ pc' \in [Requests -> Steps \cup Answers \cup {"idle"}]
        /\ OnlyMoves(r)
    BY <1>6, <2>2, <2>3 DEF IInv, TypeOK, OnlyMoves, Steps
  <2> QED BY <1>1, <2>6, <2>7, QuietStep
<1>7. CASE /\ InScope(req[r].post)
           /\ Kind(r) = "unpin" \/ (Kind(r) = "visible" /\ IsAuthor(r))
           /\ Goto(r, "write")
  <2>1. pc'[r] = "write" /\ req' = req
    BY <1>7, Moves DEF IInv, Steps
  <2>2. (OnCourse(r))'
    BY <1>7, <2>1 DEF OnCourse, Kind
  <2>3. (Entitled(r))'
    BY <1>1, <1>2, <1>7, <2>1
       DEF Entitled, OwnPost, PostOf, IsAuthor, InScope, Kind, Actor, Pinning
  <2> QED BY <1>1, <1>2, <1>7, <2>2, <2>3, QuietMove DEF Steps
<1> QED BY <1>3, <1>4, <1>5, <1>6, <1>7 DEF ReadPost
-----------------------------------------------------------------------------
(* Writes *)

\* What a statement stores in the place of a post.
Replaces(p, new) ==
    /\ new \in Post
    /\ new.author = posts[p].author
    /\ new.visible = "private" => new.pinnedUntil = None

\* Storing such a row disturbs nobody.
LEMMA RowStored ==
    ASSUME IInv, NEW p \in PostIds, NEW new, posts[p] # None, Replaces(p, new),
           posts' = [posts EXCEPT ![p] = new], UNCHANGED <<status, now>>
    PROVE  /\ posts' \in [PostIds -> Post \cup {None}]
           /\ PrivateIsNotPinned'
           /\ Grows
<1>1. posts'[p] = new /\ \A q \in PostIds \ {p} : posts'[q] = posts[q]
  BY DEF IInv, TypeOK
<1>2. new # None
  BY ConstantsOK DEF Replaces
<1> QED
  BY <1>1, <1>2 DEF IInv, TypeOK, Replaces, PrivateIsNotPinned, Grows

\* The author of a stored post is the author of what becomes of it.
LEMMA OwnPostStays ==
    ASSUME Grows, NEW r \in Requests, Formed(r), Kind(r) # "create", OwnPost(r),
           req'[r] = req[r]
    PROVE  (OwnPost(r))'
<1>1. req[r].post \in PostIds
  BY DEF Formed
<1>2. (PostOf(r))' # None /\ (PostOf(r))'.author = PostOf(r).author
  BY <1>1 DEF Grows, OwnPost, PostOf
<1> QED BY <1>2 DEF OwnPost, IsAuthor, Actor

LEMMA UpdatePreserves ==
    ASSUME IInv, NEW r \in Requests, pc[r] = "write", Kind(r) # "delete",
           NEW matches \in BOOLEAN, NEW new,
           InScope(req[r].post) /\ matches => Replaces(req[r].post, new),
           Update(r, matches, new), UNCHANGED <<status, now>>
    PROVE  Preserves(r)
<1>1. Formed(r) /\ OnCourse(r) /\ Entitled(r)
  BY DEF IInv, Local, Steps
<1>2. Kind(r) # "create" /\ req[r].post \in PostIds
  BY <1>1 DEF OnCourse, Formed
<1>3. /\ posts' \in [PostIds -> Post \cup {None}]
      /\ PrivateIsNotPinned'
      /\ Grows
  <2>1. CASE InScope(req[r].post) /\ matches
    BY <1>2, <2>1, RowStored DEF Update, InScope
  <2>2. CASE ~(InScope(req[r].post) /\ matches)
    BY <2>2 DEF Update, IInv, TypeOK, PrivateIsNotPinned, Grows
  <2> QED BY <2>1, <2>2
<1>4. CASE \E answer \in Answers : Reply(r, answer)
  BY <1>3, <1>4, Replies DEF IInv, TypeOK, Preserves
<1>5. CASE Goto(r, "reread")
  <2>1. /\ pc'[r] = "reread" /\ req' = req /\ OnlyMoves(r)
        /\ pc' \in [Requests -> Steps \cup Answers \cup {"idle"}]
    BY <1>5, Moves DEF IInv, Steps
  <2>2. (Formed(r))' /\ (OnCourse(r))'
    BY <1>1, <1>2, <2>1 DEF Formed, OnCourse, Kind
  <2>3. Kind(r) = "edit" => (OwnPost(r))'
    BY <1>1, <1>3, <2>1, OwnPostStays DEF Entitled
  <2>4. (Entitled(r))'
    BY <1>1, <2>1, <2>3 DEF Entitled, Kind, Actor, Pinning
  <2>5. (Local(r))'
    BY <2>2, <2>4 DEF Local
  <2> QED BY <1>3, <2>1, <2>5 DEF IInv, TypeOK, Preserves
<1> QED BY <1>4, <1>5 DEF Update, ReplyWritten, Answers

LEMMA RowInScope ==
    ASSUME IInv, NEW p \in PostIds, InScope(p)
    PROVE  posts[p] \in Post /\ (posts[p].visible = "private" => posts[p].pinnedUntil = None)
BY DEF IInv, TypeOK, InScope, PrivateIsNotPinned

LEMMA WritePreserves ==
    ASSUME IInv, NEW r \in Requests, Write(r)
    PROVE  Preserves(r)
<1>1. pc[r] = "write" /\ UNCHANGED <<status, now>>
  BY DEF Write
<1>2. Formed(r) /\ OnCourse(r) /\ Entitled(r)
  BY <1>1 DEF IInv, Local, Steps
<1>3. req[r].post \in PostIds
  BY <1>1, <1>2 DEF OnCourse, Formed
<1>4. InScope(req[r].post) =>
          /\ PostOf(r) \in Post
          /\ PostOf(r).visible = "private" => PostOf(r).pinnedUntil = None
  BY <1>3, RowInScope DEF PostOf
<1>5. CASE WriteEdit(r)
  <2>1. req[r].row \in Post
    BY <1>1, <1>2, <1>5 DEF WriteEdit, Entitled
  <2>2. InScope(req[r].post) => Replaces(req[r].post, Edited(r))
    BY <1>4, <2>1 DEF Replaces, Edited, PostOf, Post
  <2> QED BY <1>1, <1>5, <2>2, UpdatePreserves DEF WriteEdit
<1>6. CASE WriteVisible(r)
  <2>1. req[r].visible \in Visibilities
    BY <1>2, <1>6 DEF WriteVisible, Formed
  <2>2. InScope(req[r].post) => Replaces(req[r].post, WithVisibility(r))
    BY <1>4, <2>1, ConstantsOK DEF Replaces, WithVisibility, PostOf, Post
  <2> QED BY <1>1, <1>6, <2>2, UpdatePreserves DEF WriteVisible
<1>7. CASE WritePin(r)
  <2>1. req[r].until \in Nat
    BY <1>1, <1>2, <1>7 DEF WritePin, Entitled
  <2>2. InScope(req[r].post) /\ StillPublic(r) =>
            Replaces(req[r].post, [PostOf(r) EXCEPT !.pinnedUntil = req[r].until])
    BY <1>4, <2>1 DEF Replaces, PostOf, Post, StillPublic
  <2>3. StillPublic(r) \in BOOLEAN
    BY DEF StillPublic
  <2> QED BY <1>1, <1>7, <2>2, <2>3, UpdatePreserves DEF WritePin
<1>8. CASE WriteUnpin(r)
  <2>1. InScope(req[r].post) =>
            Replaces(req[r].post, [PostOf(r) EXCEPT !.pinnedUntil = None])
    BY <1>4 DEF Replaces, PostOf, Post
  <2> QED BY <1>1, <1>8, <2>1, UpdatePreserves DEF WriteUnpin
<1>9. CASE WriteDelete(r)
  <2>1. CASE ~InScope(req[r].post)
    BY <1>1, <1>9, <2>1, QuietReply DEF WriteDelete, Answers
  <2>2. CASE InScope(req[r].post)
    <3> DEFINE new == [PostOf(r) EXCEPT !.deleted = TRUE]
    <3>1. Replaces(req[r].post, new)
      BY <1>4, <2>2 DEF Replaces, PostOf, Post
    <3>2. posts' = [posts EXCEPT ![req[r].post] = new] /\ ReplyWritten(r)
      BY <1>9, <2>2 DEF WriteDelete, PostOf
    <3>3. /\ posts' \in [PostIds -> Post \cup {None}]
          /\ PrivateIsNotPinned'
          /\ Grows
      BY <1>1, <1>3, <2>2, <3>1, <3>2, RowStored DEF InScope
    <3> QED
      BY <1>1, <3>2, <3>3, Replies DEF ReplyWritten, Answers, IInv, TypeOK, Preserves
  <2> QED BY <2>1, <2>2
<1> QED BY <1>5, <1>6, <1>7, <1>8, <1>9 DEF Write

LEMMA InsertPreserves ==
    ASSUME IInv, NEW r \in Requests, Insert(r)
    PROVE  Preserves(r)
<1>1. PICK p \in PostIds :
          /\ posts[p] = None
          /\ posts' = [posts EXCEPT ![p] =
                           NewPost(Actor(r), req[r].title, req[r].content)]
  BY DEF Insert
<1>2. pc[r] = "insert" /\ UNCHANGED <<status, now>>
  BY DEF Insert
<1>3. Formed(r) /\ Kind(r) = "create"
  BY <1>2 DEF IInv, Local, Steps, OnCourse
<1>4. /\ NewPost(Actor(r), req[r].title, req[r].content) \in Post
      /\ NewPost(Actor(r), req[r].title, req[r].content).pinnedUntil = None
  BY <1>3 DEF NewPost, Post, Formed, Request, Actor, Visibilities
<1>5. posts' \in [PostIds -> Post \cup {None}] /\ PrivateIsNotPinned' /\ Grows
  BY <1>1, <1>4 DEF IInv, TypeOK, PrivateIsNotPinned, Grows
<1>6. PICK answer \in {"ok", "error"} : Reply(r, answer)
  BY DEF Insert, ReplyWritten
<1> QED
  BY <1>2, <1>5, <1>6, Replies DEF Answers, IInv, TypeOK, Preserves
-----------------------------------------------------------------------------
(* Resolving an update that affected nothing, and giving up *)

LEMMA ResolveUpdatePreserves ==
    ASSUME IInv, NEW r \in Requests, ResolveUpdate(r)
    PROVE  Preserves(r)
BY QuietReply DEF ResolveUpdate, ResolvedAnswer, Answers

LEMMA ResolvePinPreserves ==
    ASSUME IInv, NEW r \in Requests, ResolvePin(r)
    PROVE  Preserves(r)
<1>1. /\ UNCHANGED <<posts, status, now>>
      /\ pc[r] = "reread"
      /\ Kind(r) = "pin"
  BY DEF ResolvePin
<1>2. Formed(r) /\ OnCourse(r) /\ Entitled(r)
  BY <1>1 DEF IInv, Local, Steps
<1>3. CASE Reply(r, "notfound") \/ Reply(r, "ok")
  BY <1>1, <1>3, QuietReply DEF Answers
<1>4. CASE /\ req' = [req EXCEPT ![r].attempt = 2]
           /\ pc' = [pc EXCEPT ![r] = "write"]
  <2>1. pc'[r] = "write" /\ req'[r] = [req[r] EXCEPT !.attempt = 2]
    BY <1>4 DEF IInv, TypeOK
  <2>2. /\ (Kind(r))' = "pin" /\ (Actor(r))' = Actor(r)
        /\ req'[r].post = req[r].post /\ req'[r].duration = req[r].duration
        /\ req'[r].until = req[r].until
        /\ req'[r] \in Request
    BY <1>1, <1>2, <2>1 DEF Kind, Actor, Formed, Request
  <2>3. (Formed(r))' /\ (OnCourse(r))'
    BY <1>1, <1>2, <2>1, <2>2 DEF Formed, OnCourse
  <2>4. (Entitled(r))'
    BY <1>1, <1>2, <2>1, <2>2 DEF Entitled, Pinning
  <2>5. (Local(r))'
    BY <2>3, <2>4 DEF Local
  <2>6. /\ req' \in [Requests -> Request \cup {None}]
        /\ pc' \in [Requests -> Steps \cup Answers \cup {"idle"}]
        /\ OnlyMoves(r)
    BY <1>4, <2>1, <2>2 DEF IInv, TypeOK, OnlyMoves, Steps
  <2> QED BY <1>1, <2>5, <2>6, QuietStep
<1> QED BY <1>3, <1>4 DEF ResolvePin

LEMMA AbortPreserves ==
    ASSUME IInv, NEW r \in Requests, Abort(r)
    PROVE  Preserves(r)
BY QuietReply DEF Abort, Answers
-----------------------------------------------------------------------------
(* The invariant *)

LEMMA IInvInit == Init => IInv
<1> SUFFICES ASSUME Init PROVE IInv
  OBVIOUS
<1>1. ASSUME NEW p \in FirstPosts
      PROVE  /\ FirstRow[p] \in Post
             /\ FirstRow[p].visible = "private" => FirstRow[p].pinnedUntil = None
  BY ConstantsOK
<1>2. TypeOK
  BY <1>1, ConstantsOK DEF Init, TypeOK, Statuses
<1>3. PrivateIsNotPinned
  BY <1>1, <1>2 DEF Init, PrivateIsNotPinned
<1>4. \A r \in Requests : Local(r)
  BY DEF Init, Local, Steps
<1> QED BY <1>2, <1>3, <1>4 DEF IInv

\* What a request has found out outlives the steps of the others.
LEMMA LocalStays ==
    ASSUME IInv, Grows, NEW s \in Requests, pc'[s] = pc[s], req'[s] = req[s]
    PROVE  (Local(s))'
<1> SUFFICES ASSUME pc[s] \in Steps
             PROVE  (Formed(s))' /\ (OnCourse(s))' /\ (Entitled(s))'
  BY DEF Local
<1>1. Formed(s) /\ OnCourse(s) /\ Entitled(s)
  BY DEF IInv, Local
<1>2. (Kind(s))' = Kind(s) /\ (Actor(s))' = Actor(s)
  BY DEF Kind, Actor
<1>3. (Formed(s))' /\ (OnCourse(s))'
  BY <1>1, <1>2 DEF Formed, OnCourse
<1>4. Kind(s) # "create" /\ OwnPost(s) => (OwnPost(s))'
  BY <1>1, OwnPostStays
<1>5. (Entitled(s))'
  BY <1>1, <1>2, <1>4 DEF Entitled
<1> QED BY <1>3, <1>5

LEMMA RequestStep ==
    ASSUME IInv, NEW r \in Requests, Begin(r) \/ Step(r) \/ Abort(r)
    PROVE  Preserves(r)
BY BeginPreserves, CheckActorPreserves, ReadPostPreserves, CheckAdminPreserves,
   InsertPreserves, WritePreserves, ResolveUpdatePreserves, ResolvePinPreserves,
   AbortPreserves DEF Step

LEMMA IInvStep == IInv /\ [Next]_vars => IInv'
<1> SUFFICES ASSUME IInv, [Next]_vars PROVE IInv'
  OBVIOUS
<1>1. ASSUME NEW r \in Requests, Begin(r) \/ Step(r) \/ Abort(r)
      PROVE  IInv'
  <2>1. Preserves(r)
    BY <1>1, RequestStep
  <2>2. ASSUME NEW s \in Requests PROVE (Local(s))'
    BY <2>1, LocalStays DEF Preserves, OnlyMoves
  <2> QED BY <2>1, <2>2 DEF Preserves, IInv
<1>2. ASSUME UNCHANGED <<posts, req, pc>>, TypeOK' PROVE IInv'
  <2>1. Grows
    BY <1>2 DEF Grows
  <2>2. ASSUME NEW s \in Requests PROVE (Local(s))'
    BY <1>2, <2>1, LocalStays
  <2> QED BY <1>2, <2>2 DEF IInv, PrivateIsNotPinned
<1>3. CASE SetStatus
  <2>1. TypeOK' /\ UNCHANGED <<posts, req, pc>>
    BY <1>3, ConstantsOK DEF SetStatus, IInv, TypeOK
  <2> QED BY <1>2, <2>1
<1>4. CASE Tick
  <2>1. TypeOK' /\ UNCHANGED <<posts, req, pc>>
    BY <1>4 DEF Tick, IInv, TypeOK
  <2> QED BY <1>2, <2>1
<1>5. CASE UNCHANGED vars
  <2>1. TypeOK' /\ UNCHANGED <<posts, req, pc>>
    BY <1>5 DEF vars, IInv, TypeOK
  <2> QED BY <1>2, <2>1
<1> QED BY <1>1, <1>3, <1>4, <1>5 DEF Next

LEMMA Invariance == Spec => []IInv
BY IInvInit, IInvStep, PTL DEF Spec
-----------------------------------------------------------------------------
(* The theorems *)

\* Every reachable state is type correct.
THEOREM TypeCorrect == Spec => []TypeOK
<1>1. IInv => TypeOK
  BY DEF IInv
<1> QED BY <1>1, Invariance, PTL

\* A private post is never pinned, however requests interleave.
THEOREM HiddenIsUnpinned == Spec => []PrivateIsNotPinned
<1>1. IInv => PrivateIsNotPinned
  BY DEF IInv
<1> QED BY <1>1, Invariance, PTL

\* What the statement of r makes of the post it is about.
Becomes(r, row) ==
    \/ Kind(r) = "edit" /\ row = Edited(r)
    \/ Kind(r) = "visible" /\ row = WithVisibility(r)
    \/ /\ Kind(r) = "pin" /\ StillPublic(r)
       /\ row = [PostOf(r) EXCEPT !.pinnedUntil = req[r].until]
    \/ Kind(r) = "unpin" /\ row = [PostOf(r) EXCEPT !.pinnedUntil = None]
    \/ Kind(r) = "delete" /\ row = [PostOf(r) EXCEPT !.deleted = TRUE]

LEMMA UpdateWrites ==
    ASSUME IInv, NEW r \in Requests, pc[r] = "write", NEW matches \in BOOLEAN, NEW new,
           Update(r, matches, new), posts' # posts, req[r].post \in PostIds
    PROVE  /\ InScope(req[r].post) /\ matches
           /\ pc'[r] # "write"
           /\ posts' = [posts EXCEPT ![req[r].post] = new]
BY DEF Update, ReplyWritten, Reply, Goto, IInv, TypeOK

LEMMA WriteWrites ==
    ASSUME IInv, NEW r \in Requests, Write(r), posts' # posts
    PROVE  /\ pc[r] = "write" /\ pc'[r] # "write"
           /\ req[r].post \in PostIds
           /\ InScope(req[r].post)
           /\ \E row : Becomes(r, row) /\ posts' = [posts EXCEPT ![req[r].post] = row]
<1>1. pc[r] = "write"
  BY DEF Write
<1>2. req[r].post \in PostIds
  BY <1>1 DEF IInv, Local, Steps, OnCourse, Formed
<1>3. CASE WriteEdit(r)
  BY <1>1, <1>2, <1>3, UpdateWrites DEF WriteEdit, Becomes
<1>4. CASE WriteVisible(r)
  BY <1>1, <1>2, <1>4, UpdateWrites DEF WriteVisible, Becomes
<1>5. CASE WritePin(r)
  <2>1. StillPublic(r) \in BOOLEAN
    BY DEF StillPublic
  <2> QED BY <1>1, <1>2, <1>5, <2>1, UpdateWrites DEF WritePin, Becomes
<1>6. CASE WriteUnpin(r)
  BY <1>1, <1>2, <1>6, UpdateWrites DEF WriteUnpin, Becomes
<1>7. CASE WriteDelete(r)
  <2>1. /\ InScope(req[r].post)
        /\ posts' = [posts EXCEPT ![req[r].post] = [PostOf(r) EXCEPT !.deleted = TRUE]]
        /\ ReplyWritten(r)
    BY <1>7 DEF WriteDelete, PostOf
  <2>2. pc'[r] # "write"
    BY <2>1 DEF ReplyWritten, Reply, IInv, TypeOK
  <2> QED BY <1>1, <1>2, <1>7, <2>1, <2>2 DEF WriteDelete, Becomes
<1> QED BY <1>3, <1>4, <1>5, <1>6, <1>7 DEF Write

\* A stored post changes only in the write of a request about it.
LEMMA PostsChangeInWrites ==
    ASSUME IInv, Next, NEW p \in PostIds, posts[p] # None, posts'[p] # posts[p]
    PROVE  \E r \in Requests : /\ pc[r] = "write" /\ pc'[r] # "write"
                               /\ req[r].post = p
                               /\ InScope(p)
                               /\ Becomes(r, posts'[p])
<1>1. ASSUME NEW r \in Requests, Insert(r) PROVE FALSE
  BY <1>1 DEF Insert, IInv, TypeOK
<1>2. PICK r \in Requests : Write(r)
  BY <1>1 DEF Next, Begin, Step, Abort, CheckActor, ReadPost, CheckAdmin, ResolveUpdate,
              ResolvePin, SetStatus, Tick
<1>3. PICK row : Becomes(r, row) /\ posts' = [posts EXCEPT ![req[r].post] = row]
  BY <1>2, WriteWrites
<1>4. req[r].post = p /\ posts'[p] = row
  BY <1>2, <1>3, WriteWrites DEF IInv, TypeOK
<1> QED BY <1>2, <1>3, <1>4, WriteWrites

\* A deleted post never changes again.
THEOREM DeletionIsFinal == Spec => DeletedIsFinal
<1>1. IInv /\ [Next]_vars => [DeletedKept]_vars
  BY PostsChangeInWrites DEF DeletedKept, InScope
<1> QED BY <1>1, Invariance, PTL DEF Spec, DeletedIsFinal

\* A column of a post changes only by the operation that is about it, of
\* someone entitled to it.
THEOREM ColumnOwnership == Spec => ColumnsHaveOwners
<1>1. ASSUME IInv, Next, NEW p \in PostIds, posts[p] # None, posts'[p] # posts[p]
      PROVE  /\ posts'[p] # None
             /\ posts'[p].author = posts[p].author
             /\ posts'[p].title # posts[p].title \/ posts'[p].content # posts[p].content =>
                    \E r \in Requests : WritesAs(r, p, {"edit"}) /\ IsAuthor(r)
             /\ posts'[p].visible # posts[p].visible =>
                    \E r \in Requests :
                        /\ WritesAs(r, p, {"visible"}) /\ IsAuthor(r)
                        /\ posts'[p].visible = req[r].visible
             /\ posts'[p].pinnedUntil # posts[p].pinnedUntil =>
                    \/ posts[p].visible = "public" /\ posts'[p].visible = "private"
                    \/ \E r \in Requests :
                           /\ WritesAs(r, p, Pinning)
                           /\ Actor(r) \in Admins
             /\ posts'[p].deleted # posts[p].deleted =>
                    \E r \in Requests :
                        /\ WritesAs(r, p, {"delete"})
                        /\ IsAuthor(r) \/ Actor(r) \in Admins
  <2>1. PICK r \in Requests : /\ pc[r] = "write" /\ pc'[r] # "write"
                              /\ req[r].post = p
                              /\ InScope(p)
                              /\ Becomes(r, posts'[p])
    BY <1>1, PostsChangeInWrites
  <2>2. Formed(r) /\ Entitled(r)
    BY <1>1, <2>1 DEF IInv, Local, Steps
  <2>3. /\ PostOf(r) = posts[p]
        /\ posts[p] \in Post
        /\ posts[p].visible = "private" => posts[p].pinnedUntil = None
    BY <1>1, <2>1 DEF PostOf, IInv, TypeOK, PrivateIsNotPinned
  <2>4. \E q \in Requests : Preserves(q)
    <3>1. \E q \in Requests : Begin(q) \/ Step(q) \/ Abort(q)
      BY <1>1 DEF Next, SetStatus, Tick
    <3> QED BY <1>1, <3>1, RequestStep
  <2>5. posts'[p] # None /\ posts'[p].author = posts[p].author
    BY <1>1, <2>4 DEF Preserves, Grows
  <2>6. CASE Kind(r) = "edit" /\ posts'[p] = Edited(r)
    <3>1. /\ posts'[p].visible = posts[p].visible
          /\ posts'[p].pinnedUntil = posts[p].pinnedUntil
          /\ posts'[p].deleted = posts[p].deleted
      BY <2>3, <2>6 DEF Edited, Post
    <3>2. WritesAs(r, p, {"edit"}) /\ IsAuthor(r)
      BY <2>1, <2>2, <2>6 DEF WritesAs, Entitled, OwnPost
    <3> QED BY <2>5, <3>1, <3>2
  <2>7. CASE Kind(r) = "visible" /\ posts'[p] = WithVisibility(r)
    <3>1. /\ posts'[p].title = posts[p].title
          /\ posts'[p].content = posts[p].content
          /\ posts'[p].deleted = posts[p].deleted
          /\ posts'[p].visible = req[r].visible
      BY <2>3, <2>7 DEF WithVisibility, Post
    <3>2. WritesAs(r, p, {"visible"}) /\ IsAuthor(r)
      BY <2>1, <2>2, <2>7 DEF WritesAs, Entitled, OwnPost
    <3>3. req[r].visible # "private" => posts'[p].pinnedUntil = posts[p].pinnedUntil
      BY <2>3, <2>7 DEF WithVisibility, Post
    <3>4. req[r].visible = "private" => posts'[p].pinnedUntil = None
      BY <2>3, <2>7 DEF WithVisibility, Post
    <3>5. posts'[p].pinnedUntil # posts[p].pinnedUntil =>
              posts[p].visible = "public" /\ posts'[p].visible = "private"
      BY <2>3, <3>1, <3>3, <3>4 DEF Post, Visibilities
    <3> QED BY <2>5, <3>1, <3>2, <3>5
  <2>8. CASE /\ Kind(r) \in Pinning
             /\ \E until : posts'[p] = [PostOf(r) EXCEPT !.pinnedUntil = until]
    <3>1. /\ posts'[p].title = posts[p].title
          /\ posts'[p].content = posts[p].content
          /\ posts'[p].visible = posts[p].visible
          /\ posts'[p].deleted = posts[p].deleted
      BY <2>3, <2>8 DEF Post
    <3>2. WritesAs(r, p, Pinning) /\ Actor(r) \in Admins
      BY <2>1, <2>2, <2>8 DEF WritesAs, Entitled
    <3> QED BY <2>5, <3>1, <3>2
  <2>9. CASE Kind(r) = "delete" /\ posts'[p] = [PostOf(r) EXCEPT !.deleted = TRUE]
    <3>1. /\ posts'[p].title = posts[p].title
          /\ posts'[p].content = posts[p].content
          /\ posts'[p].visible = posts[p].visible
          /\ posts'[p].pinnedUntil = posts[p].pinnedUntil
      BY <2>3, <2>9 DEF Post
    <3>2. WritesAs(r, p, {"delete"}) /\ (IsAuthor(r) \/ Actor(r) \in Admins)
      BY <2>1, <2>2, <2>9 DEF WritesAs, Entitled, OwnPost
    <3> QED BY <2>5, <3>1, <3>2
  <2> QED BY <2>1, <2>6, <2>7, <2>8, <2>9 DEF Becomes, Pinning
<1>2. IInv /\ [Next]_vars => [ColumnHasOwner]_vars
  BY <1>1 DEF ColumnHasOwner
<1> QED BY <1>2, Invariance, PTL DEF Spec, ColumnsHaveOwners

\* Only r's own step answers it.
LEMMA AnswersAreOwnSteps ==
    ASSUME IInv, Next, NEW r \in Requests, pc[r] \in Steps, pc'[r] # pc[r]
    PROVE  Step(r) \/ Abort(r)
<1>1. ASSUME NEW s \in Requests, s # r, Begin(s) \/ Step(s) \/ Abort(s)
      PROVE  FALSE
  BY <1>1, RequestStep DEF Preserves, OnlyMoves
<1>2. ~SetStatus /\ ~Tick
  BY DEF SetStatus, Tick
<1>3. Begin(r) \/ Step(r) \/ Abort(r)
  BY <1>1, <1>2 DEF Next
<1> QED BY <1>3 DEF Begin, Steps

\* What a statement that ends in a reply has answered.
LEMMA RepliesAnswer ==
    ASSUME IInv, NEW r \in Requests, NEW answer, Reply(r, answer)
    PROVE  pc'[r] = answer
BY DEF Reply, IInv, TypeOK

LEMMA GotoMoves ==
    ASSUME IInv, NEW r \in Requests, NEW step, Goto(r, step)
    PROVE  pc'[r] = step
BY DEF Goto, IInv, TypeOK

\* An update that answers anything but an error has stored its row.
LEMMA UpdateAnswers ==
    ASSUME IInv, NEW r \in Requests, NEW matches \in BOOLEAN, NEW new,
           Update(r, matches, new), pc'[r] \in {"ok", "notfound"},
           req[r].post \in PostIds
    PROVE  pc'[r] = "ok" /\ matches /\ posts'[req[r].post] = new
<1>1. ~Goto(r, "reread")
  BY GotoMoves
<1>2. InScope(req[r].post) /\ matches /\ ReplyWritten(r)
      /\ posts' = [posts EXCEPT ![req[r].post] = new]
  BY <1>1 DEF Update
<1>3. pc'[r] \in {"ok", "error"}
  BY <1>2, RepliesAnswer DEF ReplyWritten
<1> QED BY <1>2, <1>3 DEF IInv, TypeOK

\* Answers tell the truth: a pin that succeeded holds, and a post that is not
\* found is not there.
THEOREM AnswersTellTheTruth == Spec => AnswersAreTrue
<1>1. ASSUME IInv, Next, NEW r \in Requests, pc[r] \in Steps,
             pc'[r] \in {"ok", "notfound"}
      PROVE  /\ Kind(r) = "pin" /\ pc'[r] = "ok" =>
                    /\ posts'[req[r].post].visible = "public"
                    /\ posts'[req[r].post].pinnedUntil = req[r].until
             /\ Kind(r) # "pin" /\ pc'[r] = "notfound" => ~InScope(req[r].post)
  <2>1. Step(r) \/ Abort(r)
    BY <1>1, AnswersAreOwnSteps DEF Steps
  <2>2. Formed(r) /\ OnCourse(r)
    BY <1>1 DEF IInv, Local
  <2>3. CASE CheckActor(r) \/ CheckAdmin(r) \/ Abort(r)
    BY <1>1, <2>3, RepliesAnswer, GotoMoves
       DEF CheckActor, CheckAdmin, AfterActor, Abort
  <2>4. CASE ReadPost(r)
    <3>1. Reply(r, "notfound") /\ ~InScope(req[r].post)
      <4>1. ~Reply(r, "rejected") /\ ~Goto(r, "write") /\ ~Goto(r, "admin")
        BY <1>1, RepliesAnswer, GotoMoves
      <4>2. pc' # [pc EXCEPT ![r] = "actor"] /\ pc' # [pc EXCEPT ![r] = "write"]
        BY <1>1 DEF IInv, TypeOK
      <4> QED BY <2>4, <4>1, <4>2 DEF ReadPost
    <3> QED BY <1>1, <3>1, RepliesAnswer
  <2>5. CASE Insert(r)
    <3>1. Kind(r) = "create"
      BY <2>2, <2>5 DEF Insert, OnCourse
    <3>2. pc'[r] \in {"ok", "error"}
      BY <1>1, <2>5, RepliesAnswer DEF Insert, ReplyWritten
    <3> QED BY <3>1, <3>2
  <2>6. CASE Write(r)
    <3>1. req[r].post \in PostIds
      BY <2>2, <2>6 DEF Write, OnCourse, Formed
    <3>2. CASE WriteEdit(r) \/ WriteVisible(r) \/ WriteUnpin(r)
      <4>1. Kind(r) # "pin"
        BY <3>2 DEF WriteEdit, WriteVisible, WriteUnpin
      <4>2. pc'[r] = "ok"
        BY <1>1, <3>1, <3>2, UpdateAnswers DEF WriteEdit, WriteVisible, WriteUnpin
      <4> QED BY <4>1, <4>2
    <3>3. CASE WritePin(r)
      <4>1. StillPublic(r) \in BOOLEAN
        BY DEF StillPublic
      <4>2. /\ StillPublic(r) /\ pc'[r] = "ok"
            /\ posts'[req[r].post] = [PostOf(r) EXCEPT !.pinnedUntil = req[r].until]
        BY <1>1, <3>1, <3>3, <4>1, UpdateAnswers DEF WritePin
      <4>3. PostOf(r) \in Post
        <5>1. InScope(req[r].post)
          BY <1>1, <3>3, GotoMoves DEF WritePin, Update
        <5> QED BY <1>1, <3>1, <5>1 DEF InScope, PostOf, IInv, TypeOK
      <4> QED BY <4>2, <4>3 DEF StillPublic, Post
    <3>4. CASE WriteDelete(r)
      <4>1. Kind(r) = "delete"
        BY <3>4 DEF WriteDelete
      <4>2. InScope(req[r].post) => pc'[r] \in {"ok", "error"}
        BY <1>1, <3>4, RepliesAnswer DEF WriteDelete, ReplyWritten
      <4> QED BY <4>1, <4>2
    <3> QED BY <2>6, <3>2, <3>3, <3>4 DEF Write
  <2>7. CASE ResolveUpdate(r)
    <3>1. pc'[r] = ResolvedAnswer(r)
      BY <1>1, <2>7, RepliesAnswer DEF ResolveUpdate
    <3> QED BY <2>7, <3>1 DEF ResolveUpdate, ResolvedAnswer
  <2>8. CASE ResolvePin(r)
    <3>1. /\ Kind(r) = "pin" /\ posts' = posts
          /\ pc' # [pc EXCEPT ![r] = "write"]
      BY <1>1, <2>8 DEF ResolvePin, IInv, TypeOK
    <3>2. pc'[r] = "ok" => AlreadyPinned(r)
      BY <1>1, <2>8, <3>1, RepliesAnswer DEF ResolvePin
    <3> QED BY <3>1, <3>2 DEF AlreadyPinned, StillPublic, PostOf
  <2> QED BY <2>1, <2>3, <2>4, <2>5, <2>6, <2>7, <2>8 DEF Step
<1>2. IInv /\ [Next]_vars => [PinHolds /\ NotFoundIsTrue]_vars
  BY <1>1 DEF PinHolds, NotFoundIsTrue
<1> QED BY <1>2, Invariance, PTL DEF Spec, AnswersAreTrue
-----------------------------------------------------------------------------
(***************************************************************************)
(* Feed.                                                                   *)
(*                                                                         *)
(* Readers change nothing of Posts, so every behaviour of Feed is one of   *)
(* Posts and all theorems above hold of it. The rest follows from an       *)
(* invariant of each reader: what it has read, it was entitled to at some  *)
(* moment of its request; what its goroutines have left behind is          *)
(* accounted for by their first error; its page may be asked for.          *)
(***************************************************************************)

\* What a reader has asked for, and which statement may come next.
KnowsItsAsk(d) ==
    /\ at[d] = "idle" => ask[d] = None /\ page[d] = 1
    /\ at[d] # "idle" => ask[d] \in Asks
    /\ at[d] = "check" => ask[d].kind = "comments"
    /\ at[d] = "search" => ask[d].kind = "search"

\* The ghost knows at least what the reader may see now.
WasEntitled(d) ==
    /\ at[d] \in Reading => Readable(ask[d]) \subseteq seen[d]
    /\ at[d] = "query" /\ ask[d].kind = "comments" => ask[d].of \in seen[d]
    /\ at[d] \notin {"search", "fill"} => rows[d] = {}
    /\ rows[d] \subseteq seen[d]

\* How the goroutines of a search have ended.
KnowsItsError(d) == at[d] = "search" =>
    /\ search[d].first # "sibling"
    /\ search[d].first = "deadline" => search[d].late
    /\ \A half \in Halves : search[d][half] \in Causes => search[d].first # None

\* The page to be asked for, and why a list ends.
MayAsk(d) ==
    /\ at[d] \notin {"idle", "end"} =>
           IsBindable(LimitsOf(ask[d]), page[d], ask[d].size)
    /\ at[d] = "end" /\ full[d] => page[d] * ask[d].size > LimitsOf(ask[d]).offset

ReaderInv(d) == KnowsItsAsk(d) /\ WasEntitled(d) /\ KnowsItsError(d) /\ MayAsk(d)

FeedInv == FeedTypeOK /\ \A d \in Readers : ReaderInv(d)
-----------------------------------------------------------------------------
(* Facts about the queries *)

LEMMA ListingIsPosts ==
    ASSUME NEW a
    PROVE  Listing(a) \in SUBSET PostIds
BY DEF Listing, PublicPosts, PostsBy

LEMMA ListingIsReadable ==
    ASSUME NEW a \in Asks
    PROVE  Listing(a) \subseteq Readable(a)
<1>1. PublicPosts \subseteq Readable(a)
  BY DEF PublicPosts, Readable, MayRead
<1>2. ASSUME a.kind = "mine"
      PROVE  PostsBy(a.of) \subseteq Readable(a)
  <2>1. a.of = a.viewer
    BY <1>2 DEF Asks
  <2> QED BY <2>1 DEF PostsBy, Readable, MayRead
<1> QED BY <1>1, <1>2 DEF Listing

LEMMA AsksAreAsk == Asks \subseteq Ask
BY DEF Asks, Ask, Scrolled, Single

LEMMA AskedSize ==
    ASSUME NEW a \in Asks
    PROVE  /\ LimitsOf(a) \in Limits
           /\ a.size \in 1 .. LimitsOf(a).largest
<1>1. a.size \in Sizes \cup {1}
  BY AsksAreAsk DEF Ask
<1>2. LimitsOf(a) \in Limits
  BY FeedConstantsOK DEF LimitsOf
<1>3. 1 \in 1 .. LimitsOf(a).largest
  BY <1>2 DEF Limits
<1>4. Sizes \subseteq 1 .. LimitsOf(a).largest
  BY FeedConstantsOK DEF LimitsOf
<1> QED BY <1>1, <1>2, <1>3, <1>4

\* The first page can always be asked for.
LEMMA FirstPageIsBindable ==
    ASSUME NEW a \in Asks
    PROVE  IsBindable(LimitsOf(a), 1, a.size)
<1> DEFINE L == LimitsOf(a)
<1>1. L \in Limits /\ a.size \in 1 .. L.largest
  BY AskedSize
<1>2. /\ L.default \in Nat \ {0} /\ L.largest \in Nat \ {0} /\ L.offset \in Nat
      /\ L.largest + L.offset < MaxInt
  BY <1>1 DEF Limits
<1> HIDE DEF L
<1>3. L.offset \div a.size \in Nat
  BY <1>1, <1>2, QuotientBound
<1>4. ValueOf(1, 1) = 1 /\ ValueOf(a.size, L.default) = a.size
  BY <1>1, <1>2, NumbersOK DEF ValueOf
<1>5. IsPositiveInt(1) /\ IsPositiveInt(a.size)
  BY <1>1, <1>2, NumbersOK DEF IsPositiveInt, Ints
<1>6. IsOffsetAllowed(L, BoundQuery(L, 1, a.size))
  BY <1>1, <1>2, <1>3, <1>4 DEF IsOffsetAllowed, BoundQuery, Query
<1>7. IsBindable(L, 1, a.size)
  BY <1>1, <1>2, <1>4, <1>5, <1>6 DEF IsBindable
<1> QED BY <1>7 DEF L

\* A page that is asked for names itself.
LEMMA BoundIsAsked ==
    ASSUME NEW a \in Asks, NEW no \in Nat \ {0}
    PROVE  BoundQuery(LimitsOf(a), no, a.size) = Query(no, a.size)
BY AskedSize, NumbersOK DEF BoundQuery, ValueOf, Limits

\* After a page that is offered comes one that can be asked for.
LEMMA NextPageIsBindable ==
    ASSUME NEW a \in Asks, NEW no \in Nat \ {0},
           IsBindable(LimitsOf(a), no, a.size),
           NextIsAllowed(LimitsOf(a), Query(no, a.size))
    PROVE  IsBindable(LimitsOf(a), no + 1, a.size)
<1>1. LimitsOf(a) \in Limits /\ a.size \in 1 .. LimitsOf(a).largest
  BY AskedSize
<1>2. no \in Raw
  BY NumbersOK DEF IsBindable, IsPositiveInt, Raw
<1>3. a.size \in Raw
  BY <1>1, NumbersOK DEF IsBindable, IsPositiveInt, Raw
<1>4. NextIsAllowed(LimitsOf(a), BoundQuery(LimitsOf(a), no, a.size))
  BY BoundIsAsked
<1>5. LET next == NextQuery(BoundQuery(LimitsOf(a), no, a.size))
      IN  IsBindable(LimitsOf(a), next.no, next.size)
  BY <1>1, <1>2, <1>3, <1>4, OffersAreAccepted
<1>6. NextQuery(Query(no, a.size)) = Query(no + 1, a.size)
  BY DEF NextQuery, Query
<1> QED BY <1>5, <1>6, BoundIsAsked DEF Query

\* A list whose next page is not offered ends behind the limit.
LEMMA RefusedIsBehind ==
    ASSUME NEW a \in Asks, NEW no \in Nat \ {0},
           ~NextIsAllowed(LimitsOf(a), Query(no, a.size))
    PROVE  no * a.size > LimitsOf(a).offset
<1> DEFINE m == LimitsOf(a).offset
           s == a.size
           k == m \div s
<1>1. m \in Nat /\ s \in Nat \ {0}
  BY AskedSize DEF Limits
<1>2. ~(no <= k)
  BY DEF NextIsAllowed, Query
<1>3. k \in Nat /\ m < k * s + s
  BY <1>1, QuotientBound
<1> SUFFICES no * s > m
  OBVIOUS
<1> HIDE DEF m, s, k
<1>4. k + 1 <= no
  BY <1>2, <1>3
<1>5. (k + 1) * s <= no * s
  BY <1>1, <1>3, <1>4, TimesGrows
<1>6. (k + 1) * s = k * s + s
  BY <1>1, <1>3
<1>7. no * s \in Nat /\ k * s \in Nat
  BY <1>1, <1>3
<1> QED BY <1>1, <1>3, <1>5, <1>6, <1>7
-----------------------------------------------------------------------------
(* Steps of readers *)

\* Only reader d moves.
OnlyReader(d) ==
    \A e \in Readers \ {d} :
        /\ ask'[e] = ask[e] /\ at'[e] = at[e] /\ page'[e] = page[e]
        /\ rows'[e] = rows[e] /\ full'[e] = full[e] /\ search'[e] = search[e]
        /\ shown'[e] = shown[e] /\ seen'[e] = seen[e]

\* What is shown of every step of reader d.
ReaderKeeps(d) ==
    /\ FeedTypeOK'
    /\ (ReaderInv(d))'
    /\ OnlyReader(d)

\* While the tables stand still, so does what the readers may see.
LEMMA StillTables ==
    ASSUME UNCHANGED vars
    PROVE  /\ TypeOK => TypeOK'
           /\ \A a : (Readable(a))' = Readable(a)
<1>1. TypeOK => TypeOK'
  BY DEF TypeOK, vars
<1>2. ASSUME NEW a
      PROVE  (Readable(a))' = Readable(a)
  BY DEF Readable, MayRead, InScope, vars
<1> QED BY <1>1, <1>2

LEMMA OpenKeeps ==
    ASSUME FeedInv, NEW d \in Readers, Open(d), UNCHANGED vars
    PROVE  ReaderKeeps(d)
<1>1. PICK a \in Asks \cap Opened[d] :
          /\ ask' = [ask EXCEPT ![d] = a]
          /\ Arrives(d, a)
          /\ kept' = [kept EXCEPT ![d] = IF a.kind \in Scrolled THEN Listing(a) ELSE {}]
  BY DEF Open
<1>2. at[d] = "idle" /\ UNCHANGED <<page, rows, full, shown, gaps>>
  BY DEF Open
<1>3. /\ at' = [at EXCEPT ![d] = FirstStatement(a)]
      /\ search' = [search EXCEPT ![d] = NoSearch]
      /\ seen' = [seen EXCEPT ![d] = Readable(a)]
  BY <1>1 DEF Arrives
<1>4. FirstStatement(a) \in {"check", "search", "query"}
      /\ (FirstStatement(a) = "check" => a.kind = "comments")
      /\ (FirstStatement(a) = "search" => a.kind = "search")
      /\ (FirstStatement(a) = "query" => a.kind # "comments")
  BY DEF FirstStatement
<1>5. a \in Asks /\ a \in Ask
  BY AsksAreAsk
<1>6. Readable(a) \in SUBSET PostIds /\ Listing(a) \in SUBSET PostIds
  BY ListingIsPosts DEF Readable
<1>7. NoSearch \in Search
  BY DEF NoSearch, Search
<1>8. /\ ask'[d] = a /\ at'[d] = FirstStatement(a) /\ search'[d] = NoSearch
      /\ seen'[d] = Readable(a) /\ page'[d] = page[d] /\ rows'[d] = rows[d]
  BY <1>1, <1>2, <1>3 DEF FeedInv, FeedTypeOK
<1>9. page[d] = 1 /\ rows[d] = {}
  BY <1>2 DEF FeedInv, ReaderInv, KnowsItsAsk, WasEntitled
<1>10. FeedTypeOK'
  <2>1. TypeOK'
    BY StillTables DEF FeedInv, FeedTypeOK
  <2>2. kept' \in [Readers -> SUBSET PostIds]
    BY <1>1, <1>6 DEF FeedInv, FeedTypeOK
  <2> QED BY <1>1, <1>2, <1>3, <1>4, <1>5, <1>6, <1>7, <2>1, <2>2
          DEF FeedInv, FeedTypeOK, Reading
<1>11. (KnowsItsAsk(d))'
  BY <1>4, <1>5, <1>8 DEF KnowsItsAsk
<1>12. (WasEntitled(d))'
  <2>1. (Readable(ask[d]))' = Readable(a)
    BY <1>8, StillTables
  <2> QED BY <1>4, <1>8, <1>9, <2>1 DEF WasEntitled
<1>13. (KnowsItsError(d))'
  BY <1>8, NoneIsNoCause DEF KnowsItsError, NoSearch, Halves, Causes
<1>14. (MayAsk(d))'
  <2>1. IsBindable(LimitsOf(a), 1, a.size)
    BY <1>5, FirstPageIsBindable
  <2> QED BY <1>4, <1>8, <1>9, <2>1 DEF MayAsk, LimitsOf
<1>15. OnlyReader(d)
  BY <1>1, <1>2, <1>3 DEF OnlyReader, FeedInv, FeedTypeOK
<1> QED BY <1>10, <1>11, <1>12, <1>13, <1>14, <1>15 DEF ReaderKeeps, ReaderInv

LEMMA LoadMoreKeeps ==
    ASSUME FeedInv, NEW d \in Readers, LoadMore(d), UNCHANGED vars
    PROVE  ReaderKeeps(d)
<1> DEFINE a == ask[d]
<1>1. /\ at[d] \in {"between", "error", "unavailable"}
      /\ UNCHANGED <<ask, page, rows, full, shown, kept, gaps>>
  BY DEF LoadMore
<1>2. /\ at' = [at EXCEPT ![d] = FirstStatement(a)]
      /\ search' = [search EXCEPT ![d] = NoSearch]
      /\ seen' = [seen EXCEPT ![d] = Readable(a)]
  BY DEF LoadMore, Arrives
<1>3. FirstStatement(a) \in {"check", "search", "query"}
      /\ (FirstStatement(a) = "check" => a.kind = "comments")
      /\ (FirstStatement(a) = "search" => a.kind = "search")
      /\ (FirstStatement(a) = "query" => a.kind # "comments")
  BY DEF FirstStatement
<1>4. Readable(a) \in SUBSET PostIds
  BY DEF Readable
<1>5. NoSearch \in Search
  BY DEF NoSearch, Search
<1>6. /\ ask' = ask /\ at'[d] = FirstStatement(a) /\ search'[d] = NoSearch
      /\ seen'[d] = Readable(a) /\ page' = page /\ rows' = rows
  BY <1>1, <1>2 DEF FeedInv, FeedTypeOK
<1>7. /\ a \in Asks /\ rows[d] = {}
      /\ IsBindable(LimitsOf(a), page[d], a.size)
  BY <1>1 DEF FeedInv, ReaderInv, KnowsItsAsk, WasEntitled, MayAsk
<1>8. FeedTypeOK'
  <2>1. TypeOK'
    BY StillTables DEF FeedInv, FeedTypeOK
  <2> QED BY <1>1, <1>2, <1>3, <1>4, <1>5, <2>1 DEF FeedInv, FeedTypeOK, Reading
<1>9. (KnowsItsAsk(d))'
  BY <1>3, <1>6, <1>7 DEF KnowsItsAsk
<1>10. (WasEntitled(d))'
  <2>1. (Readable(ask[d]))' = Readable(a)
    BY <1>6, StillTables
  <2> QED BY <1>3, <1>6, <1>7, <2>1 DEF WasEntitled
<1>11. (KnowsItsError(d))'
  BY <1>6, NoneIsNoCause DEF KnowsItsError, NoSearch, Halves, Causes
<1>12. (MayAsk(d))'
  BY <1>3, <1>6, <1>7 DEF MayAsk, LimitsOf
<1>13. OnlyReader(d)
  BY <1>1, <1>2 DEF OnlyReader, FeedInv, FeedTypeOK
<1> QED BY <1>8, <1>9, <1>10, <1>11, <1>12, <1>13 DEF ReaderKeeps, ReaderInv

\* A step within a request, to a statement it may come to.
LEMMA MovesOn ==
    ASSUME FeedInv, NEW d \in Readers, UNCHANGED vars, UNCHANGED <<ask, page, shown, past>>,
           NEW step \in Reading \cup {"notfound", "error", "unavailable"},
           at' = [at EXCEPT ![d] = step], at[d] \in Reading,
           NEW found \in SUBSET seen[d], rows' = [rows EXCEPT ![d] = found],
           full' \in [Readers -> BOOLEAN], \A e \in Readers \ {d} : full'[e] = full[e],
           search' \in [Readers -> Search],
           \A e \in Readers \ {d} : search'[e] = search[e],
           (KnowsItsError(d))',
           step = "check" => ask[d].kind = "comments",
           step = "search" => ask[d].kind = "search",
           step = "query" /\ ask[d].kind = "comments" => ask[d].of \in seen[d],
           step \notin {"search", "fill"} => found = {}
    PROVE  ReaderKeeps(d)
<1>1. /\ at'[d] = step /\ rows'[d] = found /\ ask' = ask /\ page' = page
      /\ seen' = seen
  BY DEF FeedInv, FeedTypeOK, past
<1>2. /\ ask[d] \in Asks /\ Readable(ask[d]) \subseteq seen[d]
      /\ IsBindable(LimitsOf(ask[d]), page[d], ask[d].size)
  BY DEF FeedInv, ReaderInv, KnowsItsAsk, WasEntitled, MayAsk, Reading
<1>3. FeedTypeOK'
  <2>1. TypeOK'
    BY StillTables DEF FeedInv, FeedTypeOK
  <2>2. found \in SUBSET PostIds
    BY DEF FeedInv, FeedTypeOK
  <2>3. rows' \in [Readers -> SUBSET PostIds]
    BY <2>2 DEF FeedInv, FeedTypeOK
  <2>4. at' \in [Readers -> Reading \cup Resting]
    BY DEF FeedInv, FeedTypeOK, Resting
  <2> QED BY <2>1, <2>3, <2>4 DEF FeedInv, FeedTypeOK, past
<1>4. (KnowsItsAsk(d))'
  BY <1>1, <1>2 DEF KnowsItsAsk, Reading
<1>5. (WasEntitled(d))'
  <2>1. (Readable(ask[d]))' = Readable(ask[d])
    BY <1>1, StillTables
  <2> QED BY <1>1, <1>2, <2>1 DEF WasEntitled
<1>6. (MayAsk(d))'
  BY <1>1, <1>2 DEF MayAsk, LimitsOf, Reading
<1>7. OnlyReader(d)
  BY DEF OnlyReader, FeedInv, FeedTypeOK, past
<1> QED BY <1>3, <1>4, <1>5, <1>6, <1>7 DEF ReaderKeeps, ReaderInv

LEMMA CheckPostKeeps ==
    ASSUME FeedInv, NEW d \in Readers, CheckPost(d), UNCHANGED vars
    PROVE  ReaderKeeps(d)
<1> DEFINE step == IF HasComments(ask[d].of) THEN "query" ELSE "notfound"
<1>1. /\ at[d] = "check" /\ at' = [at EXCEPT ![d] = step]
      /\ UNCHANGED <<ask, page, shown, past>> /\ UNCHANGED <<rows, full, search>>
  BY DEF CheckPost, Continue
<1>2. ask[d] \in Asks /\ ask[d].kind = "comments" /\ rows[d] = {}
      /\ Readable(ask[d]) \subseteq seen[d]
  BY <1>1 DEF FeedInv, ReaderInv, KnowsItsAsk, WasEntitled, Reading
<1>3. ask[d].of \in PostIds
  BY <1>2 DEF Asks
<1>4. step = "query" => ask[d].of \in seen[d]
  BY <1>2, <1>3 DEF HasComments, Readable, MayRead
<1>5. rows' = [rows EXCEPT ![d] = {}]
  BY <1>1, <1>2 DEF FeedInv, FeedTypeOK
<1>6. step \in {"query", "notfound"}
  OBVIOUS
<1>7. (KnowsItsError(d))'
  BY <1>1, <1>6 DEF KnowsItsError, FeedInv, FeedTypeOK
<1> HIDE DEF step
<1> QED BY <1>1, <1>4, <1>5, <1>6, <1>7, MovesOn DEF FeedInv, FeedTypeOK, Reading

\* A query that has found these rows.
LEMMA QueryKeeps ==
    ASSUME FeedInv, NEW d \in Readers, UNCHANGED vars, at[d] = "query",
           NEW found \in SUBSET seen[d], NEW more \in BOOLEAN,
           Reads(d, found, more), Continue(d, "fill"), UNCHANGED search
    PROVE  ReaderKeeps(d)
<1>1. /\ rows' = [rows EXCEPT ![d] = found] /\ full' = [full EXCEPT ![d] = more]
      /\ at' = [at EXCEPT ![d] = "fill"] /\ UNCHANGED <<ask, page, shown, past>>
  BY DEF Reads, Continue
<1>2. (KnowsItsError(d))'
  BY <1>1 DEF KnowsItsError, FeedInv, FeedTypeOK
<1>3. full' \in [Readers -> BOOLEAN] /\ \A e \in Readers \ {d} : full'[e] = full[e]
  BY <1>1 DEF FeedInv, FeedTypeOK
<1> QED BY <1>1, <1>2, <1>3, MovesOn DEF FeedInv, FeedTypeOK, Reading

LEMMA PageIsListed ==
    ASSUME FeedTypeOK, NEW d \in Readers, ask[d] \in Asks
    PROVE  /\ PageOf(d, ask[d]) \subseteq Listing(ask[d])
           /\ FindsMore(d, ask[d]) \in BOOLEAN
<1> DEFINE a == ask[d]
           offset == Offset(LimitsOf(a), QueryOf(d))
           all == Cardinality(Listing(a))
<1>1. ASSUME NEW p \in PageOf(d, a)
      PROVE  p \in Listing(a)
  BY <1>1, Zenon DEF PageOf
<1>2. LimitsOf(a) \in Limits /\ a.size \in Nat
  BY AskedSize DEF Limits
<1>3. QueryOf(d).no \in Int /\ QueryOf(d).size \in Int /\ QueryOf(d).size = a.size
  BY <1>2 DEF QueryOf, Query, FeedTypeOK
<1>4. offset \in Int
  <2>1. LimitsOf(a).offset \in Nat
    BY <1>2 DEF Limits
  <2> QED BY <1>2, <1>3, <2>1, OffsetsAreBounded
<1>5. all \in Int
  BY ListingIsPosts, FeedConstantsOK, FS_Subset, FS_CardinalityType
<1>6. FindsMore(d, a) = IF a.kind = "search" THEN all - offset > QueryOf(d).size
                                             ELSE all - offset >= QueryOf(d).size
  BY DEF FindsMore, HasExtraRow, IsFull
<1> HIDE DEF all, offset
<1>7. /\ (all - offset > QueryOf(d).size) \in BOOLEAN
      /\ (all - offset >= QueryOf(d).size) \in BOOLEAN
  BY <1>3, <1>4, <1>5
<1>8. FindsMore(d, a) \in BOOLEAN
  BY <1>6, <1>7, Zenon
<1> QED BY <1>1, <1>8

LEMMA MaySeeNow ==
    ASSUME FeedInv, NEW d \in Readers, at[d] \in Reading
    PROVE  /\ ask[d] \in Asks
           /\ Readable(ask[d]) \subseteq seen[d]
BY DEF FeedInv, ReaderInv, KnowsItsAsk, WasEntitled, Reading

LEMMA QueriesKeep ==
    ASSUME FeedInv, NEW d \in Readers, UNCHANGED vars,
           QueryList(d) \/ QueryComments(d) \/ QueryHot(d) \/ QueryPost(d)
    PROVE  ReaderKeeps(d)
<1>1. at[d] = "query"
  BY DEF QueryList, QueryComments, QueryHot, QueryPost
<1>2. ask[d] \in Asks /\ Readable(ask[d]) \subseteq seen[d]
  BY <1>1, MaySeeNow DEF Reading
<1>3. CASE QueryList(d)
  <2>1. PageOf(d, ask[d]) \in SUBSET seen[d] /\ FindsMore(d, ask[d]) \in BOOLEAN
    BY <1>2, PageIsListed, ListingIsReadable DEF FeedInv
  <2> QED BY <1>1, <1>3, <2>1, QueryKeeps DEF QueryList
<1>4. CASE QueryComments(d)
  <2>1. {ask[d].of} \in SUBSET seen[d]
    BY <1>1, <1>4 DEF QueryComments, FeedInv, ReaderInv, WasEntitled
  <2> QED BY <1>1, <1>4, <2>1, QueryKeeps DEF QueryComments
<1>5. CASE QueryHot(d)
  <2>1. PICK best \in SUBSET PublicPosts : Reads(d, best, FALSE)
    BY <1>5 DEF QueryHot
  <2>2. best \in SUBSET seen[d]
    BY <1>2 DEF PublicPosts, Readable, MayRead
  <2> QED BY <1>1, <1>5, <2>1, <2>2, QueryKeeps DEF QueryHot
<1>6. CASE QueryPost(d)
  <2>1. CASE MayRead(ask[d].viewer, ask[d].of)
    <3>1. ask[d].kind = "post"
      BY <1>6 DEF QueryPost
    <3>2. ask[d].of \in PostIds
      BY <1>2, <3>1 DEF Asks
    <3>3. {ask[d].of} \in SUBSET seen[d]
      BY <1>2, <2>1, <3>2 DEF Readable
    <3> QED BY <1>1, <1>6, <2>1, <3>3, QueryKeeps DEF QueryPost
  <2>2. CASE ~MayRead(ask[d].viewer, ask[d].of)
    <3>1. /\ UNCHANGED <<rows, full, search>> /\ at' = [at EXCEPT ![d] = "notfound"]
          /\ UNCHANGED <<ask, page, shown, past>>
      BY <1>6, <2>2 DEF QueryPost, Continue
    <3>2. rows[d] = {}
      BY <1>1 DEF FeedInv, ReaderInv, WasEntitled
    <3>3. rows' = [rows EXCEPT ![d] = {}]
      BY <3>1, <3>2 DEF FeedInv, FeedTypeOK
    <3>4. (KnowsItsError(d))'
      BY <3>1 DEF KnowsItsError, FeedInv, FeedTypeOK
    <3>5. /\ full' \in [Readers -> BOOLEAN] /\ search' \in [Readers -> Search]
          /\ \A e \in Readers \ {d} : full'[e] = full[e] /\ search'[e] = search[e]
      BY <3>1 DEF FeedInv, FeedTypeOK
    <3>6. at[d] \in Reading
      BY <1>1 DEF Reading
    <3> DEFINE step == "notfound"
               found == {}
    <3>7. /\ step \in Reading \cup {"notfound", "error", "unavailable"}
          /\ step \notin Reading
          /\ found \in SUBSET seen[d]
      BY DEF Reading
    <3>8. at' = [at EXCEPT ![d] = step] /\ rows' = [rows EXCEPT ![d] = found]
      BY <3>1, <3>3
    <3>9. found = {}
      OBVIOUS
    <3> HIDE DEF step, found
    <3> QED BY <3>1, <3>4, <3>5, <3>6, <3>7, <3>8, <3>9, MovesOn DEF Reading
  <2> QED BY <2>1, <2>2
<1> QED BY <1>3, <1>4, <1>5, <1>6

LEMMA RecordedIsSearch ==
    ASSUME NEW s \in Search, NEW half \in Halves, NEW cause \in Causes,
           FirstError(s.first, cause) \in Causes
    PROVE  LET new == Recorded(s, half, cause)
           IN  /\ new \in Search
               /\ new.first = FirstError(s.first, cause)
               /\ new.late = s.late
<1> DEFINE first == FirstError(s.first, cause)
<1>1. ASSUME half = "users"
      PROVE  Recorded(s, half, cause)
                 = [users |-> cause, posts |-> s.posts, first |-> first, late |-> s.late]
  <2>1. Recorded(s, half, cause) = [s EXCEPT !.users = cause, !.first = first]
    BY <1>1 DEF Recorded
  <2> HIDE DEF first
  <2> QED BY <2>1 DEF Search
<1>2. ASSUME half = "posts"
      PROVE  Recorded(s, half, cause)
                 = [users |-> s.users, posts |-> cause, first |-> first, late |-> s.late]
  <2>1. Recorded(s, half, cause) = [s EXCEPT !.posts = cause, !.first = first]
    BY <1>2 DEF Recorded
  <2> HIDE DEF first
  <2> QED BY <2>1 DEF Search
<1> HIDE DEF first
<1>3. first \in Causes
  BY DEF first
<1> QED BY <1>1, <1>2, <1>3 DEF Search, Halves, first

\* A goroutine that ends: what is left of the others' records.
LEMMA HalfEndsKeeps ==
    ASSUME FeedInv, NEW d \in Readers, NEW half \in Halves, HalfEnds(d, half),
           UNCHANGED vars
    PROVE  ReaderKeeps(d)
<1> DEFINE old == search[d]
<1>1. /\ at[d] = "search" /\ at' = [at EXCEPT ![d] = "search"]
      /\ UNCHANGED <<ask, page, shown, past>>
  BY DEF HalfEnds, Continue
<1>2. ask[d] \in Asks /\ Readable(ask[d]) \subseteq seen[d] /\ ask[d].kind = "search"
      /\ rows[d] \subseteq seen[d]
  BY <1>1, MaySeeNow DEF Reading, FeedInv, ReaderInv, KnowsItsAsk, WasEntitled
<1>3. /\ old \in Search /\ old.first # "sibling"
      /\ old.first = "deadline" => old.late
      /\ \A other \in Halves : old[other] \in Causes => old.first # None
  BY <1>1 DEF FeedInv, FeedTypeOK, ReaderInv, KnowsItsError
\* Any record of the search that accounts for its errors will do.
<1>4. ASSUME NEW found \in SUBSET seen[d], rows' = [rows EXCEPT ![d] = found],
             full' \in [Readers -> BOOLEAN],
             \A e \in Readers \ {d} : full'[e] = full[e],
             NEW new \in Search, search' = [search EXCEPT ![d] = new],
             new.first # "sibling", new.first = "deadline" => new.late,
             \A other \in Halves : new[other] \in Causes => new.first # None
      PROVE  ReaderKeeps(d)
  <2>1. search' \in [Readers -> Search] /\ search'[d] = new
        /\ \A e \in Readers \ {d} : search'[e] = search[e]
    BY <1>4 DEF FeedInv, FeedTypeOK
  <2>2. (KnowsItsError(d))'
    BY <1>4, <2>1 DEF KnowsItsError
  <2> QED BY <1>1, <1>2, <1>4, <2>1, <2>2, MovesOn DEF Reading
<1>5. CASE /\ search' = [search EXCEPT ![d][half] = "done"]
           /\ IF half = "posts" THEN Reads(d, PageOf(d, ask[d]), FindsMore(d, ask[d]))
                                ELSE UNCHANGED <<rows, full>>
  <2> DEFINE new == [old EXCEPT ![half] = "done"]
  <2>1. PICK found \in SUBSET seen[d] :
          /\ rows' = [rows EXCEPT ![d] = found]
          /\ full' \in [Readers -> BOOLEAN]
          /\ \A e \in Readers \ {d} : full'[e] = full[e]
    <3>1. CASE half = "posts"
      <4>1. PageOf(d, ask[d]) \in SUBSET seen[d] /\ FindsMore(d, ask[d]) \in BOOLEAN
        BY <1>2, PageIsListed, ListingIsReadable DEF FeedInv
      <4>2. rows' = [rows EXCEPT ![d] = PageOf(d, ask[d])]
            /\ full' = [full EXCEPT ![d] = FindsMore(d, ask[d])]
        BY <1>5, <3>1 DEF Reads
      <4> QED BY <4>1, <4>2 DEF FeedInv, FeedTypeOK
    <3>2. CASE half # "posts"
      <4>1. rows' = [rows EXCEPT ![d] = rows[d]] /\ full' = full
        BY <1>5, <3>2 DEF FeedInv, FeedTypeOK
      <4> QED BY <1>2, <4>1 DEF FeedInv, FeedTypeOK
    <3> QED BY <3>1, <3>2
  <2>2. new \in Search /\ new.first = old.first /\ new.late = old.late
        /\ \A other \in Halves : new[other] \in Causes => old[other] \in Causes
    <3>1. CASE half = "users"
      <4>1. new = [old EXCEPT !.users = "done"]
        BY <3>1
      <4> QED BY <1>3, <4>1 DEF Search, Halves, Causes
    <3>2. CASE half = "posts"
      <4>1. new = [old EXCEPT !.posts = "done"]
        BY <3>2
      <4> QED BY <1>3, <4>1 DEF Search, Halves, Causes
    <3> QED BY <3>1, <3>2 DEF Halves
  <2>3. search' = [search EXCEPT ![d] = new]
    BY <1>5
  <2> HIDE DEF new
  <2> QED BY <1>3, <1>4, <2>1, <2>2, <2>3
<1>6. ASSUME NEW cause \in Causes, Fails(d, half, cause),
             cause = "deadline" => old.late, cause = "sibling" => old.first # None
      PROVE  ReaderKeeps(d)
  <2> DEFINE first == FirstError(old.first, cause)
             new == Recorded(old, half, cause)
  <2>1. first \in Causes /\ first # "sibling" /\ (first = "deadline" => old.late)
    BY <1>3, <1>6 DEF FirstError, Search
  <2>2. first # None
    BY <2>1, NoneIsNoCause
  <2>3. search' = [search EXCEPT ![d] = new] /\ UNCHANGED <<rows, full>>
    BY <1>6 DEF Fails
  <2>4. new \in Search /\ new.first = first /\ new.late = old.late
    BY <1>3, <2>1, RecordedIsSearch
  <2>5. rows' = [rows EXCEPT ![d] = rows[d]]
    BY <2>3 DEF FeedInv, FeedTypeOK
  <2> HIDE DEF new, first
  <2> QED BY <1>2, <1>4, <2>1, <2>2, <2>3, <2>4, <2>5 DEF FeedInv, FeedTypeOK
<1> QED BY <1>5, <1>6 DEF HalfEnds, Causes

LEMMA LateIsSearch ==
    ASSUME NEW s \in Search, NEW b \in BOOLEAN
    PROVE  /\ [s EXCEPT !.late = b] \in Search
           /\ [NoSearch EXCEPT !.late = b] \in Search
BY DEF Search, NoSearch

LEMMA FailuresRest == \A d : FailureOf(d) \in {"unavailable", "error"}
BY DEF FailureOf

LEMMA JoinSearchKeeps ==
    ASSUME FeedInv, NEW d \in Readers, JoinSearch(d), UNCHANGED vars
    PROVE  ReaderKeeps(d)
<1> DEFINE ok == search[d].first = None
           step == IF ok THEN "fill" ELSE FailureOf(d)
           found == IF ok THEN rows[d] ELSE {}
           new == [NoSearch EXCEPT !.late = search[d].late]
<1>1. /\ at[d] = "search" /\ at' = [at EXCEPT ![d] = step]
      /\ rows' = [rows EXCEPT ![d] = found] /\ search' = [search EXCEPT ![d] = new]
      /\ UNCHANGED <<ask, page, full, shown, past>>
  BY DEF JoinSearch
<1>2. found \in SUBSET seen[d] /\ (~ok => found = {})
  BY DEF FeedInv, ReaderInv, WasEntitled
<1>3. step \in {"fill", "error", "unavailable"} /\ (ok => step = "fill")
  BY FailuresRest
<1>4. new \in Search
  <2>1. search[d] \in Search
    BY DEF FeedInv, FeedTypeOK
  <2> QED BY <2>1, LateIsSearch DEF Search
<1> HIDE DEF step, found, new, ok
<1>5. search' \in [Readers -> Search]
      /\ \A e \in Readers \ {d} : search'[e] = search[e]
  BY <1>1, <1>4 DEF FeedInv, FeedTypeOK
<1>6. (KnowsItsError(d))'
  BY <1>1, <1>3 DEF KnowsItsError, FeedInv, FeedTypeOK
<1>7. full' \in [Readers -> BOOLEAN] /\ \A e \in Readers \ {d} : full'[e] = full[e]
  BY <1>1 DEF FeedInv, FeedTypeOK
<1>8. step \notin {"search", "fill"} => found = {}
  BY <1>2, <1>3
<1> QED BY <1>1, <1>2, <1>3, <1>5, <1>6, <1>7, <1>8, MovesOn DEF Reading

LEMMA DeadlineKeeps ==
    ASSUME FeedInv, NEW d \in Readers, Deadline(d), UNCHANGED vars
    PROVE  ReaderKeeps(d)
<1> DEFINE old == search[d]
           new == [old EXCEPT !.late = TRUE]
           step == at[d]
           found == rows[d]
<1>1. /\ at[d] \in {"search", "fill"} /\ ask[d].kind = "search"
      /\ search' = [search EXCEPT ![d] = new]
      /\ UNCHANGED <<ask, at, page, rows, full, shown, past>>
  BY DEF Deadline
<1>2. at' = [at EXCEPT ![d] = step] /\ rows' = [rows EXCEPT ![d] = found]
  BY <1>1 DEF FeedInv, FeedTypeOK
<1>3. old \in Search
  BY DEF FeedInv, FeedTypeOK
<1>4. new \in Search /\ new.first = old.first /\ new.late = TRUE
      /\ \A half \in Halves : new[half] = old[half]
  BY <1>3 DEF Search, Halves
<1>5. found \in SUBSET seen[d]
  BY DEF FeedInv, ReaderInv, WasEntitled
<1> HIDE DEF new
<1>6. search' \in [Readers -> Search] /\ search'[d] = new
      /\ \A e \in Readers \ {d} : search'[e] = search[e]
  BY <1>1, <1>4 DEF FeedInv, FeedTypeOK
<1>7. (KnowsItsError(d))'
  BY <1>1, <1>4, <1>6 DEF KnowsItsError, FeedInv, ReaderInv
<1>8. full' \in [Readers -> BOOLEAN] /\ \A e \in Readers \ {d} : full'[e] = full[e]
  BY <1>1 DEF FeedInv, FeedTypeOK
<1>9. step \in {"search", "fill"}
  BY <1>1
<1> HIDE DEF step, found
<1> QED BY <1>1, <1>2, <1>5, <1>6, <1>7, <1>8, <1>9, MovesOn DEF Reading, step

LEMMA AnswerKeeps ==
    ASSUME FeedInv, NEW d \in Readers, Answer(d), UNCHANGED vars
    PROVE  ReaderKeeps(d)
<1> DEFINE a == ask[d]
<1>1. /\ at[d] = "fill" /\ shown' = [shown EXCEPT ![d] = @ \cup rows[d]]
      /\ rows' = [rows EXCEPT ![d] = {}] /\ search' = [search EXCEPT ![d] = NoSearch]
      /\ seen' = [seen EXCEPT ![d] = {}] /\ UNCHANGED <<ask, full, kept, gaps>>
  BY DEF Answer
<1>2. \/ Offered(d) /\ page' = [page EXCEPT ![d] = @ + 1]
                    /\ at' = [at EXCEPT ![d] = "between"]
      \/ ~Offered(d) /\ page' = page /\ at' = [at EXCEPT ![d] = "end"]
  BY DEF Answer
<1>3. a \in Asks /\ IsBindable(LimitsOf(a), page[d], a.size)
  BY <1>1 DEF FeedInv, ReaderInv, KnowsItsAsk, MayAsk
<1>4. page[d] \in Nat \ {0} /\ page' \in [Readers -> Nat \ {0}]
      /\ \A e \in Readers \ {d} : page'[e] = page[e]
  BY <1>2 DEF FeedInv, FeedTypeOK
<1>5. at'[d] \in {"between", "end"} /\ at' \in [Readers -> Reading \cup Resting]
      /\ \A e \in Readers \ {d} : at'[e] = at[e]
  BY <1>2 DEF FeedInv, FeedTypeOK, Resting
<1>6. rows'[d] = {} /\ ask' = ask
  BY <1>1 DEF FeedInv, FeedTypeOK
<1>7. FeedTypeOK'
  <2>1. TypeOK'
    BY StillTables DEF FeedInv, FeedTypeOK
  <2>2. search' \in [Readers -> Search]
    BY <1>1 DEF FeedInv, FeedTypeOK, NoSearch, Search
  <2>3. shown' \in [Readers -> SUBSET PostIds] /\ rows' \in [Readers -> SUBSET PostIds]
        /\ seen' \in [Readers -> SUBSET PostIds]
    BY <1>1 DEF FeedInv, FeedTypeOK
  <2> QED BY <1>1, <1>4, <1>5, <2>1, <2>2, <2>3 DEF FeedInv, FeedTypeOK
<1>8. (MayAsk(d))'
  <2>1. CASE Offered(d)
    <3>1. at'[d] = "between" /\ page'[d] = page[d] + 1
      BY <1>2, <2>1 DEF FeedInv, FeedTypeOK
    <3>2. NextIsAllowed(LimitsOf(a), Query(page[d], a.size))
      BY <2>1 DEF Offered, QueryOf
    <3>3. IsBindable(LimitsOf(a), page[d] + 1, a.size)
      BY <1>3, <1>4, <3>2, NextPageIsBindable
    <3> QED BY <1>6, <3>1, <3>3 DEF MayAsk, LimitsOf
  <2>2. CASE ~Offered(d)
    <3>1. at'[d] = "end" /\ page' = page /\ full' = full
      BY <1>1, <1>2, <2>2 DEF FeedInv, FeedTypeOK
    <3>2. full[d] => page[d] * a.size > LimitsOf(a).offset
      BY <1>3, <1>4, <2>2, RefusedIsBehind DEF Offered, QueryOf
    <3> QED BY <1>6, <3>1, <3>2 DEF MayAsk, LimitsOf
  <2> QED BY <2>1, <2>2
<1>9. (KnowsItsAsk(d))' /\ (WasEntitled(d))' /\ (KnowsItsError(d))'
  BY <1>3, <1>5, <1>6 DEF KnowsItsAsk, WasEntitled, KnowsItsError, Reading
<1>10. OnlyReader(d)
  BY <1>1, <1>4, <1>5 DEF OnlyReader, FeedInv, FeedTypeOK
<1> QED BY <1>7, <1>8, <1>9, <1>10 DEF ReaderKeeps, ReaderInv

LEMMA FailKeeps ==
    ASSUME FeedInv, NEW d \in Readers, Fail(d), UNCHANGED vars
    PROVE  ReaderKeeps(d)
<1> DEFINE step == FailureOf(d)
<1>1. /\ at[d] \in {"check", "query", "fill"} /\ at' = [at EXCEPT ![d] = step]
      /\ rows' = [rows EXCEPT ![d] = {}] /\ search' = [search EXCEPT ![d] = NoSearch]
      /\ seen' = [seen EXCEPT ![d] = {}]
      /\ UNCHANGED <<ask, page, full, shown, kept, gaps>>
  BY DEF Fail
<1>2. step \in {"unavailable", "error"}
  BY FailuresRest
<1> HIDE DEF step
<1>3. at'[d] = step /\ rows'[d] = {} /\ ask' = ask /\ page' = page
  BY <1>1 DEF FeedInv, FeedTypeOK
<1>4. ask[d] \in Asks /\ IsBindable(LimitsOf(ask[d]), page[d], ask[d].size)
  BY <1>1 DEF FeedInv, ReaderInv, KnowsItsAsk, MayAsk
<1>5. FeedTypeOK'
  <2>1. TypeOK'
    BY StillTables DEF FeedInv, FeedTypeOK
  <2>2. search' \in [Readers -> Search]
    BY <1>1 DEF FeedInv, FeedTypeOK, NoSearch, Search
  <2>3. rows' \in [Readers -> SUBSET PostIds] /\ seen' \in [Readers -> SUBSET PostIds]
    BY <1>1 DEF FeedInv, FeedTypeOK
  <2>4. at' \in [Readers -> Reading \cup Resting]
    BY <1>1, <1>2 DEF FeedInv, FeedTypeOK, Resting
  <2> QED BY <1>1, <2>1, <2>2, <2>3, <2>4 DEF FeedInv, FeedTypeOK
<1>6. (KnowsItsAsk(d))' /\ (WasEntitled(d))' /\ (KnowsItsError(d))' /\ (MayAsk(d))'
  BY <1>2, <1>3, <1>4 DEF KnowsItsAsk, WasEntitled, KnowsItsError, MayAsk, LimitsOf,
                          Reading
<1>7. OnlyReader(d)
  BY <1>1 DEF OnlyReader, FeedInv, FeedTypeOK
<1> QED BY <1>5, <1>6, <1>7 DEF ReaderKeeps, ReaderInv

LEMMA ReadKeeps ==
    ASSUME FeedInv, NEW d \in Readers, Read(d), UNCHANGED vars
    PROVE  FeedInv'
<1>1. ReaderKeeps(d)
  BY OpenKeeps, LoadMoreKeeps, CheckPostKeeps, QueriesKeep, HalfEndsKeeps,
     JoinSearchKeeps, DeadlineKeeps, AnswerKeeps, FailKeeps DEF Read
<1>2. ASSUME NEW e \in Readers, e # d
      PROVE  (ReaderInv(e))'
  <2>1. /\ ask'[e] = ask[e] /\ at'[e] = at[e] /\ page'[e] = page[e]
        /\ rows'[e] = rows[e] /\ full'[e] = full[e] /\ search'[e] = search[e]
        /\ seen'[e] = seen[e]
    BY <1>1, <1>2 DEF ReaderKeeps, OnlyReader
  <2>2. (Readable(ask[e]))' = Readable(ask[e])
    BY <2>1, StillTables
  <2>3. KnowsItsAsk(e) /\ WasEntitled(e) /\ KnowsItsError(e) /\ MayAsk(e)
    BY DEF FeedInv, ReaderInv
  <2>4. (KnowsItsAsk(e))' /\ (KnowsItsError(e))'
    BY <2>1, <2>3 DEF KnowsItsAsk, KnowsItsError
  <2>5. (WasEntitled(e))'
    BY <2>1, <2>2, <2>3 DEF WasEntitled
  <2>6. (MayAsk(e))'
    BY <2>1, <2>3 DEF MayAsk, LimitsOf
  <2> QED BY <2>4, <2>5, <2>6 DEF ReaderInv
<1> QED BY <1>1, <1>2 DEF ReaderKeeps, FeedInv
-----------------------------------------------------------------------------
(* Steps of writers *)

LEMMA WriterKeeps ==
    ASSUME FeedInv, TypeOK', UNCHANGED reader, Watch
    PROVE  FeedInv'
<1>1. /\ ask' = ask /\ at' = at /\ page' = page /\ rows' = rows /\ full' = full
      /\ search' = search /\ shown' = shown
  BY DEF reader
<1>2. ASSUME NEW d \in Readers
      PROVE  seen'[d] = IF at[d] \in Reading
                        THEN seen[d] \cup (Readable(ask[d]))' ELSE seen[d]
  BY DEF Watch
<1>3. FeedTypeOK'
  <2>1. seen' \in [Readers -> SUBSET PostIds]
    <3>1. ASSUME NEW d \in Readers
          PROVE  seen'[d] \in SUBSET PostIds
      <4>1. (Readable(ask[d]))' \in SUBSET PostIds
        BY DEF Readable
      <4> QED BY <1>2, <4>1 DEF FeedInv, FeedTypeOK
    <3> QED BY <3>1 DEF Watch
  <2>2. kept' \in [Readers -> SUBSET PostIds]
    BY DEF Watch, FeedInv, FeedTypeOK
  <2>3. gaps' \in [Readers -> Nat]
    <3>1. ASSUME NEW d \in Readers
          PROVE  Cardinality(Moved(d)) \in Nat
      <4>1. Moved(d) \in SUBSET PostIds
        BY ListingIsPosts DEF Moved
      <4> QED BY <4>1, FeedConstantsOK, FS_Subset, FS_CardinalityType
    <3>2. ASSUME NEW d \in Readers
          PROVE  gaps[d] + Cardinality(Moved(d)) \in Nat /\ gaps[d] \in Nat
      BY <3>1 DEF FeedInv, FeedTypeOK
    <3> QED BY <3>2 DEF Watch
  <2> QED BY <1>1, <2>1, <2>2, <2>3 DEF FeedInv, FeedTypeOK
<1>4. ASSUME NEW d \in Readers
      PROVE  (ReaderInv(d))'
  <2>1. KnowsItsAsk(d) /\ WasEntitled(d) /\ KnowsItsError(d) /\ MayAsk(d)
    BY DEF FeedInv, ReaderInv
  <2>2. (KnowsItsAsk(d))' /\ (KnowsItsError(d))'
    BY <1>1, <2>1 DEF KnowsItsAsk, KnowsItsError
  <2>3. (MayAsk(d))'
    BY <1>1, <2>1 DEF MayAsk, LimitsOf
  <2>4. (WasEntitled(d))'
    <3>1. seen[d] \subseteq seen'[d]
      BY <1>2
    <3>2. at[d] \in Reading => (Readable(ask[d]))' \subseteq seen'[d]
      BY <1>2
    <3> QED BY <1>1, <2>1, <3>1, <3>2 DEF WasEntitled
  <2> QED BY <2>2, <2>3, <2>4 DEF ReaderInv
<1> QED BY <1>3, <1>4 DEF FeedInv
-----------------------------------------------------------------------------
(* The theorems *)

\* Readers change nothing of Posts (no read operation of the services writes a
\* row): what is shown of Posts holds of Feed.
THEOREM ReadersOnlyRead == FeedSpec => Spec
<1>1. FeedInit => Init
  BY DEF FeedInit
<1>2. [FeedNext]_feedVars => [Next]_vars
  BY DEF FeedNext, feedVars
<1> QED BY <1>1, <1>2, PTL DEF FeedSpec, Spec

LEMMA FeedInvInit == FeedInit => FeedInv
<1> SUFFICES ASSUME FeedInit
             PROVE  FeedInv
  OBVIOUS
<1>1. TypeOK
  BY IInvInit DEF FeedInit, IInv
<1>2. NoSearch \in Search
  BY DEF NoSearch, Search
<1>3. FeedTypeOK
  BY <1>1, <1>2 DEF FeedInit, FeedTypeOK, Resting
<1>4. ASSUME NEW d \in Readers
      PROVE  ReaderInv(d)
  BY DEF FeedInit, ReaderInv, KnowsItsAsk, WasEntitled, KnowsItsError, MayAsk, Reading
<1> QED BY <1>3, <1>4 DEF FeedInv

LEMMA FeedInvStep == FeedInv /\ TypeOK' /\ [FeedNext]_feedVars => FeedInv'
<1> SUFFICES ASSUME FeedInv, TypeOK', [FeedNext]_feedVars
             PROVE  FeedInv'
  OBVIOUS
<1>1. ASSUME NEW d \in Readers, Read(d), UNCHANGED vars
      PROVE  FeedInv'
  BY <1>1, ReadKeeps
<1>2. CASE UNCHANGED reader /\ Watch
  BY <1>2, WriterKeeps
<1>3. CASE UNCHANGED feedVars
  <2>1. UNCHANGED <<vars, ask, at, page, rows, full, search, shown, seen, kept, gaps>>
    BY <1>3 DEF feedVars, reader, past
  <2>2. \A a : (Readable(a))' = Readable(a)
    BY <2>1, StillTables
  <2>3. ASSUME NEW d \in Readers
        PROVE  (ReaderInv(d))'
    <3>1. KnowsItsAsk(d) /\ WasEntitled(d) /\ KnowsItsError(d) /\ MayAsk(d)
      BY DEF FeedInv, ReaderInv
    <3>2. (KnowsItsAsk(d))' /\ (KnowsItsError(d))' /\ (MayAsk(d))'
      BY <2>1, <3>1 DEF KnowsItsAsk, KnowsItsError, MayAsk, LimitsOf
    <3>3. (Readable(ask[d]))' = Readable(ask[d])
      BY <2>1, StillTables
    <3>4. (WasEntitled(d))'
      BY <2>1, <3>1, <3>3 DEF WasEntitled
    <3> QED BY <3>2, <3>4 DEF ReaderInv
  <2> QED BY <2>1, <2>3 DEF FeedInv, FeedTypeOK
<1> QED BY <1>1, <1>2, <1>3 DEF FeedNext

LEMMA FeedInvariance == FeedSpec => []FeedInv
<1>1. FeedSpec => []TypeOK
  BY ReadersOnlyRead, TypeCorrect, PTL
<1> QED BY <1>1, FeedInvInit, FeedInvStep, PTL DEF FeedSpec

\* The variables of the readers keep their types.
THEOREM FeedTypeCorrect == FeedSpec => []FeedTypeOK
<1>1. FeedInv => FeedTypeOK
  BY DEF FeedInv
<1> QED BY <1>1, FeedInvariance, PTL

\* Whatever is hidden or deleted between the statements of a request, each post
\* of its answer was one the reader was entitled to since the request arrived.
THEOREM HiddenStaysHidden == FeedSpec => []NothingHiddenIsShown
<1>1. FeedInv => NothingHiddenIsShown
  BY DEF FeedInv, ReaderInv, WasEntitled, NothingHiddenIsShown
<1> QED BY <1>1, FeedInvariance, PTL

\* A page that is offered is accepted when it is asked for, and a list is cut
\* only where its limit is (pagination.Query.HasNext, BindPageQuery).
THEOREM OffersHold == FeedSpec => []OffersAreHonoured
<1>1. ASSUME FeedInv, NEW d \in Readers, ask[d] # None
      PROVE  /\ at[d] # "end" => IsBindable(LimitsOf(ask[d]), page[d], ask[d].size)
             /\ at[d] = "end" /\ full[d] => page[d] * ask[d].size > LimitsOf(ask[d]).offset
  <2>1. at[d] # "idle"
    BY <1>1 DEF FeedInv, ReaderInv, KnowsItsAsk
  <2> QED BY <1>1, <2>1 DEF FeedInv, ReaderInv, MayAsk
<1>2. FeedInv => OffersAreHonoured
  BY <1>1 DEF OffersAreHonoured
<1> QED BY <1>2, FeedInvariance, PTL

\* A search ends with both its halves, or with the error that came first
\* (searchAll: errOnce, cancel and wait.Wait).
THEOREM SearchesEndTrue == FeedSpec => SearchesEndWhole
<1>1. ASSUME FeedInv, FeedInv', [FeedNext]_feedVars
      PROVE  [SearchEndsWhole]_feedVars
  <2> SUFFICES ASSUME FeedNext, NEW d \in Readers, at[d] = "search", at'[d] # "search"
               PROVE  /\ \A half \in Halves : search[d][half] # "running"
                      /\ search[d].first # "sibling"
                      /\ search[d].first = "deadline" => at'[d] = "unavailable"
                      /\ at'[d] = "fill" =>
                             \A half \in Halves : search[d][half] = "done"
    BY <1>1 DEF SearchEndsWhole
  <2>1. PICK e \in Readers : Read(e) /\ UNCHANGED vars
    BY DEF FeedNext, reader
  <2>2. ReaderKeeps(e)
    BY <1>1, <2>1, OpenKeeps, LoadMoreKeeps, CheckPostKeeps, QueriesKeep, HalfEndsKeeps,
       JoinSearchKeeps, DeadlineKeeps, AnswerKeeps, FailKeeps DEF Read
  <2>3. e = d
    BY <2>2 DEF ReaderKeeps, OnlyReader
  <2>4. at \in [Readers -> Reading \cup Resting] /\ search[d] \in Search
    BY <1>1 DEF FeedInv, FeedTypeOK
  <2>5. ASSUME NEW half \in Halves, HalfEnds(d, half)
        PROVE  FALSE
    BY <2>4, <2>5 DEF HalfEnds, Continue
  <2>6. ASSUME Deadline(d)
        PROVE  FALSE
    BY <2>6 DEF Deadline
  <2>7. JoinSearch(d)
    BY <2>1, <2>3, <2>5, <2>6 DEF Read, Open, LoadMore, CheckPost, QueryList,
       QueryComments, QueryHot, QueryPost, Answer, Fail
  <2>8. /\ BothEnded(d)
        /\ at'[d] = IF search[d].first = None THEN "fill" ELSE FailureOf(d)
    BY <2>4, <2>7 DEF JoinSearch
  <2>9. /\ search[d].first # "sibling"
        /\ search[d].first = "deadline" => search[d].late
        /\ \A half \in Halves : search[d][half] \in Causes => search[d].first # None
    BY <1>1 DEF FeedInv, ReaderInv, KnowsItsError
  <2>10. search[d].first = "deadline" => at'[d] = "unavailable"
    BY <2>8, <2>9, NoneIsNoCause DEF FailureOf, Causes
  <2>11. ASSUME at'[d] = "fill", NEW half \in Halves
         PROVE  search[d][half] = "done"
    <3>1. search[d].first = None
      BY <2>8, <2>11, FailuresRest
    <3>2. search[d][half] \notin Causes /\ search[d][half] # "running"
      BY <2>8, <2>9, <3>1 DEF BothEnded
    <3>3. search[d][half] \in {"running", "done"} \cup Causes
      BY <2>4 DEF Search, Halves
    <3> QED BY <3>2, <3>3
  <2> QED BY <2>8, <2>9, <2>10, <2>11 DEF BothEnded
<1> QED BY <1>1, FeedInvariance, PTL DEF FeedSpec, SearchesEndWhole
-----------------------------------------------------------------------------
(***************************************************************************)
(* Gaps.                                                                   *)
(*                                                                         *)
(* A list is a set with an order; the place of a row is the number of rows *)
(* before it, and a page is cut out of the list by place.  When rows leave *)
(* the list or change their place in it, the rows that come to stand among *)
(* the first n are no more than those that have left: that is why a reader *)
(* who asks by offset misses one row at most for each that has moved.      *)
(***************************************************************************)

\* R orders L strictly, and any two different elements.
IsOrder(L, R) ==
    /\ \A p \in L : <<p, p>> \notin R
    /\ \A p, q \in L : p # q => <<p, q>> \in R \/ <<q, p>> \in R
    /\ \A p, q, x \in L : <<p, q>> \in R /\ <<q, x>> \in R => <<p, x>> \in R

Place(L, R, p) == Cardinality({q \in L : <<q, p>> \in R})
FirstOf(L, R, n) == {p \in L : Place(L, R, p) < n}

LEMMA PlacesGrow ==
    ASSUME NEW L, IsFiniteSet(L), NEW R, IsOrder(L, R),
           NEW p \in L, NEW q \in L, <<p, q>> \in R
    PROVE  /\ Place(L, R, p) \in Nat /\ Place(L, R, q) \in Nat
           /\ Place(L, R, p) < Place(L, R, q)
<1> DEFINE P == {x \in L : <<x, p>> \in R}
           Q == {x \in L : <<x, q>> \in R}
<1>1. P \in SUBSET Q /\ Q \in SUBSET L /\ p \in Q /\ p \notin P
  BY DEF IsOrder
<1> HIDE DEF P, Q
<1>2. IsFiniteSet(Q) BY <1>1, FS_Subset
<1>3. IsFiniteSet(P) /\ Cardinality(P) <= Cardinality(Q) /\ Cardinality(P) # Cardinality(Q)
  BY <1>1, <1>2, FS_Subset
<1>4. Cardinality(P) \in Nat /\ Cardinality(Q) \in Nat
  BY <1>2, <1>3, FS_CardinalityType
<1> QED BY <1>3, <1>4 DEF Place, P, Q

LEMMA PlaceIsNat ==
    ASSUME NEW L, IsFiniteSet(L), NEW R, NEW p
    PROVE  /\ Place(L, R, p) \in Nat
           /\ p \in L /\ IsOrder(L, R) => Place(L, R, p) < Cardinality(L)
<1> DEFINE P == {x \in L : <<x, p>> \in R}
<1>1. P \in SUBSET L OBVIOUS
<1>2. p \in L /\ IsOrder(L, R) => P # L BY DEF IsOrder
<1> HIDE DEF P
<1>3. IsFiniteSet(P) /\ Cardinality(P) <= Cardinality(L)
      /\ (P # L => Cardinality(P) # Cardinality(L))
  BY <1>1, FS_Subset
<1>4. Cardinality(P) \in Nat /\ Cardinality(L) \in Nat BY <1>3, FS_CardinalityType
<1> QED BY <1>2, <1>3, <1>4 DEF Place, P

\* Different rows have different places.
LEMMA PlacesDiffer ==
    ASSUME NEW L, IsFiniteSet(L), NEW R, IsOrder(L, R),
           NEW p \in L, NEW q \in L, Place(L, R, p) = Place(L, R, q)
    PROVE  p = q
<1> SUFFICES ASSUME p # q PROVE FALSE OBVIOUS
<1>1. CASE <<p, q>> \in R BY <1>1, PlacesGrow
<1>2. CASE <<q, p>> \in R BY <1>2, PlacesGrow
<1> QED BY <1>1, <1>2 DEF IsOrder

LEMMA FirstAreFew ==
    ASSUME NEW L, IsFiniteSet(L), NEW R, IsOrder(L, R), NEW n \in Nat
    PROVE  IsFiniteSet(FirstOf(L, R, n)) /\ Cardinality(FirstOf(L, R, n)) <= n
<1> DEFINE F == FirstOf(L, R, n)
           f == [p \in F |-> Place(L, R, p) + 1]
<1>1. \A p \in F : p \in L /\ Place(L, R, p) \in Nat /\ Place(L, R, p) < n
  BY PlaceIsNat DEF FirstOf
<1>2. \A p, q \in F : Place(L, R, p) + 1 = Place(L, R, q) + 1 => p = q
  BY <1>1, PlacesDiffer
<1> HIDE DEF F
<1>3. f \in [F -> 1 .. n] BY <1>1
<1>4. f \in Injection(F, 1 .. n)
  <2>1. IsInjective(f) BY <1>2 DEF IsInjective
  <2> QED BY <1>3, <2>1 DEF Injection
<1>5. IsFiniteSet(1 .. n) /\ Cardinality(1 .. n) = n BY FS_Interval
<1> HIDE DEF f
<1> QED BY <1>4, <1>5, FS_Injection DEF F

\* When some row is not among the first n, there are n of them.
LEMMA FirstAreAll ==
    ASSUME NEW L, IsFiniteSet(L), NEW R, IsOrder(L, R), NEW n \in Nat,
           NEW p \in L, ~(Place(L, R, p) < n)
    PROVE  Cardinality(FirstOf(L, R, n)) = n
<1> DEFINE P == {q \in L : <<q, p>> \in R}
           k == Cardinality(P)
           F == FirstOf(L, R, n)
           g == [q \in P |-> Place(L, R, q) + 1]
           f == [q \in F |-> Place(L, R, q) + 1]
<1>1. k = Place(L, R, p) /\ k \in Nat /\ n <= k BY PlaceIsNat DEF Place
<1>2. \A q \in P : q \in L /\ Place(L, R, q) \in Nat /\ Place(L, R, q) < k
  BY <1>1, PlacesGrow
<1>3. P \in SUBSET L OBVIOUS
<1>4. IsFiniteSet(P) BY <1>3, FS_Subset
<1> HIDE DEF P, k
<1>5. ASSUME NEW q \in P, NEW x \in P, Place(L, R, q) + 1 = Place(L, R, x) + 1
      PROVE  q = x
  <2>1. Place(L, R, q) = Place(L, R, x) /\ q \in L /\ x \in L BY <1>2, <1>5
  <2> QED BY <2>1, PlacesDiffer
<1>6. g \in Injection(P, 1 .. k)
  <2>1. g \in [P -> 1 .. k] BY <1>1, <1>2
  <2>2. IsInjective(g) BY <1>5 DEF IsInjective
  <2> QED BY <2>1, <2>2 DEF Injection
<1>7. IsFiniteSet(1 .. k) /\ Cardinality(1 .. k) = Cardinality(P)
  BY <1>1, FS_Interval DEF k
<1>8. g \in Surjection(P, 1 .. k)
  <2> HIDE DEF g
  <2> QED BY <1>6, <1>7, FS_Injection
<1>9. \A i \in 1 .. n : \E q \in F : Place(L, R, q) + 1 = i
  <2> TAKE i \in 1 .. n
  <2>1. i \in 1 .. k BY <1>1
  <2>2. PICK q \in P : g[q] = i BY <1>8, <2>1 DEF Surjection
  <2>3. q \in L /\ Place(L, R, q) \in Nat /\ Place(L, R, q) + 1 = i BY <1>2, <2>2
  <2>4. q \in F BY <2>3 DEF FirstOf
  <2> QED BY <2>3, <2>4
<1>10. IsFiniteSet(F) /\ Cardinality(F) <= n BY FirstAreFew
<1>11. \A q \in F : Place(L, R, q) \in Nat /\ Place(L, R, q) < n
  BY PlaceIsNat DEF FirstOf
<1> HIDE DEF F
<1>12. f \in Surjection(F, 1 .. n)
  <2>1. f \in [F -> 1 .. n] BY <1>11
  <2>2. \A i \in 1 .. n : \E q \in F : f[q] = i BY <1>9
  <2> QED BY <2>1, <2>2 DEF Surjection
<1>13. Cardinality(1 .. n) = n BY FS_Interval
<1>14. Cardinality(1 .. n) <= Cardinality(F)
  <2> HIDE DEF f
  <2> QED BY <1>10, <1>12, FS_Surjection
<1>15. Cardinality(F) \in Nat BY <1>10, FS_CardinalityType
<1> QED BY <1>10, <1>13, <1>14, <1>15 DEF F

\* Counting two parts of a set.
LEMMA CountParts ==
    ASSUME NEW U, IsFiniteSet(U), NEW A \in SUBSET U, NEW B \in SUBSET U,
           \A x \in A : x \notin B
    PROVE  /\ IsFiniteSet(A) /\ IsFiniteSet(B) /\ IsFiniteSet(A \cup B)
           /\ Cardinality(A) \in Nat /\ Cardinality(B) \in Nat
           /\ Cardinality(A \cup B) = Cardinality(A) + Cardinality(B)
           /\ Cardinality(A \cup B) <= Cardinality(U)
<1>1. IsFiniteSet(A) /\ IsFiniteSet(B) BY FS_Subset
<1>2. Cardinality(A) \in Nat /\ Cardinality(B) \in Nat BY <1>1, FS_CardinalityType
<1>3. /\ IsFiniteSet(A \cup B)
      /\ Cardinality(A \cup B) = Cardinality(A) + Cardinality(B) - Cardinality(A \cap B)
  BY <1>1, FS_Union
<1>4. Cardinality(A \cap B) = 0
  <2>1. A \cap B = {} OBVIOUS
  <2> QED BY <2>1, FS_EmptySet
<1>5. A \cup B \in SUBSET U OBVIOUS
<1>6. Cardinality(A \cup B) <= Cardinality(U) BY <1>5, FS_Subset
<1> QED BY <1>1, <1>2, <1>3, <1>4, <1>6

\* The heart: of the rows S that stay and keep their order, as many come to
\* stand among the first n as others have left the first n.
LEMMA NewcomersAreFew ==
    ASSUME NEW L, IsFiniteSet(L), NEW R, IsOrder(L, R),
           NEW M, IsFiniteSet(M), NEW Q, IsOrder(M, Q),
           NEW S \in SUBSET (L \cap M),
           \A p, q \in S : <<p, q>> \in R => <<p, q>> \in Q,
           NEW n \in Nat
    PROVE  Cardinality((FirstOf(M, Q, n) \ FirstOf(L, R, n)) \cap S)
               <= Cardinality(FirstOf(L, R, n) \ S)
<1> DEFINE B == FirstOf(L, R, n)
           C == FirstOf(M, Q, n)
           X == (C \ B) \cap S
           I == B \cap S
           O == B \ S
<1>1. IsFiniteSet(B) /\ IsFiniteSet(C) /\ Cardinality(C) <= n BY FirstAreFew
<1>2. /\ IsFiniteSet(O) /\ Cardinality(O) \in Nat
      /\ Cardinality(I) \in Nat
      /\ Cardinality(B) = Cardinality(I) + Cardinality(O)
  <2>1. (\A x \in I : x \notin O) /\ I \cup O = B
        /\ I \in SUBSET B /\ O \in SUBSET B
    OBVIOUS
  <2> HIDE DEF B, I, O
  <2> QED BY <1>1, <2>1, CountParts
<1>3. CASE X = {}
  <2>1. Cardinality(X) = 0 BY <1>3, FS_EmptySet
  <2> HIDE DEF X, B, I, O
  <2>2. Cardinality(X) <= Cardinality(O) BY <1>2, <2>1
  <2> QED BY <2>2 DEF X, B, O
<1>4. CASE X # {}
  <2>1. PICK p \in X : TRUE BY <1>4
  <2>2. p \in L /\ p \in M /\ p \in S /\ ~(Place(L, R, p) < n) /\ Place(M, Q, p) < n
    BY <2>1 DEF FirstOf
  <2>3. I \subseteq C
    <3> SUFFICES ASSUME NEW q \in I PROVE q \in C OBVIOUS
    <3>1. q \in L /\ q \in M /\ Place(L, R, q) < n BY DEF FirstOf
    <3>2. p # q BY <2>2, <3>1
    <3>3. Place(L, R, p) \in Nat /\ Place(L, R, q) \in Nat BY PlaceIsNat
    <3>4. <<p, q>> \notin R
      <4> SUFFICES ASSUME <<p, q>> \in R PROVE FALSE OBVIOUS
      <4>1. Place(L, R, p) < Place(L, R, q) BY <2>2, <3>1, PlacesGrow
      <4> QED BY <2>2, <3>1, <3>3, <4>1
    <3>5. <<q, p>> \in R BY <2>2, <3>1, <3>2, <3>4 DEF IsOrder
    <3>6. <<q, p>> \in Q BY <2>2, <3>5
    <3>7. Place(M, Q, q) < Place(M, Q, p) /\ Place(M, Q, q) \in Nat /\ Place(M, Q, p) \in Nat
      BY <2>2, <3>1, <3>6, PlacesGrow
    <3>8. Place(M, Q, q) < n BY <2>2, <3>7
    <3> QED BY <3>1, <3>8 DEF FirstOf
  <2>4. Cardinality(B) = n BY <2>2, FirstAreAll
  <2>5. X \in SUBSET C /\ I \in SUBSET C /\ \A x \in X : x \notin I
    BY <2>3
  <2> HIDE DEF X, B, C, I, O
  <2>6. /\ Cardinality(X) \in Nat
        /\ Cardinality(X \cup I) = Cardinality(X) + Cardinality(I)
        /\ Cardinality(X \cup I) <= Cardinality(C)
    <3>1. IsFiniteSet(C) /\ X \in SUBSET C /\ I \in SUBSET C BY <1>1, <2>5
    <3>2. \A x \in X : x \notin I BY <2>5
    <3>3. Cardinality(X) \in Nat BY <3>1, <3>2, CountParts
    <3>4. Cardinality(X \cup I) = Cardinality(X) + Cardinality(I)
      BY <3>1, <3>2, CountParts, SMTT(60)
    <3>5. Cardinality(X \cup I) <= Cardinality(C) BY <3>1, <3>2, CountParts
    <3> QED BY <3>3, <3>4, <3>5
  <2>7. Cardinality(C) \in Nat BY <1>1, FS_CardinalityType
  <2>8. Cardinality(X) <= Cardinality(O) BY <1>1, <1>2, <2>4, <2>6, <2>7
  <2> QED BY <2>8 DEF X, B, C, O
<1> QED BY <1>3, <1>4

\* What that means for the rows K of the list, less those that are on screen.
LEMMA FewAreMissed ==
    ASSUME NEW L, IsFiniteSet(L), NEW R, IsOrder(L, R),
           NEW M, IsFiniteSet(M), NEW Q, IsOrder(M, Q),
           NEW S \in SUBSET (L \cap M),
           \A p, q \in S : <<p, q>> \in R => <<p, q>> \in Q,
           NEW n \in Nat, NEW K \in SUBSET L, NEW on
    PROVE  Cardinality((FirstOf(M, Q, n) \cap (K \cap M)) \ on)
               <= Cardinality((FirstOf(L, R, n) \cap K) \ on) + Cardinality(L \ S)
<1> DEFINE B == FirstOf(L, R, n)
           C == FirstOf(M, Q, n)
           X == (C \ B) \cap S
           Y == ((C \ B) \cap L) \ S
           O == B \ S
           old == (B \cap K) \ on
           new == (C \cap (K \cap M)) \ on
<1>1. B \in SUBSET L BY DEF FirstOf
<1>2. Cardinality(X) <= Cardinality(O) BY NewcomersAreFew
<1> HIDE DEF B, C
<1>3. X \in SUBSET L /\ Y \in SUBSET L /\ \A x \in X : x \notin Y OBVIOUS
<1>4. O \in SUBSET (L \ S) /\ Y \in SUBSET (L \ S) /\ \A x \in O : x \notin Y
  BY <1>1
<1>5. old \in SUBSET L /\ X \cup Y \in SUBSET L /\ new \in SUBSET (old \cup (X \cup Y))
  BY <1>1
<1> HIDE DEF X, Y, O, old, new
<1>6. L \ S \in SUBSET L OBVIOUS
<1>7. IsFiniteSet(L \ S) /\ Cardinality(L \ S) \in Nat
  BY <1>6, FS_Subset, FS_CardinalityType
<1>8. /\ Cardinality(X) \in Nat /\ Cardinality(Y) \in Nat
      /\ Cardinality(X \cup Y) = Cardinality(X) + Cardinality(Y)
      /\ IsFiniteSet(X \cup Y)
  BY <1>3, CountParts
<1>9. /\ Cardinality(O) \in Nat
      /\ Cardinality(O \cup Y) = Cardinality(O) + Cardinality(Y)
      /\ Cardinality(O \cup Y) <= Cardinality(L \ S)
  <2>1. IsFiniteSet(L \ S) /\ O \in SUBSET (L \ S) /\ Y \in SUBSET (L \ S)
    BY <1>4, <1>7
  <2>2. \A x \in O : x \notin Y BY <1>4
  <2>3. Cardinality(O) \in Nat BY <2>1, <2>2, CountParts
  <2>4. Cardinality(O \cup Y) = Cardinality(O) + Cardinality(Y) BY <2>1, <2>2, CountParts
  <2>5. Cardinality(O \cup Y) <= Cardinality(L \ S) BY <2>1, <2>2, CountParts
  <2> QED BY <2>3, <2>4, <2>5
<1>10. Cardinality(X \cup Y) <= Cardinality(L \ S) BY <1>2, <1>7, <1>8, <1>9
<1>11. IsFiniteSet(old) /\ Cardinality(old) \in Nat
  BY <1>5, FS_Subset, FS_CardinalityType
<1>12. /\ IsFiniteSet(old \cup (X \cup Y))
       /\ Cardinality(old \cup (X \cup Y))
              = Cardinality(old) + Cardinality(X \cup Y) - Cardinality(old \cap (X \cup Y))
  BY <1>8, <1>11, FS_Union
<1>13. Cardinality(old \cap (X \cup Y)) \in Nat
  <2>1. old \cap (X \cup Y) \in SUBSET old OBVIOUS
  <2> QED BY <1>11, <2>1, FS_Subset, FS_CardinalityType
<1>14. /\ Cardinality(new) \in Nat
       /\ Cardinality(new) <= Cardinality(old \cup (X \cup Y))
  BY <1>5, <1>12, FS_Subset, FS_CardinalityType
<1>15. Cardinality(X \cup Y) \in Nat BY <1>8, FS_CardinalityType
<1>16. Cardinality(new) <= Cardinality(old) + Cardinality(L \ S)
  BY <1>7, <1>10, <1>11, <1>12, <1>13, <1>14, <1>15
<1> QED BY <1>16 DEF new, old, B, C
-----------------------------------------------------------------------------
(* The lists of Feed are such sets *)

\* The order of a list, whose leading rows are given by `lead`.
OrderOf(lead) ==
    {pq \in PostIds \X PostIds :
        IF lead[pq[1]] = lead[pq[2]] THEN pq[1] > pq[2] ELSE lead[pq[1]]}
Lead(a) == [p \in PostIds |-> Leads(a, p)]

\* The first n rows of the list, and how many of them d has missed, when the
\* rows `on` are on its screen.
First(a, n) == {p \in Listing(a) : Position(a, p) < n}
Missed(d, n, on) == Cardinality((First(ask[d], n) \cap kept[d]) \ on)

\* Where the page d asks for starts, and whether its rows have been read.
Start(d) == (page[d] - 1) * ask[d].size
HasRead(d) == at[d] = "fill" \/ (at[d] = "search" /\ search[d].posts = "done")

ScrollInv(d) ==
    IF ask[d] = None THEN kept[d] = {} /\ shown[d] = {}
    ELSE ask[d].kind \in Scrolled =>
        /\ kept[d] \subseteq Listing(ask[d])
        /\ at[d] # "end" => Missed(d, Start(d), shown[d]) <= gaps[d]
        /\ HasRead(d) =>
               /\ Missed(d, Start(d) + ask[d].size, shown[d] \cup rows[d]) <= gaps[d]
               /\ ~full[d] => Cardinality(kept[d] \ (shown[d] \cup rows[d])) <= gaps[d]
        /\ at[d] = "end" /\ ~full[d] => Cardinality(kept[d] \ shown[d]) <= gaps[d]

ScrollsInv == FeedInv /\ \A d \in Readers : ScrollInv(d)

LEMMA LeadIsOrder ==
    ASSUME NEW lead \in [PostIds -> BOOLEAN], NEW L \in SUBSET PostIds
    PROVE  IsFiniteSet(L) /\ IsOrder(L, OrderOf(lead))
<1>1. IsFiniteSet(L) BY FeedConstantsOK, FS_Subset
<1>2. L \subseteq Nat BY FeedConstantsOK
<1>3. \A p, q \in L : <<p, q>> \in OrderOf(lead) <=>
                          IF lead[p] = lead[q] THEN p > q ELSE lead[p]
  BY DEF OrderOf
<1>4. \A p \in L : lead[p] \in BOOLEAN OBVIOUS
<1> QED BY <1>1, <1>2, <1>3, <1>4 DEF IsOrder

LEMMA LeadIsBoolean ==
    ASSUME NEW a
    PROVE  Lead(a) \in [PostIds -> BOOLEAN] /\ Lead(a)' \in [PostIds -> BOOLEAN]
<1>1. \A p : Leads(a, p) \in BOOLEAN BY DEF Leads, IsPinned
<1>2. \A p : Leads(a, p)' \in BOOLEAN BY DEF Leads, IsPinned
<1> QED BY <1>1, <1>2 DEF Lead

LEMMA ListingsArePosts ==
    ASSUME NEW a
    PROVE  Listing(a) \in SUBSET PostIds /\ Listing(a)' \in SUBSET PostIds
BY DEF Listing, PublicPosts, PostsBy

LEMMA FirstIs ==
    ASSUME NEW a, NEW n
    PROVE  /\ First(a, n) = FirstOf(Listing(a), OrderOf(Lead(a)), n)
           /\ First(a, n)' = FirstOf(Listing(a)', OrderOf(Lead(a)'), n)
<1>1. ASSUME NEW p \in Listing(a)
      PROVE  Position(a, p) = Place(Listing(a), OrderOf(Lead(a)), p)
  <2>1. \A q \in Listing(a) : <<q, p>> \in OrderOf(Lead(a)) <=> Precedes(a, q, p)
    BY ListingsArePosts DEF OrderOf, Lead, Precedes
  <2>2. {q \in Listing(a) : <<q, p>> \in OrderOf(Lead(a))}
            = {q \in Listing(a) : Precedes(a, q, p)}
    BY <2>1
  <2> QED BY <2>2 DEF Place, Position
<1>2. ASSUME NEW p \in Listing(a)'
      PROVE  Position(a, p)' = Place(Listing(a)', OrderOf(Lead(a)'), p)
  <2>1. \A q \in Listing(a)' : <<q, p>> \in OrderOf(Lead(a)') <=> Precedes(a, q, p)'
    BY ListingsArePosts DEF OrderOf, Lead, Precedes
  <2>2. {q \in Listing(a)' : <<q, p>> \in OrderOf(Lead(a)')}
            = {q \in Listing(a)' : Precedes(a, q, p)'}
    BY <2>1
  <2> QED BY <2>2 DEF Place, Position
<1>3. First(a, n) = FirstOf(Listing(a), OrderOf(Lead(a)), n)
  BY <1>1 DEF First, FirstOf
<1>4. First(a, n)' = FirstOf(Listing(a)', OrderOf(Lead(a)'), n)
  BY <1>2 DEF First, FirstOf
<1> QED BY <1>3, <1>4

\* Which rows there are, and their places.
LEMMA PlacesInList ==
    ASSUME NEW a
    PROVE  /\ IsFiniteSet(Listing(a)) /\ Cardinality(Listing(a)) \in Nat
           /\ First(a, 0) = {}
           /\ \A p \in Listing(a) : Position(a, p) \in Nat
                                    /\ Position(a, p) < Cardinality(Listing(a))
<1> DEFINE L == Listing(a)
           R == OrderOf(Lead(a))
<1>1. IsFiniteSet(L) /\ IsOrder(L, R)
  BY ListingsArePosts, LeadIsBoolean, LeadIsOrder
<1>2. \A n : First(a, n) = FirstOf(L, R, n) BY FirstIs
<1>3. ASSUME NEW p \in L
      PROVE  Position(a, p) = Place(L, R, p)
  <2>1. \A q \in L : <<q, p>> \in R <=> Precedes(a, q, p)
    BY ListingsArePosts DEF OrderOf, Lead, Precedes
  <2>2. {q \in L : <<q, p>> \in R} = {q \in L : Precedes(a, q, p)} BY <2>1
  <2> QED BY <2>2 DEF Place, Position
<1>4. \A p \in L : Place(L, R, p) \in Nat /\ Place(L, R, p) < Cardinality(L)
  BY <1>1, PlaceIsNat
<1>5. First(a, 0) = {} BY <1>3, <1>4 DEF First
<1>6. Cardinality(L) \in Nat BY <1>1, FS_CardinalityType
<1> QED BY <1>1, <1>3, <1>4, <1>5, <1>6

\* While the tables stand still, so do the lists.
LEMMA StillLists ==
    ASSUME UNCHANGED vars, NEW a
    PROVE  Listing(a)' = Listing(a) /\ \A n : First(a, n)' = First(a, n)
<1>1. Listing(a)' = Listing(a)
  BY DEF Listing, PublicPosts, PostsBy, Matches, InScope, vars
<1>2. \A p : Leads(a, p)' = Leads(a, p) BY DEF Leads, IsPinned, vars
<1>3. Lead(a)' = Lead(a) BY <1>2 DEF Lead
<1> QED BY <1>1, <1>3, FirstIs

\* Who is at work has asked for something.
LEMMA AtWork ==
    ASSUME FeedInv, NEW d \in Readers, at[d] # "idle"
    PROVE  ask[d] \in Asks /\ ask[d] # None
<1>1. ask[d] \in Asks BY DEF FeedInv, ReaderInv, KnowsItsAsk
<1> QED BY <1>1, AsksAreAsk, NoneIsNoAsk

\* Sets of posts can be counted, and a part is not more than the whole.
LEMMA PartOfPosts ==
    ASSUME NEW B \in SUBSET PostIds, NEW A \in SUBSET B
    PROVE  /\ Cardinality(A) \in Nat /\ Cardinality(B) \in Nat
           /\ Cardinality(A) <= Cardinality(B)
<1>1. IsFiniteSet(B) BY FeedConstantsOK, FS_Subset
<1>2. IsFiniteSet(A) /\ Cardinality(A) <= Cardinality(B) BY <1>1, FS_Subset
<1> QED BY <1>1, <1>2, FS_CardinalityType

LEMMA FirstArePosts ==
    ASSUME NEW a, NEW n
    PROVE  First(a, n) \in SUBSET PostIds /\ First(a, n)' \in SUBSET PostIds
BY ListingsArePosts DEF First

\* A step of a writer: the list changes, and whatever moves is counted.
LEMMA WriterKeepsScroll ==
    ASSUME FeedInv, NEW d \in Readers, ScrollInv(d), UNCHANGED reader, Watch
    PROVE  ScrollInv(d)'
<1>1. /\ ask' = ask /\ at' = at /\ page' = page /\ rows' = rows /\ full' = full
      /\ search' = search /\ shown' = shown
  BY DEF reader
<1>2. CASE ask[d] = None
  BY <1>1, <1>2 DEF ScrollInv, Watch
<1>3. CASE ask[d] # None /\ ask[d].kind \notin Scrolled
  BY <1>1, <1>3 DEF ScrollInv
<1>4. CASE ask[d] # None /\ ask[d].kind \in Scrolled
  <2>1. PICK a : a = ask[d] OBVIOUS
  <2> DEFINE L == Listing(a)
             M == Listing(a)'
             R == OrderOf(Lead(a))
             Q == OrderOf(Lead(a)')
             S == {p \in L : p \in M /\ Leads(a, p)' = Leads(a, p)}
             K == kept[d]
             moved == Cardinality(L \ S)
  <2>2. a # None /\ a.kind \in Scrolled /\ ask'[d] = a BY <1>1, <1>4, <2>1
  <2>3. kept'[d] = K \cap M
    <3>1. (Listing(ask[d]))' = M BY <2>2
    <3>2. kept'[d] = kept[d] \cap Listing(ask[d])' BY <1>4 DEF Watch
    <3> QED BY <3>1, <3>2
  <2>4. gaps'[d] = gaps[d] + moved
    <3>1. Moved(d) = L \ S
      BY <1>1, <2>1, <2>2 DEF Moved
    <3> QED BY <1>4, <3>1 DEF Watch
  <2>5. K \in SUBSET L BY <1>4, <2>1 DEF ScrollInv
  <2>6. gaps[d] \in Nat /\ page[d] \in Nat \ {0} /\ a.size \in Nat
    <3>1. at[d] # "idle" BY <1>4 DEF FeedInv, ReaderInv, KnowsItsAsk
    <3> QED BY <2>1, <3>1, AtWork, AskedSize DEF FeedInv, FeedTypeOK
  <2>7. Start(d) \in Nat /\ Start(d) + a.size \in Nat
    BY <2>1, <2>6 DEF Start
  <2>8. Start(d)' = Start(d) BY <1>1 DEF Start
  <2>9. /\ IsFiniteSet(L) /\ IsOrder(L, R) /\ IsFiniteSet(M) /\ IsOrder(M, Q)
    BY ListingsArePosts, LeadIsBoolean, LeadIsOrder
  <2>10. S \in SUBSET (L \cap M) OBVIOUS
  <2>11. \A p, q \in S : <<p, q>> \in R => <<p, q>> \in Q
    <3>1. \A p \in S : p \in PostIds /\ Lead(a)[p] = Leads(a, p) /\ Lead(a)'[p] = Leads(a, p)
      BY ListingsArePosts DEF Lead
    <3> HIDE DEF S
    <3> QED BY <3>1 DEF OrderOf
  <2>12. moved \in Nat
    <3>1. L \in SUBSET PostIds /\ L \ S \in SUBSET L BY ListingsArePosts
    <3> HIDE DEF L, S
    <3> QED BY <3>1, PartOfPosts
  <2>13. ASSUME NEW n \in Nat, NEW on
         PROVE  Cardinality((First(a, n)' \cap kept'[d]) \ on)
                    <= Cardinality((First(a, n) \cap K) \ on) + moved
    <3>1. /\ First(a, n) = FirstOf(L, R, n)
          /\ First(a, n)' = FirstOf(M, Q, n)
      BY FirstIs
    <3> HIDE DEF L, M, R, Q, S, K
    <3>2. Cardinality((FirstOf(M, Q, n) \cap (K \cap M)) \ on)
              <= Cardinality((FirstOf(L, R, n) \cap K) \ on) + Cardinality(L \ S)
      BY <2>5, <2>9, <2>10, <2>11, FewAreMissed
    <3> QED BY <2>3, <3>1, <3>2
  <2>14. ASSUME NEW n \in Nat, NEW on, Missed(d, n, on) <= gaps[d]
         PROVE  Cardinality((First(a, n)' \cap kept'[d]) \ on) <= gaps'[d]
    <3>1. Missed(d, n, on) = Cardinality((First(a, n) \cap K) \ on)
      BY <2>1 DEF Missed
    <3>2. Cardinality((First(a, n) \cap K) \ on) \in Nat
          /\ Cardinality((First(a, n)' \cap kept'[d]) \ on) \in Nat
      <4>1. (First(a, n) \cap K) \ on \in SUBSET PostIds
            /\ (First(a, n)' \cap kept'[d]) \ on \in SUBSET PostIds
        BY FirstArePosts
      <4> QED BY <4>1, PartOfPosts
    <3>3. Cardinality((First(a, n)' \cap kept'[d]) \ on)
              <= Cardinality((First(a, n) \cap K) \ on) + moved
      BY <2>13
    <3>4. PICK i, j : /\ i = Cardinality((First(a, n) \cap K) \ on)
                      /\ j = Cardinality((First(a, n)' \cap kept'[d]) \ on)
      OBVIOUS
    <3> HIDE DEF moved, K
    <3>5. i \in Nat /\ j \in Nat /\ i <= gaps[d] /\ j <= i + moved
      BY <2>14, <3>1, <3>2, <3>3, <3>4
    <3>6. j <= gaps'[d] BY <2>4, <2>6, <2>12, <3>5
    <3> QED BY <3>4, <3>6
  <2>15. ASSUME NEW on, Cardinality(K \ on) <= gaps[d]
         PROVE  Cardinality(kept'[d] \ on) <= gaps'[d]
    <3>1. K \ on \in SUBSET PostIds /\ kept'[d] \ on \in SUBSET (K \ on)
      BY <2>3, <2>5, ListingsArePosts
    <3>2. Cardinality(kept'[d] \ on) \in Nat /\ Cardinality(K \ on) \in Nat
          /\ Cardinality(kept'[d] \ on) <= Cardinality(K \ on)
      BY <3>1, PartOfPosts
    <3> HIDE DEF moved, K
    <3> QED BY <2>4, <2>6, <2>12, <2>15, <3>2
  <2>16. kept'[d] \subseteq M BY <2>3
  <2>17. ASSUME NEW n, NEW on
         PROVE  Missed(d, n, on)' = Cardinality((First(a, n)' \cap kept'[d]) \ on)
    BY <2>2 DEF Missed
  <2> HIDE DEF moved, K, L, M, R, Q, S
  <2>18. at[d] # "end" => Missed(d, Start(d), shown[d])' <= gaps'[d]
    <3> SUFFICES ASSUME at[d] # "end"
                 PROVE  Missed(d, Start(d), shown[d])' <= gaps'[d]
      OBVIOUS
    <3>1. PICK n, on : n = Start(d) /\ on = shown[d] OBVIOUS
    <3>2. Missed(d, n, on) <= gaps[d] BY <1>4, <3>1 DEF ScrollInv
    <3>3. Cardinality((First(a, n)' \cap kept'[d]) \ on) <= gaps'[d]
      BY <2>7, <2>14, <3>1, <3>2
    <3>4. Missed(d, Start(d), shown[d])' = Missed(d, n, on)'
      BY <1>1, <2>8, <3>1 DEF Missed
    <3> QED BY <2>17, <3>3, <3>4
  <2>19. HasRead(d) =>
           Missed(d, Start(d) + ask[d].size, shown[d] \cup rows[d])' <= gaps'[d]
    <3> SUFFICES ASSUME HasRead(d)
                 PROVE  Missed(d, Start(d) + ask[d].size, shown[d] \cup rows[d])' <= gaps'[d]
      OBVIOUS
    <3>1. PICK n, on : n = Start(d) + a.size /\ on = shown[d] \cup rows[d] OBVIOUS
    <3>2. Missed(d, n, on) <= gaps[d] BY <1>4, <2>1, <3>1 DEF ScrollInv
    <3>3. Cardinality((First(a, n)' \cap kept'[d]) \ on) <= gaps'[d]
      BY <2>7, <2>14, <3>1, <3>2
    <3>4. Missed(d, Start(d) + ask[d].size, shown[d] \cup rows[d])' = Missed(d, n, on)'
      BY <1>1, <2>2, <2>8, <3>1 DEF Missed
    <3> QED BY <2>17, <3>3, <3>4
  <2>20. HasRead(d) /\ ~full[d] =>
           Cardinality(kept'[d] \ (shown[d] \cup rows[d])) <= gaps'[d]
    BY <1>4, <2>15 DEF ScrollInv, K
  <2>21. at[d] = "end" /\ ~full[d] => Cardinality(kept'[d] \ shown[d]) <= gaps'[d]
    BY <1>4, <2>15 DEF ScrollInv, K
  <2>22. HasRead(d)' <=> HasRead(d) BY <1>1 DEF HasRead
  <2>23. (Listing(ask[d]))' = M BY <2>2 DEF M
  <2> QED BY <1>1, <2>2, <2>16, <2>18, <2>19, <2>20, <2>21, <2>22, <2>23 DEF ScrollInv
<1> QED BY <1>2, <1>3, <1>4
-----------------------------------------------------------------------------
(* What readers do to the rows they have missed *)

LEMMA StillMissed ==
    ASSUME UNCHANGED vars, NEW d \in Readers, ask'[d] = ask[d], kept'[d] = kept[d],
           NEW n, NEW on
    PROVE  Missed(d, n, on)' = Missed(d, n, on)
<1>1. PICK a : a = ask[d] OBVIOUS
<1>2. First(a, n)' = First(a, n) BY StillLists
<1>3. Missed(d, n, on)' = Cardinality((First(a, n)' \cap kept'[d]) \ on)
  BY <1>1 DEF Missed
<1> QED BY <1>1, <1>2, <1>3 DEF Missed

\* What has to be shown of a step of d, in terms of the state before it.
LEMMA ScrollStep ==
    ASSUME UNCHANGED vars, NEW d \in Readers, ask'[d] = ask[d], kept'[d] = kept[d],
           gaps'[d] = gaps[d], ask[d] # None, ScrollInv(d),
           NEW start, start = Start(d)', NEW on, on = shown'[d],
           NEW both, both = shown'[d] \cup rows'[d],
           ask[d].kind \in Scrolled =>
               /\ at'[d] # "end" => Missed(d, start, on) <= gaps[d]
               /\ HasRead(d)' =>
                      /\ Missed(d, start + ask[d].size, both) <= gaps[d]
                      /\ ~full'[d] => Cardinality(kept[d] \ both) <= gaps[d]
               /\ at'[d] = "end" /\ ~full'[d] => Cardinality(kept[d] \ on) <= gaps[d]
    PROVE  ScrollInv(d)'
<1> SUFFICES ASSUME ask[d].kind \in Scrolled
             PROVE  ScrollInv(d)'
  BY DEF ScrollInv
<1>1. PICK a, n : a = ask[d] /\ n = start + ask[d].size OBVIOUS
<1>2. kept[d] \subseteq Listing(a) BY <1>1 DEF ScrollInv
<1>3. Listing(a)' = Listing(a) BY StillLists
<1>4. (Listing(ask[d]))' = Listing(a)' BY <1>1
<1>5. (Missed(d, Start(d), shown[d]))' = Missed(d, start, on)
  <2>1. (Missed(d, Start(d), shown[d]))' = Missed(d, start, on)' BY DEF Missed
  <2> QED BY <2>1, StillMissed
<1>6. (Missed(d, Start(d) + ask[d].size, shown[d] \cup rows[d]))' = Missed(d, n, both)
  <2>1. (Missed(d, Start(d) + ask[d].size, shown[d] \cup rows[d]))' = Missed(d, n, both)'
    BY <1>1 DEF Missed
  <2> QED BY <2>1, StillMissed
<1> QED BY <1>1, <1>2, <1>3, <1>4, <1>5, <1>6 DEF ScrollInv

\* A reader that does nothing.
LEMMA ScrollRests ==
    ASSUME UNCHANGED vars, NEW d \in Readers, ScrollInv(d), ask'[d] = ask[d],
           at'[d] = at[d], page'[d] = page[d], rows'[d] = rows[d], full'[d] = full[d],
           search'[d] = search[d], shown'[d] = shown[d], kept'[d] = kept[d],
           gaps'[d] = gaps[d]
    PROVE  ScrollInv(d)'
<1>1. CASE ask[d] = None
  BY <1>1 DEF ScrollInv
<1>2. CASE ask[d] # None
  <2>1. PICK start, on, both : /\ start = Start(d) /\ on = shown[d]
                               /\ both = shown[d] \cup rows[d]
    OBVIOUS
  <2>2. Start(d)' = start BY <2>1 DEF Start
  <2>3. HasRead(d)' <=> HasRead(d) BY DEF HasRead
  <2> QED BY <1>2, <2>1, <2>2, <2>3, ScrollStep DEF ScrollInv
<1> QED BY <1>1, <1>2

LEMMA StartIsNumber ==
    ASSUME FeedInv, NEW d \in Readers, at[d] # "idle"
    PROVE  /\ page[d] \in Nat \ {0} /\ ask[d].size \in Nat \ {0}
           /\ Start(d) \in Nat /\ Start(d) + ask[d].size = page[d] * ask[d].size
<1>1. page[d] \in Nat \ {0} /\ ask[d].size \in Nat \ {0}
  BY AtWork, AskedSize DEF FeedInv, FeedTypeOK, Limits
<1>2. PICK p, s : p = page[d] /\ s = ask[d].size OBVIOUS
<1>3. (p - 1) * s \in Nat /\ (p - 1) * s + s = p * s BY <1>1, <1>2
<1> QED BY <1>1, <1>2, <1>3 DEF Start

\* The page asked for is the page that is cut out of the list.
LEMMA OffsetIsStart ==
    ASSUME FeedInv, NEW d \in Readers, at[d] \in Reading
    PROVE  Offset(LimitsOf(ask[d]), QueryOf(d)) = Start(d)
<1> DEFINE a == ask[d]
           L == LimitsOf(a)
<1>1. a \in Asks /\ page[d] \in Nat \ {0} /\ IsBindable(L, page[d], a.size)
  BY DEF FeedInv, FeedTypeOK, ReaderInv, KnowsItsAsk, MayAsk, Reading
<1>2. L \in Limits /\ a.size \in 1 .. L.largest BY <1>1, AskedSize
<1>3. page[d] \in Raw /\ a.size \in Raw
  BY <1>1, <1>2, NumbersOK DEF IsBindable, IsPositiveInt, Raw
<1>4. BoundQuery(L, page[d], a.size) = QueryOf(d)
  BY <1>1, BoundIsAsked DEF QueryOf
<1> HIDE DEF L
<1>5. Normalize(L, QueryOf(d)) = QueryOf(d)
  BY <1>1, <1>2, <1>3, <1>4, AcceptedIsUnchanged
<1> QED BY <1>5 DEF Offset, QueryOf, Query, Start, L

\* A page holds what stands in its places; when no more is found, nothing
\* stands behind them.
LEMMA PageIsPlaces ==
    ASSUME FeedInv, NEW d \in Readers, at[d] \in Reading
    PROVE  /\ \A p \in First(ask[d], Start(d) + ask[d].size) :
                  p \in First(ask[d], Start(d)) \/ p \in PageOf(d, ask[d])
           /\ ~FindsMore(d, ask[d]) =>
                  Listing(ask[d]) = First(ask[d], Start(d) + ask[d].size)
<1> DEFINE a == ask[d]
           start == Start(d)
           all == Cardinality(Listing(a))
<1>1. start \in Nat /\ a.size \in Nat /\ Offset(LimitsOf(a), QueryOf(d)) = start
  BY StartIsNumber, OffsetIsStart DEF Reading
<1>2. /\ all \in Nat
      /\ \A p \in Listing(a) : Position(a, p) \in Nat /\ Position(a, p) < all
  BY PlacesInList
<1>3. ASSUME NEW p \in First(a, start + a.size), p \notin First(a, start)
      PROVE  p \in PageOf(d, a)
  <2>1. p \in Listing(a) /\ Position(a, p) < start + a.size /\ ~(Position(a, p) < start)
    BY <1>3 DEF First
  <2>2. Position(a, p) \in start .. start + a.size - 1
    BY <1>1, <1>2, <2>1
  <2> HIDE DEF a, start
  <2> QED BY <1>1, <2>1, <2>2 DEF PageOf
<1>4. ASSUME ~FindsMore(d, a)
      PROVE  Listing(a) = First(a, start + a.size)
  <2>1. QueryOf(d).size = a.size BY DEF QueryOf, Query
  <2> HIDE DEF a, start, all
  <2>2. ~(all - start > a.size)
    <3>1. ~(IF a.kind = "search" THEN HasExtraRow(all - start, QueryOf(d))
                                 ELSE IsFull(all - start, QueryOf(d)))
      BY <1>1, <1>4 DEF FindsMore, all
    <3> QED BY <1>1, <1>2, <2>1, <3>1 DEF HasExtraRow, IsFull
  <2>3. \A p \in Listing(a) : Position(a, p) < start + a.size
    BY <1>1, <1>2, <2>2
  <2> QED BY <2>3 DEF First
<1> QED BY <1>3, <1>4

LEMMA ReadsPage ==
    ASSUME FeedInv, NEW d \in Readers, at[d] \in Reading, ScrollInv(d),
           ask[d].kind \in Scrolled
    PROVE  /\ Missed(d, Start(d) + ask[d].size, shown[d] \cup PageOf(d, ask[d])) <= gaps[d]
           /\ ~FindsMore(d, ask[d]) =>
                  Cardinality(kept[d] \ (shown[d] \cup PageOf(d, ask[d]))) <= gaps[d]
<1> DEFINE a == ask[d]
           K == kept[d]
           before == (First(a, Start(d)) \cap K) \ shown[d]
           after == (First(a, Start(d) + a.size) \cap K) \ (shown[d] \cup PageOf(d, a))
           left == K \ (shown[d] \cup PageOf(d, a))
<1>1. a # None /\ K \subseteq Listing(a) /\ Cardinality(before) <= gaps[d]
      /\ gaps[d] \in Nat
  BY AtWork DEF ScrollInv, Missed, Reading, FeedInv, FeedTypeOK
<1>2. before \in SUBSET PostIds BY FirstArePosts
<1>3. after \in SUBSET before BY PageIsPlaces
<1>4. ~FindsMore(d, a) => left \in SUBSET before
  BY <1>1, PageIsPlaces
<1> HIDE DEF before, after, left
<1>5. Cardinality(after) <= gaps[d]
  <2>1. /\ Cardinality(after) \in Nat /\ Cardinality(before) \in Nat
        /\ Cardinality(after) <= Cardinality(before)
    BY <1>2, <1>3, PartOfPosts
  <2> QED BY <1>1, <2>1
<1>6. ~FindsMore(d, a) => Cardinality(left) <= gaps[d]
  <2> SUFFICES ASSUME ~FindsMore(d, a)
               PROVE  Cardinality(left) <= gaps[d]
    OBVIOUS
  <2>1. /\ Cardinality(left) \in Nat /\ Cardinality(before) \in Nat
        /\ Cardinality(left) <= Cardinality(before)
    BY <1>2, <1>4, PartOfPosts
  <2> QED BY <1>1, <2>1
<1> QED BY <1>5, <1>6 DEF Missed, after, left

\* What is shown of every step of a reader that has opened a page.
LEMMA OpenScrolls ==
    ASSUME FeedInv, NEW d \in Readers, Open(d), UNCHANGED vars, ScrollInv(d)
    PROVE  ScrollInv(d)'
<1>1. PICK a \in Asks \cap Opened[d] :
          /\ ask' = [ask EXCEPT ![d] = a]
          /\ Arrives(d, a)
          /\ kept' = [kept EXCEPT ![d] = IF a.kind \in Scrolled THEN Listing(a) ELSE {}]
  BY DEF Open
<1>2. at[d] = "idle" /\ UNCHANGED <<page, rows, full, shown, gaps>> BY DEF Open
<1>3. /\ at' = [at EXCEPT ![d] = FirstStatement(a)]
      /\ search' = [search EXCEPT ![d] = NoSearch]
  BY <1>1 DEF Arrives
<1>4. ask'[d] = a /\ at'[d] = FirstStatement(a) /\ search'[d] = NoSearch
      /\ kept'[d] = IF a.kind \in Scrolled THEN Listing(a) ELSE {}
  BY <1>1, <1>3 DEF FeedInv, FeedTypeOK
<1>5. ask[d] = None /\ page[d] = 1 /\ shown[d] = {} /\ gaps[d] \in Nat
  BY <1>2 DEF FeedInv, FeedTypeOK, ReaderInv, KnowsItsAsk, ScrollInv
<1>6. a # None /\ a.size \in Nat
  BY AsksAreAsk, NoneIsNoAsk, AskedSize DEF Limits
<1>7. FirstStatement(a) \in {"check", "search", "query"} /\ NoSearch.posts # "done"
  BY DEF FirstStatement, NoSearch
<1>8. ~HasRead(d)' BY <1>4, <1>7 DEF HasRead
<1>9. Start(d)' = 0 BY <1>2, <1>4, <1>5, <1>6 DEF Start
<1>10. (Listing(ask[d]))' = Listing(a)
  <2>1. (Listing(ask[d]))' = Listing(a)' BY <1>4
  <2> QED BY <2>1, StillLists
<1>11. (Missed(d, Start(d), shown[d]))' = 0
  <2>1. (Missed(d, Start(d), shown[d]))'
            = Cardinality((First(a, 0)' \cap kept'[d]) \ shown'[d])
    BY <1>4, <1>9 DEF Missed
  <2>2. First(a, 0)' = {} BY StillLists, PlacesInList
  <2>3. Cardinality({}) = 0 BY FS_EmptySet
  <2> QED BY <2>1, <2>2, <2>3
<1> QED BY <1>2, <1>4, <1>5, <1>6, <1>7, <1>8, <1>10, <1>11 DEF ScrollInv

\* A step that leaves the page and the screen as they are, reads nothing, and
\* does not end the list.
LEMMA ScrollWaits ==
    ASSUME FeedInv, NEW d \in Readers, UNCHANGED vars, ScrollInv(d),
           at[d] \notin {"idle", "end"}, at'[d] # "end", ~HasRead(d)',
           UNCHANGED <<ask, page, shown, kept, gaps>>
    PROVE  ScrollInv(d)'
<1>1. ask[d] # None BY AtWork
<1>2. PICK start, on, both : /\ start = Start(d) /\ on = shown[d]
                             /\ both = shown[d] \cup rows'[d]
  OBVIOUS
<1>3. Start(d)' = start BY <1>2 DEF Start
<1> QED BY <1>1, <1>2, <1>3, ScrollStep DEF ScrollInv

LEMMA LoadMoreScrolls ==
    ASSUME FeedInv, NEW d \in Readers, LoadMore(d), UNCHANGED vars, ScrollInv(d)
    PROVE  ScrollInv(d)'
<1>1. /\ at[d] \in {"between", "error", "unavailable"}
      /\ UNCHANGED <<ask, page, rows, full, shown, kept, gaps>>
  BY DEF LoadMore
<1>2. at'[d] = FirstStatement(ask[d]) /\ search'[d] = NoSearch
  BY DEF LoadMore, Arrives, FeedInv, FeedTypeOK
<1>3. FirstStatement(ask[d]) \in {"check", "search", "query"} /\ NoSearch.posts # "done"
  BY DEF FirstStatement, NoSearch
<1>4. ~HasRead(d)' BY <1>2, <1>3 DEF HasRead
<1> QED BY <1>1, <1>2, <1>3, <1>4, ScrollWaits

\* A page of a list has been read.
LEMMA PageScrolls ==
    ASSUME FeedInv, NEW d \in Readers, UNCHANGED vars, ScrollInv(d),
           at[d] \in Reading, at'[d] # "end",
           UNCHANGED <<ask, page, shown, kept, gaps>>,
           rows'[d] = PageOf(d, ask[d]), full'[d] = FindsMore(d, ask[d])
    PROVE  ScrollInv(d)'
<1>1. ask[d] # None BY AtWork DEF Reading
<1>2. PICK start, on, both : /\ start = Start(d) /\ on = shown[d]
                             /\ both = shown[d] \cup PageOf(d, ask[d])
  OBVIOUS
<1>3. Start(d)' = start BY <1>2 DEF Start
<1>4. at[d] # "end" BY DEF Reading
<1>5. ask[d].kind \in Scrolled => Missed(d, start, on) <= gaps[d]
  BY <1>1, <1>2, <1>4 DEF ScrollInv
<1>6. ask[d].kind \in Scrolled =>
          /\ Missed(d, start + ask[d].size, both) <= gaps[d]
          /\ ~FindsMore(d, ask[d]) => Cardinality(kept[d] \ both) <= gaps[d]
  BY <1>2, ReadsPage
<1> QED BY <1>1, <1>2, <1>3, <1>5, <1>6, ScrollStep

\* A step that keeps the rows that have been read, if they have been.
LEMMA RowsStay ==
    ASSUME FeedInv, NEW d \in Readers, UNCHANGED vars, ScrollInv(d),
           at[d] \in Reading, at'[d] # "end",
           UNCHANGED <<ask, page, shown, kept, gaps>>,
           HasRead(d)' => HasRead(d) /\ rows'[d] = rows[d] /\ full'[d] = full[d]
    PROVE  ScrollInv(d)'
<1>1. ask[d] # None BY AtWork DEF Reading
<1>2. PICK start, on, both : /\ start = Start(d) /\ on = shown[d]
                             /\ both = shown[d] \cup rows'[d]
  OBVIOUS
<1>3. Start(d)' = start BY <1>2 DEF Start
<1>4. at[d] # "end" BY DEF Reading
<1> QED BY <1>1, <1>2, <1>3, <1>4, ScrollStep DEF ScrollInv

\* The pages that are no lists.
LEMMA OthersScroll ==
    ASSUME FeedInv, NEW d \in Readers, at[d] # "idle", ask[d].kind \notin Scrolled,
           ask'[d] = ask[d]
    PROVE  ScrollInv(d)'
BY AtWork DEF ScrollInv

LEMMA QueriesScroll ==
    ASSUME FeedInv, NEW d \in Readers, UNCHANGED vars, ScrollInv(d),
           \/ CheckPost(d) \/ QueryList(d) \/ QueryComments(d) \/ QueryHot(d)
           \/ QueryPost(d)
    PROVE  ScrollInv(d)'
<1>1. CASE QueryList(d)
  <2>1. at[d] = "query" /\ UNCHANGED <<ask, page, shown, kept, gaps>>
    BY <1>1 DEF QueryList, Continue, past
  <2>2. /\ at'[d] = "fill" /\ rows'[d] = PageOf(d, ask[d])
        /\ full'[d] = FindsMore(d, ask[d])
    BY <1>1 DEF QueryList, Continue, Reads, FeedInv, FeedTypeOK
  <2> QED BY <2>1, <2>2, PageScrolls DEF Reading
<1>2. CASE ~QueryList(d)
  <2>1. at[d] # "idle" /\ ask' = ask
    BY <1>2 DEF CheckPost, QueryComments, QueryHot, QueryPost, Continue
  <2>2. ask[d].kind \notin Scrolled
    BY <1>2 DEF CheckPost, QueryComments, QueryHot, QueryPost, FeedInv, ReaderInv,
                KnowsItsAsk, Scrolled
  <2> QED BY <2>1, <2>2, OthersScroll
<1> QED BY <1>1, <1>2

LEMMA HalfEndsScrolls ==
    ASSUME FeedInv, NEW d \in Readers, NEW half \in Halves, HalfEnds(d, half),
           UNCHANGED vars, ScrollInv(d)
    PROVE  ScrollInv(d)'
<1>1. at[d] = "search" /\ UNCHANGED <<ask, page, shown, kept, gaps>>
  BY DEF HalfEnds, Continue, past
<1>2. at'[d] = "search" BY DEF HalfEnds, Continue, FeedInv, FeedTypeOK
<1>3. search[d] \in Search /\ search[d][half] = "running"
  BY DEF HalfEnds, FeedInv, FeedTypeOK
<1>4. ASSUME NEW cause \in Causes, Fails(d, half, cause)
      PROVE  ScrollInv(d)'
  <2>1. rows' = rows /\ full' = full /\ search'[d] = Recorded(search[d], half, cause)
    BY <1>4 DEF Fails, FeedInv, FeedTypeOK
  <2>2. search'[d].posts = "done" => search[d].posts = "done"
    BY <1>3, <2>1 DEF Recorded, Search, Halves, Causes
  <2>3. HasRead(d)' => HasRead(d) BY <1>1, <1>2, <2>2 DEF HasRead
  <2> QED BY <1>1, <1>2, <2>1, <2>3, RowsStay DEF Reading
<1>5. ASSUME search' = [search EXCEPT ![d][half] = "done"], half # "posts",
             UNCHANGED <<rows, full>>
      PROVE  ScrollInv(d)'
  <2>1. search'[d].posts = search[d].posts
    BY <1>3, <1>5 DEF Search, Halves, FeedInv, FeedTypeOK
  <2>2. HasRead(d)' => HasRead(d) BY <1>1, <1>2, <2>1 DEF HasRead
  <2> QED BY <1>1, <1>2, <1>5, <2>2, RowsStay DEF Reading
<1>6. ASSUME Reads(d, PageOf(d, ask[d]), FindsMore(d, ask[d]))
      PROVE  ScrollInv(d)'
  <2>1. rows'[d] = PageOf(d, ask[d]) /\ full'[d] = FindsMore(d, ask[d])
    BY <1>6 DEF Reads, FeedInv, FeedTypeOK
  <2> QED BY <1>1, <1>2, <2>1, PageScrolls DEF Reading
<1> QED BY <1>4, <1>5, <1>6 DEF HalfEnds, Causes

LEMMA JoinSearchScrolls ==
    ASSUME FeedInv, NEW d \in Readers, JoinSearch(d), UNCHANGED vars, ScrollInv(d)
    PROVE  ScrollInv(d)'
<1>1. at[d] = "search" /\ BothEnded(d)
      /\ UNCHANGED <<ask, page, full, shown, kept, gaps>>
  BY DEF JoinSearch, past
<1>2. /\ at'[d] = IF search[d].first = None THEN "fill" ELSE FailureOf(d)
      /\ rows'[d] = IF search[d].first = None THEN rows[d] ELSE {}
  BY DEF JoinSearch, FeedInv, FeedTypeOK
<1>3. at'[d] \in {"fill", "error", "unavailable"} BY <1>2, FailuresRest
<1>4. ASSUME HasRead(d)'
      PROVE  HasRead(d) /\ rows'[d] = rows[d]
  <2>1. at'[d] = "fill" BY <1>3, <1>4 DEF HasRead
  <2>2. search[d].first = None BY <1>2, <2>1, FailuresRest
  <2>3. search[d].posts \notin Causes /\ search[d].posts # "running"
        /\ search[d] \in Search
    BY <1>1, <2>2 DEF FeedInv, FeedTypeOK, ReaderInv, KnowsItsError, BothEnded, Halves
  <2>4. search[d].posts = "done" BY <2>3 DEF Search
  <2> QED BY <1>1, <1>2, <2>2, <2>4 DEF HasRead
<1> QED BY <1>1, <1>3, <1>4, RowsStay DEF Reading

LEMMA DeadlineScrolls ==
    ASSUME FeedInv, NEW d \in Readers, Deadline(d), UNCHANGED vars, ScrollInv(d)
    PROVE  ScrollInv(d)'
<1>1. /\ at[d] \in {"search", "fill"}
      /\ UNCHANGED <<ask, at, page, rows, full, shown, kept, gaps>>
  BY DEF Deadline, past
<1>2. search'[d].posts = search[d].posts
  BY DEF Deadline, FeedInv, FeedTypeOK, Search
<1>3. HasRead(d)' => HasRead(d) BY <1>1, <1>2 DEF HasRead
<1> QED BY <1>1, <1>3, RowsStay DEF Reading

LEMMA AnswerScrolls ==
    ASSUME FeedInv, NEW d \in Readers, Answer(d), UNCHANGED vars, ScrollInv(d)
    PROVE  ScrollInv(d)'
<1>1. at[d] = "fill" /\ UNCHANGED <<ask, full, kept, gaps>> BY DEF Answer
<1>2. shown'[d] = shown[d] \cup rows[d] /\ rows'[d] = {}
  BY DEF Answer, FeedInv, FeedTypeOK
<1>3. ask[d] # None BY <1>1, AtWork
<1>4. HasRead(d) BY <1>1 DEF HasRead
<1>5. at'[d] \in {"between", "end"} BY DEF Answer, FeedInv, FeedTypeOK
<1>6. ~HasRead(d)' BY <1>5 DEF HasRead
<1>7. PICK start, on : start = Start(d)' /\ on = shown[d] \cup rows[d] OBVIOUS
<1>8. at'[d] # "end" => start = Start(d) + ask[d].size
  <2> SUFFICES ASSUME at'[d] # "end"
               PROVE  start = Start(d) + ask[d].size
    OBVIOUS
  <2>1. page'[d] = page[d] + 1 BY <1>5 DEF Answer, FeedInv, FeedTypeOK
  <2>2. page[d] \in Nat \ {0} /\ Start(d) + ask[d].size = page[d] * ask[d].size
    BY <1>1, StartIsNumber
  <2>3. page'[d] - 1 = page[d] BY <2>1, <2>2
  <2> QED BY <1>1, <1>7, <2>2, <2>3 DEF Start
<1> QED BY <1>1, <1>2, <1>3, <1>4, <1>6, <1>7, <1>8, ScrollStep DEF ScrollInv

LEMMA FailScrolls ==
    ASSUME FeedInv, NEW d \in Readers, Fail(d), UNCHANGED vars, ScrollInv(d)
    PROVE  ScrollInv(d)'
<1>1. /\ at[d] \in {"check", "query", "fill"}
      /\ UNCHANGED <<ask, page, full, shown, kept, gaps>>
  BY DEF Fail
<1>2. at'[d] \in {"unavailable", "error"}
  BY FailuresRest DEF Fail, FeedInv, FeedTypeOK
<1>3. ~HasRead(d)' BY <1>2 DEF HasRead
<1> QED BY <1>1, <1>2, <1>3, ScrollWaits

LEMMA ReadScrolls ==
    ASSUME FeedInv, NEW d \in Readers, Read(d), UNCHANGED vars,
           \A e \in Readers : ScrollInv(e)
    PROVE  \A e \in Readers : ScrollInv(e)'
<1>1. ScrollInv(d)'
  BY OpenScrolls, LoadMoreScrolls, QueriesScroll, HalfEndsScrolls, JoinSearchScrolls,
     DeadlineScrolls, AnswerScrolls, FailScrolls DEF Read
<1>2. ReaderKeeps(d)
  BY OpenKeeps, LoadMoreKeeps, CheckPostKeeps, QueriesKeep, HalfEndsKeeps,
     JoinSearchKeeps, DeadlineKeeps, AnswerKeeps, FailKeeps DEF Read
<1>3. gaps' = gaps /\ \A e \in Readers \ {d} : kept'[e] = kept[e]
  <2>1. CASE Open(d)
    BY <2>1 DEF Open, FeedInv, FeedTypeOK
  <2>2. CASE ~Open(d)
    BY <2>2 DEF Read, LoadMore, CheckPost, QueryList, QueryComments, QueryHot, QueryPost,
                HalfEnds, JoinSearch, Deadline, Answer, Fail, Continue, past
  <2> QED BY <2>1, <2>2
<1>4. ASSUME NEW e \in Readers, e # d
      PROVE  ScrollInv(e)'
  BY <1>2, <1>3, <1>4, ScrollRests DEF ReaderKeeps, OnlyReader
<1> QED BY <1>1, <1>4

LEMMA ScrollsInit == FeedInit => ScrollsInv
<1>1. FeedInit => \A d \in Readers : ScrollInv(d)
  BY DEF FeedInit, ScrollInv
<1> QED BY <1>1, FeedInvInit DEF ScrollsInv

LEMMA ScrollsStep == ScrollsInv /\ FeedInv' /\ [FeedNext]_feedVars => ScrollsInv'
<1> SUFFICES ASSUME ScrollsInv, FeedInv', [FeedNext]_feedVars
             PROVE  \A d \in Readers : ScrollInv(d)'
  BY DEF ScrollsInv
<1>1. FeedInv /\ \A d \in Readers : ScrollInv(d) BY DEF ScrollsInv
<1>2. CASE UNCHANGED reader /\ Watch
  BY <1>1, <1>2, WriterKeepsScroll
<1>3. ASSUME NEW d \in Readers, Read(d), UNCHANGED vars
      PROVE  \A e \in Readers : ScrollInv(e)'
  BY <1>1, <1>3, ReadScrolls
<1>4. CASE UNCHANGED feedVars
  <2>1. UNCHANGED vars BY <1>4 DEF feedVars
  <2>2. UNCHANGED <<ask, at, page, rows, full, search, shown, seen, kept, gaps>>
    BY <1>4 DEF feedVars, reader, past
  <2> QED BY <1>1, <2>1, <2>2, ScrollRests
<1> QED BY <1>2, <1>3, <1>4 DEF FeedNext

LEMMA ScrollsInvariance == FeedSpec => []ScrollsInv
BY ScrollsInit, ScrollsStep, FeedInvariance, PTL DEF FeedSpec

\* Who scrolls to the end of a list has seen whatever was in it all the while,
\* but for one row at most for each that left the list or changed its place: the
\* offsets of PostRepository lose nothing else, and mergeByID makes up for every
\* row that is read twice.
THEOREM GapsHaveCauses == FeedSpec => []EachGapHasItsCause
<1>1. ASSUME ScrollsInv, NEW d \in Readers,
             at[d] = "end" /\ ask[d].kind \in Scrolled /\ ~full[d]
      PROVE  Cardinality(kept[d] \ shown[d]) <= gaps[d]
  <2>1. ask[d] # None BY <1>1, AtWork DEF ScrollsInv
  <2> QED BY <1>1, <2>1 DEF ScrollsInv, ScrollInv
<1>2. ScrollsInv => EachGapHasItsCause BY <1>1 DEF EachGapHasItsCause
<1> QED BY <1>2, ScrollsInvariance, PTL
=============================================================================
