------------------------------- MODULE Pages -------------------------------
(***************************************************************************)
(* The arithmetic of lists: which pages a client may ask for, where a page *)
(* starts, whether another is offered, which part of a post a search       *)
(* result quotes, and in which order hot posts come.                       *)
(*                                                                         *)
(* Sources: pkg/pagination, internal/handler/httprequest/page.go and       *)
(* search.go, and the services of messages, searches and hot posts.  The   *)
(* ordinary lists and the search differ in their limits only, so every     *)
(* operator takes them as L.  These are functions of their arguments:      *)
(* Feed.tla uses them in a system, FeedProofs.tla proves what they promise. *)
(***************************************************************************)
EXTENDS Integers

CONSTANTS
    MaxInt,         \* the largest int of the server
    Absent,         \* a query parameter that was not given
    Malformed       \* one that is no number, or none that fits an int

\* default: the size of a page nobody chose (10); largest: the largest size
\* (50, for a search 20); offset: where the last page may start (5000, 1000).
Limits == {L \in [default : Nat \ {0}, largest : Nat \ {0}, offset : Nat] :
               /\ L.default <= L.largest
               /\ L.largest + L.offset < MaxInt}

Ints == -MaxInt - 1 .. MaxInt
Raw == Ints \cup {Absent, Malformed}

ASSUME NumbersOK ==
    /\ MaxInt \in Nat
    /\ Absent \notin Int
    /\ Malformed \notin Int

Query(no, size) == [no |-> no, size |-> size]
-----------------------------------------------------------------------------
(* Asking for a page *)

\* The division comes first: no product of two numbers of a client is formed.
IsOffsetAllowed(L, q) ==
    /\ q.no > 0
    /\ q.size > 0
    /\ q.no - 1 <= L.offset \div q.size

\* positiveQueryInt: a parameter that is given must be a positive number.
IsPositiveInt(raw) == raw = Absent \/ (raw \in Ints /\ raw > 0)
ValueOf(raw, default) == IF raw = Absent THEN default ELSE raw

BoundQuery(L, no, size) == Query(ValueOf(no, 1), ValueOf(size, L.default))

\* BindPageQuery and BindSearchQuery refuse what they do not accept.
IsBindable(L, no, size) ==
    /\ IsPositiveInt(no)
    /\ IsPositiveInt(size)
    /\ ValueOf(size, L.default) <= L.largest
    /\ IsOffsetAllowed(L, BoundQuery(L, no, size))

Least(a, b) == IF a < b THEN a ELSE b

\* The service corrects once more what other callers might pass.
Normalize(L, q) ==
    LET size == IF q.size < 1 THEN L.default ELSE Least(q.size, L.largest)
        no == IF q.no < 1 THEN 1 ELSE q.no
    IN  Query(Least(no, L.offset \div size + 1), size)

Mutant_FromOne(L, q) == Normalize(L, q).no * Normalize(L, q).size
Offset(L, q) == (Normalize(L, q).no - 1) * Normalize(L, q).size
-----------------------------------------------------------------------------
(* Answering with a page *)

\* Another page is offered when this one was full (lists of posts and of
\* comments) or had a row too many (searches, messages), and the next one
\* may be asked for.
Mutant_OneTooFar(L, q) == q.no - 1 <= L.offset \div q.size
NextIsAllowed(L, q) == q.no <= L.offset \div q.size

IsFull(length, q) == length >= q.size
HasExtraRow(length, q) == length > q.size

NextQuery(q) == Query(q.no + 1, q.size)
-----------------------------------------------------------------------------
(* Searching *)

\* normalizeSearchQuery, of the keyword with its white space collapsed.
IsKeyword(runes, bytes) == runes \in 2 .. 50 /\ bytes <= 200

MaxExcerptRunes == 120
ContextBeforeMatch == 30

\* searchExcerpt: the runes of a text of this length that are quoted, when the
\* keyword was found at rune `match` of it (0 also when it was not found).
ExcerptStart(match) ==
    IF match > ContextBeforeMatch THEN match - ContextBeforeMatch ELSE 0
ExcerptEnd(length, match) == Least(ExcerptStart(match) + MaxExcerptRunes, length)
-----------------------------------------------------------------------------
(* Hot posts *)

HotPost == [id : Nat, likes : Nat, comments : Nat, created : Nat]

\* A score in thousandths: no floating point from the counts to the order.
ScoreMillis(p) == p.comments * 600 + p.likes * 400

\* The comparison of GetTodayHotPosts.
IsHotter(p, q) ==
    \/ ScoreMillis(p) > ScoreMillis(q)
    \/ /\ ScoreMillis(p) = ScoreMillis(q)
       /\ \/ p.comments > q.comments
          \/ /\ p.comments = q.comments
             /\ \/ p.created > q.created
                \/ p.created = q.created /\ p.id > q.id
=============================================================================
