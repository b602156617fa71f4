------------------------- MODULE InteractionsFresh -------------------------
(***************************************************************************)
(* Interactions with history variables that say which like counts a reader *)
(* may still be shown, if a like that has deleted the cached count keeps    *)
(* the old one from being shown again.                                     *)
(***************************************************************************)
EXTENDS Interactions

VARIABLES
    since,      \* since[p]: the counts that were true since the last DEL
    allowed     \* allowed[r][p]: since[p] when r arrived, and the counts since then

fvars == <<visibility, muted, likes, comments, cache, req, pc, since, allowed>>

Likes(p) == Count("likes", p)

\* A like or an unlike of p has just deleted the cached count.
Invalidated(p) ==
    \E r \in Requests : /\ pc[r] = "invalidate" /\ pc'[r] = "count"
                         /\ PostOf(r) = p

FreshInit ==
    /\ Init
    /\ since = [p \in Posts |-> {Likes(p)}]
    /\ allowed = [r \in Requests |-> since]

FreshNext ==
    /\ Next
    /\ since' = [p \in Posts |-> {Likes(p)'} \cup
                     (IF Invalidated(p) THEN {} ELSE since[p])]
    /\ allowed' = [r \in Requests |->
           IF pc[r] = "idle" THEN since'
           ELSE [p \in Posts |-> allowed[r][p] \cup {Likes(p)'}]]

FreshSpec == FreshInit /\ [][FreshNext]_fvars

\* What a reader is answered: hits of the cache, and what it has loaded.
Served(r, p) == IF pc[r] = "set" THEN req[r].counts[p]
                ELSE IF p \in req[r].ids THEN cache["likes"][p].count ELSE None

\* "Once the row is written the cached count is deleted, so that the old value
\* cannot be shown any more" (like_service.go, result): a read that arrives
\* after the DEL is answered with a count that was true since the DEL.
ReadIsFresh ==
    \A r \in Requests, p \in Posts :
        /\ pc[r] \in {"get", "set"} /\ pc'[r] = "ok"
        /\ req[r].metric = "likes"
        /\ Served(r, p) # None
        => Served(r, p) \in allowed[r][p]
ReadsAreFresh == [][ReadIsFresh]_fvars
=============================================================================
