------------------------ MODULE InteractionsHistory ------------------------
(***************************************************************************)
(* Interactions with two history variables, for the properties that relate *)
(* a state to what happened before it.                                     *)
(***************************************************************************)
EXTENDS Interactions

VARIABLES
    barred,         \* requests that should not write, each with the reason
    excused         \* cached counts whose being wrong has a known cause

hvars == <<visibility, muted, likes, comments, cache, req, pc, barred, excused>>

Wrong(m, p) == cache[m][p] # None /\ cache[m][p].count # Count(m, p)

Interacting == {"like", "unlike", "comment"}

Reasons == {"hidden", "muted"}

\* A like, an unlike or a comment under way on a post that is not public, or
\* any of these operations for somebody who has been muted.
Forbidden(r, why) ==
    /\ pc[r] \in Steps
    /\ \/ why = "hidden" /\ Kind(r) \in Interacting /\ visibility[PostOf(r)] # "public"
       \/ why = "muted" /\ User(r) \in muted

\* The reason began before the service read the author's row, and still holds.
Bars(r, why) == Forbidden(r, why)' /\ (pc'[r] = "actor" \/ <<r, why>> \in barred)

\* A write to the rows behind count (m, p) whose DEL is still to come.
AwaitsInvalidation(r, m, p) ==
    /\ pc[r] = "invalidate"
    /\ PostOf(r) = p
    /\ req[r].metric = m

\* The two causes: a DEL that failed or never happened, and a reader that
\* stores a count which the rows have outrun since it was loaded.
Excuse(m, p) ==
    \E r \in Requests :
        \/ AwaitsInvalidation(r, m, p) /\ ~AwaitsInvalidation(r, m, p)'
        \/ pc[r] = "write" /\ pc'[r] = "error"
        \/ pc[r] = "set" /\ req[r].metric = m /\ p \in req[r].ids /\ pc'[r] = "ok"

History ==
    /\ barred' = {bar \in Requests \X Reasons : Bars(bar[1], bar[2])}
    /\ excused' = {mp \in Metrics \X Posts :
                       /\ Wrong(mp[1], mp[2])'
                       /\ mp \in excused \/ Excuse(mp[1], mp[2])}

HInit == Init /\ barred = {} /\ excused = {}
HNext == Next /\ History
FairHSpec == HInit /\ [][HNext]_hvars /\ Fairness

\* A request about a post that was hidden or deleted all along never gets to
\* write a like or a comment, although the check is a statement of its own; nor
\* does one whose author was muted after RequireActiveUser had let it through,
\* but before the service looked: a mute spares what is past that look only.
BarredRequestsWriteNothing ==
    \A r \in Requests :
        /\ <<r, "hidden">> \in barred => pc[r] \in {"actor", "post"}
        /\ <<r, "muted">> \in barred => pc[r] = "actor"

\* A wrong count in the cache always has one of the known causes, or is about
\* to be deleted: every write invalidates the right key, and after its write.
\* Nothing but a count younger than its TTL is ever in the cache (TypeOK).
WrongCountsAreExplained == TypeOK /\
    \A m \in Metrics, p \in Posts : Wrong(m, p) =>
        \/ <<m, p>> \in excused
        \/ \E r \in Requests : AwaitsInvalidation(r, m, p)
=============================================================================
