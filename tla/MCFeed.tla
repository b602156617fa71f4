------------------------------- MODULE MCFeed -------------------------------
(* A small instance of Feed: two posts of one author, a third that may be    *)
(* written, two requests that write, and a reader who opens any page.        *)
EXTENDS Feed, TLC

CONSTANTS ann, adm, s, t, r1, r2, d1

\* One is pinned for good, the other is not pinned.
MCFirstRow == (1 :> [NewPost(ann, s, s) EXCEPT !.pinnedUntil = Permanent])
           @@ (2 :> NewPost(ann, s, s))

\* What a user may ask for, of these kinds and about these posts.
Of(u, kinds, ids) ==
    {input \in Inputs(u) : input.kind \in kinds /\ input.post \in ids}

\* The author hides or shows a post, or the administrator writes a third or
\* unpins one, while the administrator pins or deletes, or the author edits or
\* deletes.
MCWorkload ==
    (r1 :> (Of(ann, {"visible", "delete"}, {1}) \cup Of(adm, {"unpin"}, {1}) \cup
            {i \in Of(adm, {"visible"}, {1}) : i.visible = "private"} \cup
            {WithTexts(Blank("create", adm, None), s, s)}))
 @@ (r2 :> (Of(adm, {"pin"}, {1}) \cup Of(adm, {"delete"}, {2}) \cup
            {i \in Of(adm, {"pin"}, {2}) : i.duration = 1} \cup
            {i \in Of(ann, {"pin"}, {1}) : i.duration = Permanent} \cup
            Of(ann, {"delete"}, {1}) \cup
            {WithTexts(Blank("edit", ann, 1), t, None)}))

\* A page of kind k, asked for by a guest or by its owner.
Guest(k, of, size) == [kind |-> k, of |-> of, viewer |-> None, size |-> size]
Owner(k, of, size) == [kind |-> k, of |-> of, viewer |-> ann, size |-> size]

MCOpened == d1 :>
    {Guest("feed", None, 1), Guest("search", None, 1), Guest("byuser", ann, 2),
     Owner("mine", ann, 1), Guest("hot", None, 1),
     Guest("post", 1, 1), Owner("post", 1, 1), Guest("comments", 1, 1)}

\* Three pages of one post, or two of two; a search has one page.
MCListLimits == [default |-> 1, largest |-> 2, offset |-> 2]
MCSearchLimits == [default |-> 1, largest |-> 2, offset |-> 0]
=============================================================================
