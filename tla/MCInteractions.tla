--------------------------- MODULE MCInteractions ---------------------------
(* A small instance of Interactions: two users, two posts, one comment, and *)
(* three requests: one that likes or comments, one that takes that back or  *)
(* deletes the post, and a reader.                                          *)
EXTENDS InteractionsHistory, TLC

CONSTANTS u1, u2, p1, p2, k1, r1, r2, r3

MCFirstLikes == {<<u1, p1>>}
MCWorkload == (r1 :> {"like", "comment"})
           @@ (r2 :> {"unlike", "uncomment", "deletePost"})
           @@ (r3 :> {"read"})
=============================================================================
