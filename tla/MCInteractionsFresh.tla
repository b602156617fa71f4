------------------------ MODULE MCInteractionsFresh ------------------------
(* One user who likes a post, and two readers of its like count. *)
EXTENDS InteractionsFresh, TLC

CONSTANTS u1, p1, r1, r2, r3

MCWorkload == (r1 :> {"like"}) @@ (r2 :> {"read"}) @@ (r3 :> {"read"})
=============================================================================
