--------------------------- MODULE MCRegistration ---------------------------
(* A small instance of Registration: an established member with an unused   *)
(* invitation, a young one, two codes, and three requests, two of which may *)
(* register with the same code or the same username.                        *)
EXTENDS Registration, TLC

CONSTANTS old, newbie, n1, n2, c1, c2, r1, r2, r3

MCFirstInviter == (c1 :> old) @@ (c2 :> None)
MCWorkload == (r1 :> {"register"}) @@ (r2 :> {"register", "generate"})
           @@ (r3 :> {"generate"})
=============================================================================
