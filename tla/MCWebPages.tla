----------------------------- MODULE MCWebPages -----------------------------
(* A small instance of WebPages: a member and an administrator, two users or *)
(* posts to look at, lists of two pages, and two requests under way.       *)
EXTENDS WebPages, TLC

CONSTANTS k1, k2, ann, adm, a, b, s1, s2

MCWho == (k1 :> ann) @@ (k2 :> adm)
Symmetry == Permutations(Slots) \cup Permutations(Ids)
=============================================================================
