------------------------------ MODULE MCPosts ------------------------------
(* A small instance of Posts: the author of a post edits it in two tabs. *)
EXTENDS Posts, TLC

CONSTANTS ann, adm, p1, p2, s, t, r1, r2

MCFirstRow == p1 :> NewPost(ann, s, s)
Edits == {input \in Inputs(ann) : input.kind = "edit"}
MCTwoEdits == (r1 :> Edits) @@ (r2 :> Edits)
=============================================================================
