----------------------------- MODULE MCMembers -----------------------------
(* A small instance of Members: one administrator and one ordinary account, *)
(* each with a session from before, and three requests that between them can *)
(* be of every kind.                                                         *)
EXTENDS Members, TLC

CONSTANTS adm, usr, p, q, sAdm, sUsr, r1, r2, r3, a, b, c

MCNamePassword == (adm :> p) @@ (usr :> q)
MCFirstPassword == (adm :> p) @@ (usr :> p)
MCSessionOwner == (sAdm :> adm) @@ (sUsr :> usr)
MCWorkload == (r1 :> {"change", "unmute"})
           @@ (r2 :> {"login", "reset", "logout", "mute", "me", "browse"})
           @@ (r3 :> {"me"})

\* a and b differ in case only.
MCFolded == (a :> a) @@ (b :> a) @@ (c :> c)
Does(op, url) == [op |-> op, url |-> url]
MCDoing == (r1 :> {})
        @@ (r2 :> {Does("avatar", b), Does("avatar", c), Does("message", a),
                   Does("all", a), Does("profile", a)})
        @@ (r3 :> {Does("avatar", b)})
=============================================================================
