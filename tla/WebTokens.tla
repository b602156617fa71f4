----------------------------- MODULE WebTokens -----------------------------
(***************************************************************************)
(* The tokens of the web client.  Its session and its pages both compare   *)
(* them, and know nothing else of them than whether two are the same.      *)
(*                                                                         *)
(* Source: web/src/context/AuthContext.tsx.                                *)
(***************************************************************************)
CONSTANTS
    Tokens,         \* tokens the server issues; each is issued once
    None            \* null

MaybeToken == Tokens \cup {None}
=============================================================================
