----------------------------- MODULE MCLifecycle -----------------------------
(* A small instance of Lifecycle: two requests, and two Redis processes that *)
(* both addresses may lead to, with every setting.                           *)
EXTENDS Lifecycle

CONSTANTS r1, r2, i, j
=============================================================================
