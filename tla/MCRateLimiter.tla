---------------------------- MODULE MCRateLimiter ----------------------------
(* A small instance of RateLimiter: an address and a user who write, and room *)
(* for a bucket of one of them besides the one they share.                    *)
EXTENDS RateLimiter, TLC

CONSTANTS r1, r2, ip1, u1

\* Two writes in three seconds, one at once: the seconds of a Retry-After are
\* rounded, and a bucket is full again before IdleTTL has passed.
MCPolicy == [t \in Tier |-> [requests |-> 2, window |-> 3, burst |-> 1]]

Symmetry == Permutations(Request)
=============================================================================
