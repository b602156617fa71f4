---------------------------- MODULE MCWebSession ----------------------------
(* A small instance of WebSession: two tabs, two accounts, two tokens, and  *)
(* two operations under way besides the first getMe of each tab.             *)
EXTENDS WebSession, TLC

CONSTANTS t1, t2, c1, c2, ann, bob, k1, k2

Symmetry == Permutations(Tabs) \cup Permutations(Calls)
            \cup Permutations(Users) \cup Permutations(Tokens)
=============================================================================
