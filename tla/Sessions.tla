------------------------------ MODULE Sessions ------------------------------
(***************************************************************************)
(* What the account subsystem promises, with every operation atomic.       *)
(*                                                                         *)
(* An account has one password.  A session is opened by proving it, and is *)
(* live until it is ended by a logout, by its expiry, or by the next       *)
(* replacement of the account's password, which ends all sessions of the   *)
(* account at once.  A session that has ended never comes back.            *)
(* Accounts.tla shows that the handlers, the JWT claims, the Redis         *)
(* revocation records and the session_version column implement this.       *)
(***************************************************************************)
EXTENDS Naturals

CONSTANTS
    Users,          \* accounts
    Admins,         \* the accounts named in the configuration
    Passwords,      \* passwords, compared as bcrypt compares them
    SessionIds,     \* identities of sessions
    NamePassword    \* NamePassword[u]: the username of u, used as a password

VARIABLES
    password,       \* password[u]: the password of u
    live,           \* the sessions that give access
    used            \* the identities ever given to a session

absVars == <<password, live, used>>

Session == [id : SessionIds, owner : Users, proven : Passwords]

AbsTypeOK ==
    /\ password \in [Users -> Passwords]
    /\ live \subseteq Session
    /\ used \subseteq SessionIds

OwnedBy(u) == {s \in live : s.owner = u}

AbsInit ==
    /\ password \in [Users -> Passwords]
    /\ live \subseteq Session
    /\ \A s \in live : s.proven = password[s.owner]
    /\ used \subseteq SessionIds
    /\ {s.id : s \in live} \subseteq used

\* Someone who proves the password of u gets a session of u.
Open(u, id) ==
    /\ id \notin used
    /\ live' = live \cup {[id |-> id, owner |-> u, proven |-> password[u]]}
    /\ used' = used \cup {id}
    /\ UNCHANGED password

\* A login that loses the race with a password replacement gets a session
\* that was never live.
OpenDead(id) ==
    /\ id \notin used
    /\ used' = used \cup {id}
    /\ UNCHANGED <<password, live>>

\* The owner, who proves the password in force, replaces it.
Replace(u, old, new) ==
    /\ password[u] = old
    /\ new # old
    /\ password' = [password EXCEPT ![u] = new]
    /\ live' = live \ OwnedBy(u)
    /\ UNCHANGED used

\* An administrator resets the password of an ordinary account.
Reset(u) ==
    /\ u \notin Admins
    /\ password' = [password EXCEPT ![u] = NamePassword[u]]
    /\ live' = live \ OwnedBy(u)
    /\ UNCHANGED used

\* Logout ends one session; the passing of time may end several.
End(dead) ==
    /\ live' = live \ dead
    /\ UNCHANGED <<password, used>>

AbsNext ==
    \/ \E u \in Users, id \in SessionIds : Open(u, id)
    \/ \E id \in SessionIds : OpenDead(id)
    \/ \E u \in Users, old, new \in Passwords : Replace(u, old, new)
    \/ \E u \in Users : Reset(u)
    \/ \E dead \in SUBSET live : End(dead)

AbsSpec == AbsInit /\ [][AbsNext]_absVars
=============================================================================
