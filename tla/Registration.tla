---------------------------- MODULE Registration ----------------------------
(***************************************************************************)
(* Invitation codes: how they are generated, and how a registration uses   *)
(* one up together with creating the account.                              *)
(*                                                                         *)
(* Sources: UserService.Register and GenerateInvitation, and               *)
(* RegisterUserWithInvitation, which is one SQL transaction.  Each of its  *)
(* statements is a step; the rows it has written are visible in the        *)
(* variables at once but locked until it commits, and rolling back puts    *)
(* the old values back.  InnoDB makes a statement that meets a locked row, *)
(* or an uncommitted entry of a unique index, wait for that transaction.   *)
(***************************************************************************)
EXTENDS Naturals

CONSTANTS
    Names,          \* usernames
    Members,        \* accounts from before, registered without a code
    Codes,          \* what newInvitationCode can draw
    FirstInviter,   \* FirstInviter[c]: who created code c before, or None
    FirstYoung,     \* accounts less than InvitationNewUserPeriod (7 days) old
    Requests,       \* HTTP requests; each is issued once
    Workload,       \* bound: Workload[r], the kinds of request r may be
    Watched,        \* bound: the accounts that are muted, publish or grow old
    Tries,          \* invitationCodeCreateTries
    None            \* NULL

\* A row of the invitations table.
Invitation == [creator : Names, usedAt : BOOLEAN, usedBy : Names \cup {None}]

ASSUME ConstantsOK ==
    /\ Members \subseteq Names
    /\ FirstInviter \in [Codes -> Members \cup {None}]
    /\ FirstYoung \subseteq Members
    /\ \A c \in Codes : FirstInviter[c] \notin FirstYoung
    /\ Tries \in Nat \ {0}
    /\ None \notin Names \cup Codes \cup Invitation

VARIABLES
    accounts,       \* the usernames in the users table
    inviteCode,     \* inviteCode[n]: the code account n was registered with
    muted,          \* accounts whose status is muted
    young,          \* accounts less than 7 days old
    published,      \* accounts that have ever published a post
    invitations,    \* the invitations table, by code
    req, pc,        \* each request: its local variables, its next step
    given           \* given[r]: the code request r handed to its client

users == <<accounts, inviteCode>>
members == <<muted, young, published>>
vars == <<accounts, inviteCode, muted, young, published, invitations,
          req, pc, given>>

Request == [kind : {"register", "generate"}, name : Names,
            code : Codes \cup {None}, before : Invitation \cup {None},
            tries : 0 .. Tries]

\* The steps of the transaction, in order, and those of GenerateInvitation.
InTransaction == {"create", "consume", "commit"}
Steps == {"claim"} \cup InTransaction \cup {"creator", "published", "insert"}
Answers == {"ok", "unavailable", "exists", "rejected", "error"}

TypeOK ==
    /\ accounts \subseteq Names
    /\ inviteCode \in [Names -> Codes \cup {None}]
    /\ muted \subseteq Names
    /\ young \subseteq Names
    /\ published \subseteq Names
    /\ invitations \in [Codes -> Invitation \cup {None}]
    /\ req \in [Requests -> Request \cup {None}]
    /\ pc \in [Requests -> Steps \cup Answers \cup {"idle"}]
    /\ given \in [Requests -> Codes \cup {None}]

Init ==
    /\ accounts = Members
    /\ inviteCode = [n \in Names |-> None]
    /\ muted = {}
    /\ young = FirstYoung
    /\ published = {}
    /\ invitations = [c \in Codes |->
           IF FirstInviter[c] = None THEN None
           ELSE [creator |-> FirstInviter[c], usedAt |-> FALSE, usedBy |-> None]]
    /\ req = [r \in Requests |-> None]
    /\ pc = [r \in Requests |-> "idle"]
    /\ given = [r \in Requests |-> None]
-----------------------------------------------------------------------------
Name(r) == req[r].name
Code(r) == req[r].code

Goto(r, step) ==
    /\ pc' = [pc EXCEPT ![r] = step]
    /\ UNCHANGED req

Reply(r, answer) ==
    /\ pc' = [pc EXCEPT ![r] = answer]
    /\ req' = [req EXCEPT ![r] = None]

\* The rows a transaction has written stay locked until it ends.
HoldsCode(r, c) == pc[r] \in InTransaction /\ Code(r) = c
HoldsName(r, n) == pc[r] \in {"consume", "commit"} /\ Name(r) = n
CodeLocked(c) == \E r \in Requests : HoldsCode(r, c)
NameLocked(n) == \E r \in Requests : HoldsName(r, n)
-----------------------------------------------------------------------------
(* Register: RegisterUserWithInvitation *)

BeginRegister(r) ==
    /\ pc[r] = "idle"
    /\ "register" \in Workload[r]
    /\ \E n \in Names, c \in Codes :
           req' = [req EXCEPT ![r] = [kind |-> "register", name |-> n, code |-> c,
                                      before |-> None, tries |-> 0]]
    /\ pc' = [pc EXCEPT ![r] = "claim"]
    /\ UNCHANGED <<users, members, invitations, given>>

\* The WHERE clause of the first UPDATE.
Mutant_Exists(c) == invitations[c] # None
Available(c) ==
    /\ invitations[c] # None
    /\ ~invitations[c].usedAt
    /\ invitations[c].usedBy = None

\* The conditional UPDATE of used_at checks the code and takes its row lock.
Claim(r) ==
    /\ pc[r] = "claim"
    /\ ~CodeLocked(Code(r))
    /\ IF Available(Code(r))
       THEN /\ pc' = [pc EXCEPT ![r] = "create"]
            /\ req' = [req EXCEPT ![r].before = invitations[Code(r)]]
            /\ invitations' = [invitations EXCEPT ![Code(r)].usedAt = TRUE]
       ELSE /\ Reply(r, "unavailable")
            /\ UNCHANGED invitations
    /\ UNCHANGED <<users, members, given>>

\* The transaction ends without effect: its writes are undone.
Mutant_RestoreNothing(r) == invitations
RestoredInvitations(r) == [invitations EXCEPT ![Code(r)] = req[r].before]
RestoredAccounts(r) == IF HoldsName(r, Name(r)) THEN accounts \ {Name(r)}
                                                ELSE accounts
Rollback(r, answer) ==
    /\ invitations' = RestoredInvitations(r)
    /\ accounts' = RestoredAccounts(r)
    /\ inviteCode' = [n \in Names |->
           IF n \in RestoredAccounts(r) THEN inviteCode[n] ELSE None]
    /\ Reply(r, answer)

Mutant_NoIndex(n) == FALSE
UsernameTaken(n) == n \in accounts

\* The unique indexes on username and invite_code; either conflict is
\* reported as an existing username.
DuplicateKey(n, c) ==
    \/ UsernameTaken(n)
    \/ \E m \in accounts : inviteCode[m] = c

CreateAccount(r) ==
    /\ pc[r] = "create"
    /\ ~NameLocked(Name(r))
    /\ IF DuplicateKey(Name(r), Code(r))
       THEN Rollback(r, "exists")
       ELSE /\ accounts' = accounts \cup {Name(r)}
            /\ inviteCode' = [inviteCode EXCEPT ![Name(r)] = Code(r)]
            /\ Goto(r, "consume")
            /\ UNCHANGED invitations
    /\ UNCHANGED <<members, given>>

Mutant_Code(r) == Code(r)
ConsumedBy(r) == Name(r)

\* The second UPDATE, of used_by.
Consume(r) ==
    /\ pc[r] = "consume"
    /\ IF invitations[Code(r)].usedBy = None
       THEN /\ invitations' = [invitations EXCEPT ![Code(r)].usedBy = ConsumedBy(r)]
            /\ Goto(r, "commit")
            /\ UNCHANGED users
       ELSE Rollback(r, "unavailable")
    /\ UNCHANGED <<members, given>>

\* COMMIT, whose acknowledgement may be lost.  A new account is young.
Commit(r) ==
    /\ pc[r] = "commit"
    /\ \E answer \in {"ok", "error"} : Reply(r, answer)
    /\ young' = young \cup {Name(r)}
    /\ UNCHANGED <<users, muted, published, invitations, given>>

\* A statement fails, a lock wait times out, the client goes away or the
\* server dies: whatever the transaction wrote is rolled back.
Fail(r) ==
    /\ pc[r] \in Steps
    /\ IF pc[r] \in InTransaction
       THEN Rollback(r, "error")
       ELSE Reply(r, "error") /\ UNCHANGED <<users, invitations>>
    /\ UNCHANGED <<members, given>>
-----------------------------------------------------------------------------
(* GenerateInvitation *)

BeginGenerate(r) ==
    /\ pc[r] = "idle"
    /\ "generate" \in Workload[r]
    /\ \E n \in accounts :
           /\ ~NameLocked(n)
           /\ req' = [req EXCEPT ![r] = [kind |-> "generate", name |-> n,
                          code |-> None, before |-> None, tries |-> 0]]
    /\ pc' = [pc EXCEPT ![r] = "creator"]
    /\ UNCHANGED <<users, members, invitations, given>>

Mutant_OldAccounts(n) == n \notin young
RequiresPublishedPost(n) == n \in young

ReadCreator(r) ==
    /\ pc[r] = "creator"
    /\ IF Name(r) \in muted THEN Reply(r, "rejected")
       ELSE Goto(r, IF RequiresPublishedPost(Name(r)) THEN "published"
                                                      ELSE "insert")
    /\ UNCHANGED <<users, members, invitations, given>>

CheckPublished(r) ==
    /\ pc[r] = "published"
    /\ IF Name(r) \in published THEN Goto(r, "insert") ELSE Reply(r, "rejected")
    /\ UNCHANGED <<users, members, invitations, given>>

Mutant_NoLimit(r) == FALSE
LastTry(r) == req[r].tries + 1 = Tries

\* The drawn code exists already: draw again, a bounded number of times.
Mutant_TakeIt(r, c) ==
    /\ given' = [given EXCEPT ![r] = c]
    /\ Reply(r, "ok")
Collide(r, c) ==
    /\ IF LastTry(r) THEN Reply(r, "error")
       ELSE /\ req' = [req EXCEPT ![r].tries = IF @ < Tries THEN @ + 1 ELSE @]
            /\ UNCHANGED pc
    /\ UNCHANGED given

\* INSERT of a randomly drawn code; its acknowledgement may be lost.
InsertInvitation(r) ==
    /\ pc[r] = "insert"
    /\ \E c \in Codes :
           /\ ~CodeLocked(c)
           /\ IF invitations[c] # None
              THEN Collide(r, c) /\ UNCHANGED invitations
              ELSE /\ invitations' = [invitations EXCEPT ![c] =
                          [creator |-> Name(r), usedAt |-> FALSE, usedBy |-> None]]
                   /\ \/ Reply(r, "ok") /\ given' = [given EXCEPT ![r] = c]
                      \/ Reply(r, "error") /\ UNCHANGED given
    /\ UNCHANGED <<users, members>>
-----------------------------------------------------------------------------
(* What other parts of the system do to the members *)

ToggleMute(n) ==
    /\ muted' = IF n \in muted THEN muted \ {n} ELSE muted \cup {n}
    /\ UNCHANGED <<young, published>>

PublishPost(n) ==
    /\ published' = published \cup {n}
    /\ UNCHANGED <<muted, young>>

TurnOld(n) ==
    /\ young' = young \ {n}
    /\ UNCHANGED <<muted, published>>

Elsewhere ==
    /\ \E n \in accounts \cap Watched :
           /\ ~NameLocked(n)
           /\ ToggleMute(n) \/ PublishPost(n) \/ TurnOld(n)
    /\ UNCHANGED <<users, invitations, req, pc, given>>
-----------------------------------------------------------------------------
Step(r) ==
    \/ Claim(r)
    \/ CreateAccount(r)
    \/ Consume(r)
    \/ Commit(r)
    \/ ReadCreator(r)
    \/ CheckPublished(r)
    \/ InsertInvitation(r)

Next ==
    \/ \E r \in Requests : BeginRegister(r) \/ BeginGenerate(r)
                           \/ Step(r) \/ Fail(r)
    \/ Elsewhere

Spec == Init /\ [][Next]_vars

\* Every SQL statement that is not waiting for a lock returns.
FairSpec == Spec /\ \A r \in Requests : WF_vars(Step(r))
-----------------------------------------------------------------------------
(* Properties *)

\* Outside a transaction a code is either unused, or used by exactly the one
\* account that was registered with it: a registration that fails at any
\* statement gives the code back, and concurrent registrations with one code
\* create at most one account.
InvitationMatchesAccount ==
    \A c \in Codes : ~CodeLocked(c) =>
        LET registered == {n \in accounts : inviteCode[n] = c} IN
        IF invitations[c] = None THEN registered = {}
        ELSE /\ invitations[c].usedAt <=> invitations[c].usedBy # None
             /\ registered = {invitations[c].usedBy} \ {None}

\* "Username already exists" is only ever said of a username that does: the
\* same error also stands for a duplicate invite_code, which must not happen.
ConflictIsReal ==
    \A r \in Requests : pc[r] = "create" /\ pc'[r] = "exists" =>
        Name(r) \in accounts'
ConflictsAreReal == [][ConflictIsReal]_vars

\* An account whose registration has committed never disappears and never
\* changes its code, whatever other transactions on it roll back.
AccountKept ==
    \A n \in accounts : ~NameLocked(n) =>
        n \in accounts' /\ inviteCode'[n] = inviteCode[n]
AccountsAreKept == [][AccountKept]_vars

\* No code is handed to two clients, however often two generators draw the same one.
CodesAreHandedOutOnce ==
    \A r, s \in Requests : r # s /\ given[r] # None => given[r] # given[s]

\* Every invitation has a creator who was entitled to it: a member of seven
\* days, or one who has published a post.  Neither can be lost again, so the
\* gap between the checks and the INSERT does not matter.
InvitersAreEntitled ==
    \A c \in Codes : invitations[c] # None =>
        \/ invitations[c].creator \notin young
        \/ invitations[c].creator \in published

\* Every request is answered: transactions do not wait for each other in a
\* cycle (code first, then username), and drawing a code gives up.
RequestsAreAnswered ==
    \A r \in Requests : pc[r] \in Steps ~> pc[r] \in Answers
=============================================================================
