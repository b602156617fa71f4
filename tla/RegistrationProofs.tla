------------------------- MODULE RegistrationProofs -------------------------
(***************************************************************************)
(* Theorems about Registration, for any names, codes and requests.         *)
(*                                                                         *)
(* The invariant says what a transaction in flight has done so far to the  *)
(* one code it holds (Holds), that no two hold the same code, and that a   *)
(* code nobody holds agrees with the accounts (Consistent).  A step        *)
(* touches one code at most, so everything about the others is carried     *)
(* over by one lemma, OneCode.                                             *)
(***************************************************************************)
EXTENDS Registration, TLAPS

\* What the locals of a request are at each step.
Shaped(r) ==
    /\ pc[r] \in Steps => req[r] \in Request
    /\ pc[r] \in {"claim"} \cup InTransaction => Code(r) \in Codes
    /\ pc[r] \in InTransaction => /\ req[r].before \in Invitation
                                  /\ ~req[r].before.usedAt
                                  /\ req[r].before.usedBy = None

TypeInv == TypeOK /\ \A r \in Requests : Shaped(r)

\* The accounts registered with a code.
Registered(c) == {n \in accounts : inviteCode[n] = c}

\* InvitationMatchesAccount for one code.
Consistent(c) ==
    IF invitations[c] = None THEN Registered(c) = {}
    ELSE /\ invitations[c].usedAt <=> invitations[c].usedBy # None
         /\ Registered(c) = {invitations[c].usedBy} \ {None}

\* What a transaction has done so far to the code it holds.
Claimed(r) == [req[r].before EXCEPT !.usedAt = TRUE]
Used(r) == [Claimed(r) EXCEPT !.usedBy = Name(r)]
Holds(r) ==
    /\ pc[r] = "create" => /\ invitations[Code(r)] = Claimed(r)
                           /\ Registered(Code(r)) = {}
    /\ pc[r] = "consume" => /\ invitations[Code(r)] = Claimed(r)
                            /\ Registered(Code(r)) = {Name(r)}
    /\ pc[r] = "commit" => /\ invitations[Code(r)] = Used(r)
                           /\ Registered(Code(r)) = {Name(r)}

Exclusive ==
    \A r, s \in Requests, c \in Codes : HoldsCode(r, c) /\ HoldsCode(s, c) => r = s

Rows ==
    /\ Exclusive
    /\ \A r \in Requests : Holds(r)
    /\ \A c \in Codes : ~CodeLocked(c) => Consistent(c)

\* Only request r moves.
OnlyMoves(r) ==
    \A s \in Requests \ {r} : pc'[s] = pc[s] /\ req'[s] = req[s]
-----------------------------------------------------------------------------
(* Carrying over what a step does not touch *)

\* Nobody else holds a code that r holds.
LEMMA OthersHoldOthers ==
    ASSUME Exclusive, NEW r \in Requests, NEW c \in Codes, HoldsCode(r, c)
    PROVE  \A s \in Requests \ {r} : ~HoldsCode(s, c)
BY DEF Exclusive

\* A transaction holds the code in its locals.
LEMMA HoldsOwn ==
    ASSUME TypeInv, NEW r \in Requests, pc[r] \in InTransaction
    PROVE  Code(r) \in Codes /\ HoldsCode(r, Code(r))
BY DEF TypeInv, Shaped, HoldsCode

\* A step of r that touches code d only.
LEMMA OneCode ==
    ASSUME TypeInv, Rows, NEW r \in Requests, NEW d \in Codes, OnlyMoves(r),
           \A s \in Requests \ {r} : ~HoldsCode(s, d),
           \A c \in Codes \ {d} : /\ invitations'[c] = invitations[c]
                                  /\ (Registered(c))' = Registered(c),
           \A c \in Codes : HoldsCode(r, c) \/ (HoldsCode(r, c))' => c = d,
           (Holds(r))',
           ~(HoldsCode(r, d))' => (Consistent(d))'
    PROVE  Rows'
<1>1. \A s \in Requests \ {r} : \A c : (HoldsCode(s, c))' <=> HoldsCode(s, c)
  BY DEF OnlyMoves, HoldsCode, Code
<1>2. Exclusive'
  BY <1>1 DEF Exclusive, Rows
<1>3. ASSUME NEW s \in Requests PROVE (Holds(s))'
  <2>1. CASE s = r
    BY <2>1
  <2>2. CASE s # r /\ pc[s] \in InTransaction
    <3>1. Code(s) \in Codes \ {d}
      BY <2>2, HoldsOwn
    <3>2. /\ (Code(s))' = Code(s) /\ (Name(s))' = Name(s) /\ (Claimed(s))' = Claimed(s)
          /\ (Used(s))' = Used(s)
          /\ pc'[s] = pc[s]
      BY <2>2 DEF OnlyMoves, Code, Name, Claimed, Used
    <3>3. /\ invitations'[Code(s)] = invitations[Code(s)]
          /\ (Registered(Code(s)))' = Registered(Code(s))
      <4>1. ASSUME NEW c \in Codes, c = Code(s)
            PROVE  (Registered(Code(s)))' = (Registered(c))'
        BY <3>2, <4>1 DEF Registered
      <4> QED BY <3>1, <4>1
    <3>4. Holds(s)
      BY DEF Rows
    <3>5. (invitations[Code(s)])' = invitations[Code(s)]
      BY <3>2, <3>3
    <3> QED
      BY <3>2, <3>3, <3>4, <3>5 DEF Holds
  <2>3. CASE s # r /\ pc[s] \notin InTransaction
    BY <2>3 DEF OnlyMoves, Holds, InTransaction
  <2> QED BY <2>1, <2>2, <2>3
<1>4. ASSUME NEW c \in Codes, ~(CodeLocked(c))' PROVE (Consistent(c))'
  <2>1. CASE c = d
    BY <1>4, <2>1 DEF CodeLocked
  <2>2. CASE c # d
    <3>1. ~CodeLocked(c)
      BY <1>1, <1>4, <2>2 DEF CodeLocked
    <3>2. Consistent(c)
      BY <3>1 DEF Rows
    <3> QED BY <2>2, <3>2 DEF Consistent
  <2> QED BY <2>1, <2>2
<1> QED BY <1>2, <1>3, <1>4 DEF Rows

\* A step outside the transaction that touches no code.
LEMMA NoCode ==
    ASSUME TypeInv, Rows, UNCHANGED <<users, invitations>>,
           \A s \in Requests : \/ pc'[s] = pc[s] /\ req'[s] = req[s]
                               \/ {pc[s], pc'[s]} \cap InTransaction = {}
    PROVE  Rows'
<1>1. \A s \in Requests, c \in Codes : (HoldsCode(s, c))' <=> HoldsCode(s, c)
  BY DEF HoldsCode, Code, InTransaction
<1>2. \A c : (Registered(c))' = Registered(c)
  BY DEF Registered, users
<1>3. \A s \in Requests : (Holds(s))'
  <2> SUFFICES ASSUME NEW s \in Requests PROVE (Holds(s))'
    OBVIOUS
  <2>1. CASE pc'[s] = pc[s] /\ req'[s] = req[s]
    <3>1. /\ (Name(s))' = Name(s) /\ (Claimed(s))' = Claimed(s)
          /\ (Used(s))' = Used(s)
          /\ (Registered(Code(s)))' = Registered(Code(s))
          /\ (invitations[Code(s)])' = invitations[Code(s)]
      BY <2>1 DEF Code, Name, Claimed, Used, Registered, users
    <3>2. Holds(s)
      BY DEF Rows
    <3> QED BY <2>1, <3>1, <3>2 DEF Holds
  <2>2. CASE {pc[s], pc'[s]} \cap InTransaction = {}
    BY <2>2 DEF Holds, InTransaction
  <2> QED BY <2>1, <2>2
<1>4. \A c \in Codes : (CodeLocked(c))' <=> CodeLocked(c)
  BY <1>1 DEF CodeLocked
<1>5. \A c \in Codes : (Consistent(c))' <=> Consistent(c)
  BY <1>2 DEF Consistent
<1> QED BY <1>1, <1>3, <1>4, <1>5 DEF Rows, Exclusive
-----------------------------------------------------------------------------
(* Types *)

LEMMA TypeInit == ASSUME Init PROVE TypeInv
BY ConstantsOK
   DEF Init, TypeInv, TypeOK, Shaped, Steps, InTransaction, Invitation

\* A row of the invitations table that is available has not been used.
LEMMA ClaimKeepsType ==
    ASSUME TypeInv, NEW r \in Requests, Claim(r)
    PROVE  TypeInv'
<1>1. pc[r] = "claim" /\ Code(r) \in Codes /\ req[r] \in Request
  BY DEF Claim, TypeInv, Shaped, Steps
<1>2. CASE Available(Code(r))
  <2>1. /\ invitations[Code(r)] \in Invitation
        /\ ~invitations[Code(r)].usedAt
        /\ invitations[Code(r)].usedBy = None
    BY <1>1, <1>2 DEF Available, TypeInv, TypeOK
  <2>2. [invitations[Code(r)] EXCEPT !.usedAt = TRUE] \in Invitation
    BY <2>1 DEF Invitation
  <2>3. [req[r] EXCEPT !.before = invitations[Code(r)]] \in Request
    BY <1>1, <2>1 DEF Request
  <2>4. TypeOK'
    BY <1>1, <1>2, <2>2, <2>3
       DEF Claim, TypeInv, TypeOK, users, members, Steps, InTransaction
  <2>5. \A s \in Requests : (Shaped(s))'
    BY <1>1, <1>2, <2>1, <2>3
       DEF Claim, TypeInv, TypeOK, Shaped, Steps, InTransaction, Code, Request
  <2> QED BY <2>4, <2>5 DEF TypeInv
<1>3. CASE ~Available(Code(r))
  BY <1>1, <1>3
     DEF Claim, Reply, TypeInv, TypeOK, Shaped, users, members, Steps,
         InTransaction, Answers, Code
<1> QED BY <1>2, <1>3

\* Rolling back puts well-formed values back.
LEMMA RollbackKeepsType ==
    ASSUME TypeInv, NEW r \in Requests, pc[r] \in InTransaction,
           NEW answer \in Answers, Rollback(r, answer), UNCHANGED <<members, given>>
    PROVE  TypeInv'
<1>1. Code(r) \in Codes /\ req[r].before \in Invitation
  BY DEF TypeInv, Shaped
<1>2. RestoredAccounts(r) \subseteq Names
  BY DEF RestoredAccounts, TypeInv, TypeOK
<1>3. TypeOK'
  BY <1>1, <1>2
     DEF Rollback, RestoredInvitations, Reply, TypeInv, TypeOK, members
<1>4. \A s \in Requests : (Shaped(s))'
  BY DEF Rollback, Reply, TypeInv, TypeOK, Shaped, Steps, InTransaction, Answers,
         Code
<1> QED BY <1>3, <1>4 DEF TypeInv

LEMMA CreateKeepsType ==
    ASSUME TypeInv, NEW r \in Requests, CreateAccount(r)
    PROVE  TypeInv'
<1>1. pc[r] = "create" /\ Code(r) \in Codes /\ Name(r) \in Names
  BY DEF CreateAccount, TypeInv, Shaped, Steps, InTransaction, Request, Name
<1>2. CASE DuplicateKey(Name(r), Code(r))
  BY <1>1, <1>2, RollbackKeepsType DEF CreateAccount, InTransaction, Answers
<1>3. CASE ~DuplicateKey(Name(r), Code(r))
  BY <1>1, <1>3
     DEF CreateAccount, Goto, TypeInv, TypeOK, Shaped, members, Steps,
         InTransaction, Code
<1> QED BY <1>2, <1>3

LEMMA ConsumeKeepsType ==
    ASSUME TypeInv, NEW r \in Requests, Consume(r), invitations[Code(r)] \in Invitation
    PROVE  TypeInv'
<1>1. pc[r] = "consume" /\ Code(r) \in Codes /\ Name(r) \in Names
  BY DEF Consume, TypeInv, Shaped, Steps, InTransaction, Request, Name
<1>2. CASE invitations[Code(r)].usedBy = None
  <2>1. [invitations[Code(r)] EXCEPT !.usedBy = Name(r)] \in Invitation
    BY <1>1 DEF Invitation
  <2>2. TypeOK'
    BY <1>1, <1>2, <2>1
       DEF Consume, ConsumedBy, Goto, TypeInv, TypeOK, users, members, Steps,
           InTransaction
  <2>3. \A s \in Requests : (Shaped(s))'
    BY <1>1, <1>2
       DEF Consume, Goto, TypeInv, TypeOK, Shaped, Steps, InTransaction, Code
  <2> QED BY <2>2, <2>3 DEF TypeInv
<1>3. CASE invitations[Code(r)].usedBy # None
  BY <1>1, <1>3, RollbackKeepsType DEF Consume, InTransaction, Answers
<1> QED BY <1>2, <1>3

LEMMA CommitKeepsType ==
    ASSUME TypeInv, NEW r \in Requests, Commit(r)
    PROVE  TypeInv'
<1>1. Name(r) \in Names
  BY DEF Commit, TypeInv, Shaped, Steps, InTransaction, Request, Name
<1> QED
  BY <1>1
     DEF Commit, Reply, TypeInv, TypeOK, Shaped, users, Steps, InTransaction,
         Answers, Code

LEMMA FailKeepsType ==
    ASSUME TypeInv, NEW r \in Requests, Fail(r)
    PROVE  TypeInv'
<1>1. CASE pc[r] \in InTransaction
  BY <1>1, RollbackKeepsType DEF Fail, Answers
<1>2. CASE pc[r] \notin InTransaction
  BY <1>2
     DEF Fail, Reply, TypeInv, TypeOK, Shaped, users, members, Steps,
         InTransaction, Answers, Code
<1> QED BY <1>1, <1>2

LEMMA BeginKeepsType ==
    ASSUME TypeInv, NEW r \in Requests, BeginRegister(r) \/ BeginGenerate(r)
    PROVE  TypeInv'
<1>1. /\ UNCHANGED <<users, members, invitations, given>>
      /\ \E q \in Request, step \in {"claim", "creator"} :
             /\ req' = [req EXCEPT ![r] = q] /\ pc' = [pc EXCEPT ![r] = step]
             /\ step = "claim" => q.code \in Codes
  <2>1. CASE BeginRegister(r)
    <3>1. PICK n \in Names, c \in Codes :
             req' = [req EXCEPT ![r] = [kind |-> "register", name |-> n, code |-> c,
                                        before |-> None, tries |-> 0]]
      BY <2>1 DEF BeginRegister
    <3>2. [kind |-> "register", name |-> n, code |-> c, before |-> None,
           tries |-> 0] \in Request
      BY ConstantsOK DEF Request
    <3> QED BY <2>1, <3>1, <3>2 DEF BeginRegister
  <2>2. CASE BeginGenerate(r)
    <3>1. PICK n \in accounts :
             req' = [req EXCEPT ![r] = [kind |-> "generate", name |-> n,
                                        code |-> None, before |-> None, tries |-> 0]]
      BY <2>2 DEF BeginGenerate
    <3>2. [kind |-> "generate", name |-> n, code |-> None, before |-> None,
           tries |-> 0] \in Request
      BY ConstantsOK DEF Request, TypeInv, TypeOK
    <3> QED BY <2>2, <3>1, <3>2 DEF BeginGenerate
  <2> QED BY <2>1, <2>2
<1> QED
  BY <1>1 DEF TypeInv, TypeOK, Shaped, users, members, Steps, InTransaction, Code

LEMMA InsertKeepsType ==
    ASSUME TypeInv, NEW r \in Requests, InsertInvitation(r)
    PROVE  TypeInv'
<1>1. /\ pc[r] = "insert" /\ req[r] \in Request /\ Name(r) \in Names
  BY DEF InsertInvitation, TypeInv, Shaped, Steps, Request, Name
<1>2. PICK c \in Codes :
         /\ ~CodeLocked(c)
         /\ IF invitations[c] # None
            THEN Collide(r, c) /\ UNCHANGED invitations
            ELSE /\ invitations' = [invitations EXCEPT ![c] =
                        [creator |-> Name(r), usedAt |-> FALSE, usedBy |-> None]]
                 /\ \/ Reply(r, "ok") /\ given' = [given EXCEPT ![r] = c]
                    \/ Reply(r, "error") /\ UNCHANGED given
  BY DEF InsertInvitation
<1>3. [creator |-> Name(r), usedAt |-> FALSE, usedBy |-> None] \in Invitation
  BY <1>1 DEF Invitation
<1>4. UNCHANGED <<users, members>>
  BY DEF InsertInvitation
<1>5. CASE invitations[c] # None
  <2>1. [req[r] EXCEPT !.tries = IF @ < Tries THEN @ + 1 ELSE @] \in Request
    BY <1>1, ConstantsOK DEF Request
  <2>2. CASE LastTry(r)
    BY <1>1, <1>2, <1>4, <1>5, <2>2
       DEF Collide, Reply, TypeInv, TypeOK, Shaped, users, members, Steps,
           InTransaction, Answers, Code
  <2>3. CASE ~LastTry(r)
    BY <1>1, <1>2, <1>4, <1>5, <2>1, <2>3
       DEF Collide, TypeInv, TypeOK, Shaped, users, members, Steps,
           InTransaction, Code
  <2> QED BY <2>2, <2>3
<1>6. CASE invitations[c] = None
  <2>1. /\ invitations' = [invitations EXCEPT ![c] =
               [creator |-> Name(r), usedAt |-> FALSE, usedBy |-> None]]
        /\ \E answer \in {"ok", "error"} : Reply(r, answer)
        /\ given' \in [Requests -> Codes \cup {None}]
    BY <1>2, <1>6 DEF TypeInv, TypeOK
  <2>2. invitations' \in [Codes -> Invitation \cup {None}]
    BY <1>3, <2>1 DEF TypeInv, TypeOK
  <2>3. TypeOK'
    BY <1>4, <2>1, <2>2 DEF Reply, TypeInv, TypeOK, users, members, Answers
  <2>4. \A s \in Requests : (Shaped(s))'
    BY <2>1
       DEF Reply, TypeInv, TypeOK, Shaped, Steps, InTransaction, Code
  <2> QED BY <2>3, <2>4 DEF TypeInv
<1> QED BY <1>5, <1>6

\* Reading the creator and the posts; what others do to the members.
LEMMA ReadsKeepType ==
    ASSUME TypeInv,
           (\E r \in Requests : ReadCreator(r) \/ CheckPublished(r)) \/ Elsewhere
    PROVE  TypeInv'
<1>1. CASE \E r \in Requests : ReadCreator(r) \/ CheckPublished(r)
  BY <1>1
     DEF ReadCreator, CheckPublished, Goto, Reply, TypeInv, TypeOK, Shaped, users,
         members, Steps, InTransaction, Answers, Code
<1>2. CASE Elsewhere
  BY <1>2
     DEF Elsewhere, ToggleMute, PublishPost, TurnOld, TypeInv, TypeOK, Shaped,
         users, Code
<1> QED BY <1>1, <1>2
-----------------------------------------------------------------------------
(* Rows *)

LEMMA RowsInit == ASSUME Init PROVE Rows
<1>1. \A r \in Requests : pc[r] = "idle"
  BY DEF Init
<1>2. \A c \in Codes : Registered(c) = {}
  BY ConstantsOK DEF Init, Registered
<1>3. \A c \in Codes : Consistent(c)
  BY <1>2 DEF Init, Consistent
<1> QED BY <1>1, <1>3 DEF Rows, Exclusive, HoldsCode, Holds, InTransaction

\* An available code is claimed by one transaction, which then holds it.
LEMMA ClaimKeepsRows ==
    ASSUME TypeInv, Rows, NEW r \in Requests, Claim(r)
    PROVE  Rows'
<1>0. PICK d \in Codes : d = Code(r)
  BY DEF Claim, TypeInv, Shaped
<1>1. pc[r] = "claim" /\ ~CodeLocked(d)
  BY <1>0 DEF Claim
<1>2. CASE Available(d)
  <2>1. /\ pc' = [pc EXCEPT ![r] = "create"]
        /\ req' = [req EXCEPT ![r].before = invitations[d]]
        /\ invitations' = [invitations EXCEPT ![d].usedAt = TRUE]
        /\ UNCHANGED users
    BY <1>0, <1>2 DEF Claim
  <2>2. /\ pc'[r] = "create" /\ (Code(r))' = d /\ req'[r].before = invitations[d]
        /\ invitations'[d] = [invitations[d] EXCEPT !.usedAt = TRUE]
        /\ \A c \in Codes \ {d} : invitations'[c] = invitations[c]
        /\ OnlyMoves(r)
    BY <1>0, <1>1, <2>1 DEF TypeInv, TypeOK, OnlyMoves, Code, Shaped, Steps, Request
  <2>3. \A c : (Registered(c))' = Registered(c)
    BY <2>1 DEF Registered, users
  <2>4. Registered(d) = {}
    <3>1. Consistent(d)
      BY <1>1 DEF Rows
    <3> QED BY <1>2, <3>1 DEF Consistent, Available
  <2>5. (Holds(r))'
    <3>1. (invitations[Code(r)])' = (Claimed(r))'
      BY <2>2 DEF Claimed
    <3>2. (Registered(Code(r)))' = {}
      <4>1. (Registered(Code(r)))' = Registered(d)
        BY <2>1, <2>2 DEF Registered, users
      <4> QED BY <2>4, <4>1
    <3> QED BY <2>2, <3>1, <3>2 DEF Holds
  <2>6. \A s \in Requests \ {r} : ~HoldsCode(s, d)
    BY <1>1 DEF CodeLocked
  <2>7. /\ \A c \in Codes : ~HoldsCode(r, c)
        /\ \A c \in Codes : (HoldsCode(r, c))' <=> c = d
    BY <1>1, <2>2 DEF HoldsCode, InTransaction
  <2> QED BY <1>1, <2>2, <2>3, <2>5, <2>6, <2>7, OneCode
<1>3. CASE ~Available(d)
  BY <1>0, <1>1, <1>3, NoCode
     DEF Claim, Reply, TypeInv, TypeOK, InTransaction
<1> QED BY <1>2, <1>3

\* A rolled-back transaction leaves the code as it found it, and no account.
LEMMA RollbackKeepsRows ==
    ASSUME TypeInv, Rows, NEW r \in Requests, pc[r] \in InTransaction,
           NEW answer \in Answers, Rollback(r, answer)
    PROVE  Rows'
<1>0. PICK d \in Codes : d = Code(r)
  BY HoldsOwn
<1>1. HoldsCode(r, d)
  BY <1>0 DEF HoldsCode
<1>2. /\ req[r].before \in Invitation
      /\ ~req[r].before.usedAt /\ req[r].before.usedBy = None
  BY DEF TypeInv, Shaped
<1>3. /\ pc'[r] = answer /\ answer \notin InTransaction
      /\ OnlyMoves(r)
      /\ invitations'[d] = req[r].before
      /\ \A c \in Codes \ {d} : invitations'[c] = invitations[c]
  BY <1>0 DEF Rollback, RestoredInvitations, Reply, Answers, InTransaction,
              TypeInv, TypeOK, OnlyMoves
<1>4. \A c \in Codes : (Registered(c))' = IF c = d THEN {} ELSE Registered(c)
  <2>1. /\ accounts' = RestoredAccounts(r)
        /\ \A n \in accounts' : inviteCode'[n] = inviteCode[n]
    BY DEF Rollback, RestoredAccounts, TypeInv, TypeOK
  <2>2. CASE pc[r] = "create"
    <3>1. accounts' = accounts /\ Registered(d) = {}
      BY <1>0, <2>1, <2>2 DEF RestoredAccounts, HoldsName, Rows, Holds
    <3> QED BY <2>1, <3>1 DEF Registered
  <2>3. CASE pc[r] \in {"consume", "commit"}
    <3>1. accounts' = accounts \ {Name(r)} /\ Registered(d) = {Name(r)}
      BY <1>0, <2>1, <2>3 DEF RestoredAccounts, HoldsName, Rows, Holds
    <3> QED BY <2>1, <3>1 DEF Registered
  <2> QED BY <2>2, <2>3 DEF InTransaction
<1>5. (Holds(r))'
  BY <1>3 DEF Holds, InTransaction
<1>6. (Consistent(d))'
  <2>1. req[r].before # None
    BY <1>2, ConstantsOK
  <2>2. (Registered(d))' = {}
    BY <1>4
  <2> QED BY <1>2, <1>3, <2>1, <2>2 DEF Consistent
<1>7. \A c \in Codes : HoldsCode(r, c) \/ (HoldsCode(r, c))' => c = d
  BY <1>0, <1>3 DEF HoldsCode
<1>8. \A s \in Requests \ {r} : ~HoldsCode(s, d)
  BY <1>1, OthersHoldOthers DEF Rows
<1> QED BY <1>3, <1>4, <1>5, <1>6, <1>7, <1>8, OneCode

\* The account is created for the code, and nobody else was registered with it.
LEMMA CreateKeepsRows ==
    ASSUME TypeInv, Rows, NEW r \in Requests, CreateAccount(r)
    PROVE  Rows'
<1>0. PICK d \in Codes : d = Code(r)
  BY HoldsOwn DEF CreateAccount, InTransaction
<1>1. /\ pc[r] = "create" /\ HoldsCode(r, d) /\ Name(r) \in Names
      /\ invitations[d] = Claimed(r) /\ Registered(d) = {}
  BY <1>0 DEF CreateAccount, HoldsCode, InTransaction, Rows, Holds, TypeInv, Shaped,
              Steps, Request, Name
<1>2. CASE DuplicateKey(Name(r), Code(r))
  BY <1>1, <1>2, RollbackKeepsRows DEF CreateAccount, InTransaction, Answers
<1>3. CASE ~DuplicateKey(Name(r), Code(r))
  <2>1. /\ accounts' = accounts \cup {Name(r)} /\ Name(r) \notin accounts
        /\ inviteCode' = [inviteCode EXCEPT ![Name(r)] = d]
        /\ pc'[r] = "consume" /\ OnlyMoves(r)
        /\ UNCHANGED <<req, invitations>>
    BY <1>0, <1>3
       DEF CreateAccount, DuplicateKey, UsernameTaken, Goto, OnlyMoves, TypeInv, TypeOK
  <2>2. \A c \in Codes : (Registered(c))' = IF c = d THEN {Name(r)} ELSE Registered(c)
    BY <1>1, <2>1 DEF Registered, TypeInv, TypeOK
  <2>3. (Holds(r))'
    <3>1. /\ (Code(r))' = d /\ (Name(r))' = Name(r) /\ (Claimed(r))' = Claimed(r)
      BY <1>0, <2>1 DEF Code, Name, Claimed
    <3>2. (Registered(Code(r)))' = {(Name(r))'}
      <4>1. (Registered(Code(r)))' = (Registered(d))'
        BY <3>1 DEF Registered
      <4> QED BY <2>2, <3>1, <4>1
    <3>3. (invitations[Code(r)])' = (Claimed(r))'
      BY <1>1, <2>1, <3>1
    <3> QED BY <2>1, <3>2, <3>3 DEF Holds
  <2>4. \A c \in Codes : /\ HoldsCode(r, c) => c = d
                         /\ (HoldsCode(r, c))' <=> c = d
    BY <1>0, <2>1 DEF HoldsCode, InTransaction, Code
  <2>5. \A s \in Requests \ {r} : ~HoldsCode(s, d)
    BY <1>1, OthersHoldOthers DEF Rows
  <2> QED BY <2>1, <2>2, <2>3, <2>4, <2>5, OneCode
<1> QED BY <1>2, <1>3

\* The code is attributed to the account that was registered with it.
LEMMA ConsumeKeepsRows ==
    ASSUME TypeInv, Rows, NEW r \in Requests, Consume(r)
    PROVE  Rows'
<1>0. PICK d \in Codes : d = Code(r)
  BY HoldsOwn DEF Consume, InTransaction
<1>1. /\ pc[r] = "consume" /\ HoldsCode(r, d)
      /\ invitations[d] = Claimed(r) /\ Registered(d) = {Name(r)}
  BY <1>0 DEF Consume, HoldsCode, InTransaction, Rows, Holds
<1>2. CASE invitations[d].usedBy = None
  <2>1. /\ invitations' = [invitations EXCEPT ![d].usedBy = Name(r)]
        /\ pc'[r] = "commit" /\ OnlyMoves(r)
        /\ UNCHANGED <<req, users>>
    BY <1>0, <1>2
       DEF Consume, ConsumedBy, Goto, OnlyMoves, TypeInv, TypeOK
  <2>2. \A c \in Codes : (Registered(c))' = Registered(c)
    BY <2>1 DEF Registered, users
  <2>3. /\ invitations'[d] = Used(r)
        /\ \A c \in Codes \ {d} : invitations'[c] = invitations[c]
    BY <1>1, <2>1 DEF Used, TypeInv, TypeOK
  <2>4. (Holds(r))'
    <3>1. /\ (Code(r))' = d /\ (Name(r))' = Name(r) /\ (Used(r))' = Used(r)
      BY <1>0, <2>1 DEF Code, Name, Used, Claimed
    <3>2. (Registered(Code(r)))' = {(Name(r))'}
      <4>1. (Registered(Code(r)))' = (Registered(d))'
        BY <3>1 DEF Registered
      <4> QED BY <1>1, <2>2, <3>1, <4>1
    <3>3. (invitations[Code(r)])' = (Used(r))'
      BY <2>3, <3>1
    <3> QED BY <2>1, <3>2, <3>3 DEF Holds
  <2>5. \A c \in Codes : /\ HoldsCode(r, c) => c = d
                         /\ (HoldsCode(r, c))' <=> c = d
    BY <1>0, <2>1 DEF HoldsCode, InTransaction, Code
  <2>6. \A s \in Requests \ {r} : ~HoldsCode(s, d)
    BY <1>1, OthersHoldOthers DEF Rows
  <2> QED BY <2>1, <2>2, <2>3, <2>4, <2>5, <2>6, OneCode
<1>3. CASE invitations[d].usedBy # None
  BY <1>0, <1>1, <1>3, RollbackKeepsRows DEF Consume, InTransaction, Answers
<1> QED BY <1>2, <1>3

\* After the commit the code agrees with the account for everybody.
LEMMA CommitKeepsRows ==
    ASSUME TypeInv, Rows, NEW r \in Requests, Commit(r)
    PROVE  Rows'
<1>0. PICK d \in Codes : d = Code(r)
  BY HoldsOwn DEF Commit, InTransaction
<1>1. /\ pc[r] = "commit" /\ HoldsCode(r, d) /\ Name(r) \in Names
      /\ invitations[d] = Used(r) /\ Registered(d) = {Name(r)}
  BY <1>0 DEF Commit, HoldsCode, InTransaction, Rows, Holds, TypeInv, Shaped, Steps,
              Request, Name
<1>2. /\ pc'[r] \in {"ok", "error"} /\ OnlyMoves(r) /\ UNCHANGED <<users, invitations>>
  BY DEF Commit, Reply, OnlyMoves, TypeInv, TypeOK
<1>3. \A c \in Codes : (Registered(c))' = Registered(c)
  BY <1>2 DEF Registered, users
<1>4. (Holds(r))'
  BY <1>2 DEF Holds
<1>5. (Consistent(d))'
  <2>1. Claimed(r) \in Invitation /\ Claimed(r).usedAt
    BY <1>1 DEF Claimed, TypeInv, Shaped, InTransaction, Invitation
  <2>2. Used(r) \in Invitation /\ Used(r).usedAt /\ Used(r).usedBy = Name(r)
    BY <1>1, <2>1 DEF Used, Invitation
  <2>3. Used(r) # None /\ Name(r) # None
    BY <1>1, <2>2, ConstantsOK
  <2> QED BY <1>1, <1>2, <1>3, <2>2, <2>3 DEF Consistent
<1>6. \A c \in Codes : HoldsCode(r, c) \/ (HoldsCode(r, c))' => c = d
  BY <1>0, <1>2 DEF HoldsCode, InTransaction
<1>7. \A s \in Requests \ {r} : ~HoldsCode(s, d)
  BY <1>1, OthersHoldOthers DEF Rows
<1> QED BY <1>2, <1>3, <1>4, <1>5, <1>6, <1>7, OneCode

\* A new code has not been used by anybody.
LEMMA InsertKeepsRows ==
    ASSUME TypeInv, Rows, NEW r \in Requests, InsertInvitation(r)
    PROVE  Rows'
<1>0. PICK d \in Codes :
         /\ ~CodeLocked(d)
         /\ IF invitations[d] # None
            THEN Collide(r, d) /\ UNCHANGED invitations
            ELSE /\ invitations' = [invitations EXCEPT ![d] =
                        [creator |-> Name(r), usedAt |-> FALSE, usedBy |-> None]]
                 /\ \/ Reply(r, "ok") /\ given' = [given EXCEPT ![r] = d]
                    \/ Reply(r, "error") /\ UNCHANGED given
  BY DEF InsertInvitation
<1>1. /\ pc[r] = "insert" /\ UNCHANGED users /\ Name(r) \in Names
      /\ pc'[r] \in {"insert", "ok", "error"} /\ OnlyMoves(r)
  BY <1>0
     DEF InsertInvitation, Collide, Reply, OnlyMoves, TypeInv, TypeOK, Shaped, Steps,
         Request, Name
<1>2. CASE invitations[d] # None
  BY <1>0, <1>1, <1>2, NoCode DEF InTransaction, OnlyMoves
<1>3. CASE invitations[d] = None
  <2>1. \A c \in Codes : (Registered(c))' = Registered(c)
    BY <1>1 DEF Registered, users
  <2>2. Registered(d) = {}
    BY <1>0, <1>3 DEF Rows, Consistent
  <2>3. /\ invitations'[d] = [creator |-> Name(r), usedAt |-> FALSE, usedBy |-> None]
        /\ \A c \in Codes \ {d} : invitations'[c] = invitations[c]
    BY <1>0, <1>3 DEF TypeInv, TypeOK
  <2>4. invitations'[d] \in Invitation
    BY <1>1, <2>3 DEF Invitation
  <2>5. (Consistent(d))'
    BY <2>1, <2>2, <2>3, <2>4, ConstantsOK DEF Consistent
  <2>6. (Holds(r))' /\ \A c \in Codes : ~HoldsCode(r, c) /\ ~(HoldsCode(r, c))'
    BY <1>1 DEF Holds, HoldsCode, InTransaction
  <2>7. \A s \in Requests \ {r} : ~HoldsCode(s, d)
    BY <1>0 DEF CodeLocked
  <2> QED BY <1>1, <2>1, <2>3, <2>5, <2>6, <2>7, OneCode
<1> QED BY <1>2, <1>3

\* The other steps touch neither the accounts nor the invitations.
LEMMA OtherStepsKeepRows ==
    ASSUME TypeInv, Rows,
           \/ \E r \in Requests : \/ BeginRegister(r) \/ BeginGenerate(r)
                                  \/ ReadCreator(r) \/ CheckPublished(r)
                                  \/ Fail(r) /\ pc[r] \notin InTransaction
           \/ Elsewhere
    PROVE  Rows'
<1>1. CASE Elsewhere
  BY <1>1, NoCode DEF Elsewhere
<1>2. ASSUME NEW r \in Requests,
             \/ BeginRegister(r) \/ BeginGenerate(r)
             \/ ReadCreator(r) \/ CheckPublished(r)
             \/ Fail(r) /\ pc[r] \notin InTransaction
      PROVE  Rows'
  <2>1. /\ UNCHANGED <<users, invitations>>
        /\ pc[r] \notin InTransaction
        /\ \E step : step \notin InTransaction /\ pc' = [pc EXCEPT ![r] = step]
        /\ \E q : req' = [req EXCEPT ![r] = q] \/ req' = req
    BY <1>2
       DEF BeginRegister, BeginGenerate, ReadCreator, CheckPublished, Fail, Goto,
           Reply, InTransaction
  <2>2. OnlyMoves(r) /\ pc'[r] \notin InTransaction
    BY <2>1 DEF OnlyMoves, TypeInv, TypeOK
  <2> QED BY <2>1, <2>2, NoCode DEF OnlyMoves
<1> QED BY <1>1, <1>2
-----------------------------------------------------------------------------
(* Accounts that are settled stay, and so does what entitles them to invite *)

Settled(n) == n \in accounts /\ ~NameLocked(n)
Entitled(n) == n \notin young \/ n \in published

\* What no step undoes.
Stays ==
    /\ \A n \in Names : Settled(n) => /\ (Settled(n))'
                                      /\ inviteCode'[n] = inviteCode[n]
                                      /\ Entitled(n) => (Entitled(n))'
    /\ \A c \in Codes : invitations[c] # None =>
           invitations'[c] # None /\ invitations'[c].creator = invitations[c].creator

\* Steps that write neither users nor the members' columns and lock no name.
LEMMA SettledStays ==
    ASSUME UNCHANGED <<users, members>>,
           \A r \in Requests, n \in Names : (HoldsName(r, n))' => HoldsName(r, n)
    PROVE  \A n \in Names : Settled(n) => /\ (Settled(n))'
                                          /\ inviteCode'[n] = inviteCode[n]
                                          /\ Entitled(n) => (Entitled(n))'
BY DEF Settled, NameLocked, Entitled, users, members

\* A request in a transaction holds a code that is in the table.
LEMMA HeldRow ==
    ASSUME TypeInv, Rows, NEW r \in Requests, pc[r] \in InTransaction
    PROVE  /\ Code(r) \in Codes
           /\ invitations[Code(r)] \in Invitation
           /\ invitations[Code(r)].creator = req[r].before.creator
           /\ req[r].before # None
<1>1. Code(r) \in Codes /\ req[r].before \in Invitation
  BY DEF TypeInv, Shaped
<1>2. Name(r) \in Names
  BY DEF TypeInv, Shaped, Steps, InTransaction, Request, Name
<1>3. Claimed(r) \in Invitation /\ Claimed(r).creator = req[r].before.creator
  BY <1>1 DEF Claimed, Invitation
<1>4. Used(r) \in Invitation /\ Used(r).creator = req[r].before.creator
  BY <1>2, <1>3 DEF Used, Invitation
<1>5. invitations[Code(r)] \in {Claimed(r), Used(r)}
  BY DEF Rows, Holds, InTransaction
<1> QED BY <1>1, <1>3, <1>4, <1>5, ConstantsOK

\* A transaction rolls back its own account only, and only restores its code.
LEMMA RollbackStays ==
    ASSUME TypeInv, Rows, NEW r \in Requests, pc[r] \in InTransaction,
           NEW answer \in Answers, Rollback(r, answer), UNCHANGED members
    PROVE  Stays
<1>1. /\ pc'[r] \notin InTransaction /\ OnlyMoves(r)
  BY DEF Rollback, Reply, Answers, InTransaction, TypeInv, TypeOK, OnlyMoves
<1>2. ASSUME NEW n \in Names, Settled(n)
      PROVE  /\ (Settled(n))' /\ inviteCode'[n] = inviteCode[n]
             /\ Entitled(n) => (Entitled(n))'
  <2>1. ~HoldsName(r, n)
    BY <1>2 DEF Settled, NameLocked
  <2>2. n \in RestoredAccounts(r)
    BY <1>2, <2>1 DEF RestoredAccounts, Settled, HoldsName
  <2>3. n \in accounts' /\ inviteCode'[n] = inviteCode[n]
    BY <2>2 DEF Rollback
  <2>4. ~(NameLocked(n))'
    BY <1>1, <1>2 DEF Settled, NameLocked, HoldsName, OnlyMoves, Name, InTransaction
  <2> QED BY <2>3, <2>4 DEF Settled, Entitled, members
<1>3. ASSUME NEW c \in Codes, invitations[c] # None
      PROVE  invitations'[c] # None /\ invitations'[c].creator = invitations[c].creator
  BY <1>3, HeldRow DEF Rollback, RestoredInvitations, TypeInv, TypeOK
<1> QED BY <1>2, <1>3 DEF Stays

LEMMA StepStays ==
    ASSUME TypeInv, Rows, Next
    PROVE  Stays
<1>1. ASSUME NEW r \in Requests,
             \/ BeginRegister(r) \/ BeginGenerate(r) \/ ReadCreator(r)
             \/ CheckPublished(r)
             \/ Fail(r) /\ pc[r] \notin InTransaction
      PROVE  Stays
  <2>1. /\ UNCHANGED <<users, members, invitations>>
        /\ \E step : step \notin InTransaction /\ pc' = [pc EXCEPT ![r] = step]
        /\ \E q : req' = [req EXCEPT ![r] = q] \/ req' = req
    BY <1>1
       DEF BeginRegister, BeginGenerate, ReadCreator, CheckPublished, Fail, Goto,
           Reply, InTransaction
  <2>2. OnlyMoves(r) /\ pc'[r] \notin InTransaction
    BY <2>1 DEF OnlyMoves, TypeInv, TypeOK
  <2>3. \A x \in Requests, n \in Names : (HoldsName(x, n))' => HoldsName(x, n)
    BY <2>2 DEF HoldsName, OnlyMoves, Name, InTransaction
  <2> QED BY <2>1, <2>3, SettledStays DEF Stays
<1>2. ASSUME NEW r \in Requests, Claim(r) PROVE Stays
  <2>1. CASE Available(Code(r))
    <3>1. /\ UNCHANGED <<users, members>>
          /\ OnlyMoves(r) /\ pc'[r] = "create"
          /\ invitations' = [invitations EXCEPT ![Code(r)].usedAt = TRUE]
      BY <1>2, <2>1 DEF Claim, OnlyMoves, TypeInv, TypeOK
    <3>2. \A x \in Requests, n \in Names : (HoldsName(x, n))' => HoldsName(x, n)
      BY <3>1 DEF HoldsName, OnlyMoves, Name
    <3>3. ASSUME NEW c \in Codes, invitations[c] # None
          PROVE  /\ invitations'[c] # None
                 /\ invitations'[c].creator = invitations[c].creator
      <4>1. invitations[c] \in Invitation
        BY <3>3 DEF TypeInv, TypeOK
      <4>2. [invitations[c] EXCEPT !.usedAt = TRUE] \in Invitation
        BY <4>1 DEF Invitation
      <4> QED BY <3>1, <4>1, <4>2, ConstantsOK DEF TypeInv, TypeOK, Invitation
    <3> QED BY <3>1, <3>2, <3>3, SettledStays DEF Stays
  <2>2. CASE ~Available(Code(r))
    <3>1. /\ UNCHANGED <<users, members, invitations>>
          /\ OnlyMoves(r) /\ pc'[r] = "unavailable"
      BY <1>2, <2>2 DEF Claim, Reply, OnlyMoves, TypeInv, TypeOK
    <3>2. \A x \in Requests, n \in Names : (HoldsName(x, n))' => HoldsName(x, n)
      BY <3>1 DEF HoldsName, OnlyMoves, Name
    <3> QED BY <3>1, <3>2, SettledStays DEF Stays
  <2> QED BY <2>1, <2>2
<1>3. ASSUME NEW r \in Requests, CreateAccount(r) PROVE Stays
  <2>0. pc[r] = "create"
    BY <1>3 DEF CreateAccount
  <2>1. CASE DuplicateKey(Name(r), Code(r))
    BY <1>3, <2>0, <2>1, RollbackStays DEF CreateAccount, InTransaction, Answers
  <2>2. CASE ~DuplicateKey(Name(r), Code(r))
    <3>1. /\ accounts' = accounts \cup {Name(r)} /\ Name(r) \notin accounts
          /\ inviteCode' = [inviteCode EXCEPT ![Name(r)] = Code(r)]
          /\ OnlyMoves(r) /\ UNCHANGED <<req, invitations, members>>
      BY <1>3, <2>2
         DEF CreateAccount, DuplicateKey, UsernameTaken, Goto, OnlyMoves, TypeInv,
             TypeOK
    <3>2. ASSUME NEW n \in Names, Settled(n)
          PROVE  /\ (Settled(n))' /\ inviteCode'[n] = inviteCode[n]
                 /\ Entitled(n) => (Entitled(n))'
      <4>1. n # Name(r) /\ n \in accounts' /\ inviteCode'[n] = inviteCode[n]
        BY <3>1, <3>2 DEF Settled, TypeInv, TypeOK
      <4>2. ~(NameLocked(n))'
        BY <3>1, <3>2, <4>1 DEF Settled, NameLocked, HoldsName, OnlyMoves, Name
      <4> QED BY <3>1, <4>1, <4>2 DEF Settled, Entitled, members
    <3> QED BY <3>1, <3>2 DEF Stays
  <2> QED BY <2>1, <2>2
<1>4. ASSUME NEW r \in Requests, Consume(r) PROVE Stays
  <2>0. pc[r] = "consume" /\ Name(r) \in Names
    BY <1>4 DEF Consume, TypeInv, Shaped, Steps, InTransaction, Request, Name
  <2>1. CASE invitations[Code(r)].usedBy = None
    <3>1. /\ invitations' = [invitations EXCEPT ![Code(r)].usedBy = Name(r)]
          /\ OnlyMoves(r) /\ UNCHANGED <<req, users, members>>
      BY <1>4, <2>1 DEF Consume, ConsumedBy, Goto, OnlyMoves, TypeInv, TypeOK
    <3>2. \A x \in Requests, n \in Names : (HoldsName(x, n))' => HoldsName(x, n)
      BY <2>0, <3>1 DEF HoldsName, OnlyMoves, Name
    <3>3. ASSUME NEW c \in Codes, invitations[c] # None
          PROVE  /\ invitations'[c] # None
                 /\ invitations'[c].creator = invitations[c].creator
      <4>1. invitations[c] \in Invitation
        BY <3>3 DEF TypeInv, TypeOK
      <4>2. [invitations[c] EXCEPT !.usedBy = Name(r)] \in Invitation
        BY <2>0, <4>1 DEF Invitation
      <4> QED BY <3>1, <4>1, <4>2, ConstantsOK DEF TypeInv, TypeOK, Invitation
    <3> QED BY <3>1, <3>2, <3>3, SettledStays DEF Stays
  <2>2. CASE invitations[Code(r)].usedBy # None
    BY <1>4, <2>0, <2>2, RollbackStays DEF Consume, InTransaction, Answers
  <2> QED BY <2>1, <2>2
<1>5. ASSUME NEW r \in Requests, Commit(r) PROVE Stays
  <2>1. /\ pc[r] = "commit" /\ pc'[r] \in {"ok", "error"} /\ OnlyMoves(r)
        /\ young' = young \cup {Name(r)}
        /\ UNCHANGED <<users, published, invitations>>
    BY <1>5 DEF Commit, Reply, OnlyMoves, TypeInv, TypeOK
  <2>2. ASSUME NEW n \in Names, Settled(n)
        PROVE  /\ (Settled(n))' /\ inviteCode'[n] = inviteCode[n]
               /\ Entitled(n) => (Entitled(n))'
    <3>1. n # Name(r)
      BY <2>1, <2>2 DEF Settled, NameLocked, HoldsName
    <3>2. ~(NameLocked(n))'
      BY <2>1, <2>2 DEF Settled, NameLocked, HoldsName, OnlyMoves, Name
    <3> QED BY <2>1, <2>2, <3>1, <3>2 DEF Settled, Entitled, users
  <2> QED BY <2>1, <2>2 DEF Stays
<1>6. ASSUME NEW r \in Requests, Fail(r), pc[r] \in InTransaction PROVE Stays
  BY <1>6, RollbackStays DEF Fail, Answers
<1>7. ASSUME NEW r \in Requests, InsertInvitation(r) PROVE Stays
  <2>1. PICK d \in Codes :
           /\ ~CodeLocked(d)
           /\ IF invitations[d] # None
              THEN Collide(r, d) /\ UNCHANGED invitations
              ELSE /\ invitations' = [invitations EXCEPT ![d] =
                          [creator |-> Name(r), usedAt |-> FALSE, usedBy |-> None]]
                   /\ \/ Reply(r, "ok") /\ given' = [given EXCEPT ![r] = d]
                      \/ Reply(r, "error") /\ UNCHANGED given
    BY <1>7 DEF InsertInvitation
  <2>2. /\ UNCHANGED <<users, members>> /\ OnlyMoves(r)
        /\ pc'[r] \in {"insert", "ok", "error"}
    BY <1>7, <2>1
       DEF InsertInvitation, Collide, Reply, OnlyMoves, TypeInv, TypeOK
  <2>3. \A x \in Requests, n \in Names : (HoldsName(x, n))' => HoldsName(x, n)
    BY <2>2 DEF HoldsName, OnlyMoves, Name
  <2>4. \A c \in Codes : invitations[c] # None => invitations'[c] = invitations[c]
    BY <2>1 DEF TypeInv, TypeOK
  <2> QED BY <2>2, <2>3, <2>4, SettledStays DEF Stays
<1>8. CASE Elsewhere
  <2>1. /\ UNCHANGED <<users, invitations, req, pc>>
        /\ young' \subseteq young /\ published \subseteq published'
    BY <1>8 DEF Elsewhere, ToggleMute, PublishPost, TurnOld
  <2>2. ASSUME NEW n \in Names, Settled(n)
        PROVE  /\ (Settled(n))' /\ inviteCode'[n] = inviteCode[n]
               /\ Entitled(n) => (Entitled(n))'
    <3>1. (NameLocked(n))' <=> NameLocked(n)
      BY <2>1 DEF NameLocked, HoldsName, Name
    <3>2. accounts' = accounts /\ inviteCode' = inviteCode
      BY <2>1 DEF users
    <3>3. (Settled(n))'
      BY <2>2, <3>1, <3>2 DEF Settled
    <3>4. Entitled(n) => (Entitled(n))'
      BY <2>1 DEF Entitled
    <3> QED BY <3>2, <3>3, <3>4
  <2>3. invitations' = invitations
    BY <2>1
  <2> QED BY <2>2, <2>3 DEF Stays
<1> QED BY <1>1, <1>2, <1>3, <1>4, <1>5, <1>6, <1>7, <1>8 DEF Next, Step
-----------------------------------------------------------------------------
(* Inviters and the codes they were given *)

Inviters ==
    /\ \A c \in Codes : invitations[c] # None =>
           Settled(invitations[c].creator) /\ Entitled(invitations[c].creator)
    /\ \A r \in Requests :
           /\ pc[r] \in {"creator", "published", "insert"} => Settled(Name(r))
           /\ pc[r] = "insert" => Entitled(Name(r))

Handed ==
    /\ \A r \in Requests : given[r] # None => /\ pc[r] = "ok"
                                              /\ invitations[given[r]] # None
    /\ CodesAreHandedOutOnce

LEMMA InvitersInit == ASSUME Init PROVE Inviters /\ Handed
<1>1. \A r \in Requests : pc[r] = "idle" /\ given[r] = None
  BY DEF Init
<1>2. ASSUME NEW c \in Codes, invitations[c] # None
      PROVE  Settled(invitations[c].creator) /\ Entitled(invitations[c].creator)
  <2>1. /\ FirstInviter[c] \in Members
        /\ invitations[c].creator = FirstInviter[c]
    BY <1>2, ConstantsOK DEF Init
  <2> QED
    BY <1>1, <2>1, ConstantsOK
       DEF Init, Settled, NameLocked, HoldsName, Entitled
<1> QED BY <1>1, <1>2 DEF Inviters, Handed, CodesAreHandedOutOnce

\* A row that is there keeps its creator, who stays entitled.
LEMMA CreatorsStay ==
    ASSUME TypeInv, Inviters, Stays, NEW c \in Codes, invitations[c] # None
    PROVE  (Settled(invitations[c].creator) /\ Entitled(invitations[c].creator))'
<1>1. PICK n \in Names : n = invitations[c].creator
  BY DEF TypeInv, TypeOK, Invitation
<1>2. Settled(n) /\ Entitled(n)
  BY <1>1 DEF Inviters
<1>3. (Settled(n) /\ Entitled(n))' /\ invitations'[c].creator = n
  BY <1>1, <1>2 DEF Stays
<1> QED BY <1>3 DEF Settled, Entitled, NameLocked, HoldsName

\* Who is past a check stays past it while others move.
LEMMA CheckedStay ==
    ASSUME TypeInv, Inviters, Stays, NEW s \in Requests,
           pc'[s] = pc[s], req'[s].name = req[s].name,
           pc[s] \in {"creator", "published", "insert"}
    PROVE  (Settled(Name(s)))' /\ (pc[s] = "insert" => (Entitled(Name(s)))')
<1>1. PICK n \in Names : n = Name(s)
  BY DEF TypeInv, Shaped, Steps, Request, Name
<1>2. Settled(n) /\ (pc[s] = "insert" => Entitled(n))
  BY <1>1 DEF Inviters
<1>3. (Settled(n))' /\ (pc[s] = "insert" => (Entitled(n))')
  BY <1>2 DEF Stays
<1>4. (Name(s))' = n
  BY <1>1 DEF Name
<1> QED BY <1>3, <1>4 DEF Settled, Entitled, NameLocked, HoldsName

\* Steps that add no invitation and hand out no code.
LEMMA InvitersKept ==
    ASSUME TypeInv, Inviters, Handed, Stays, NEW r \in Requests, OnlyMoves(r),
           \A c \in Codes : invitations'[c] # None => invitations[c] # None,
           UNCHANGED given, pc[r] # "ok",
           pc'[r] \in {"creator", "published", "insert"} =>
               /\ (Settled(Name(r)))'
               /\ pc'[r] = "insert" => (Entitled(Name(r)))'
    PROVE  (Inviters /\ Handed)'
<1>1. \A c \in Codes : invitations'[c] # None =>
          (Settled(invitations[c].creator) /\ Entitled(invitations[c].creator))'
  BY CreatorsStay
<1>2. ASSUME NEW s \in Requests, pc'[s] \in {"creator", "published", "insert"}
      PROVE  (Settled(Name(s)))' /\ (pc'[s] = "insert" => (Entitled(Name(s)))')
  <2>1. CASE s = r
    BY <1>2, <2>1
  <2>2. CASE s # r
    BY <1>2, <2>2, CheckedStay DEF OnlyMoves
  <2> QED BY <2>1, <2>2
<1>3. Inviters'
  BY <1>1, <1>2 DEF Inviters
<1>4. ASSUME NEW s \in Requests, given[s] # None
      PROVE  pc'[s] = "ok" /\ invitations'[given[s]] # None
  <2>1. s # r /\ given[s] \in Codes
    BY <1>4 DEF Handed, TypeInv, TypeOK
  <2> QED BY <1>4, <2>1 DEF Handed, OnlyMoves, Stays
<1> QED BY <1>3, <1>4 DEF Handed, CodesAreHandedOutOnce

LEMMA StepKeepsInviters ==
    ASSUME TypeInv, Rows, Inviters, Handed, Next, Stays
    PROVE  (Inviters /\ Handed)'
<1>1. ASSUME NEW r \in Requests, BeginGenerate(r) PROVE (Inviters /\ Handed)'
  <2>1. PICK n \in accounts :
           /\ ~NameLocked(n)
           /\ req' = [req EXCEPT ![r] = [kind |-> "generate", name |-> n,
                          code |-> None, before |-> None, tries |-> 0]]
    BY <1>1 DEF BeginGenerate
  <2>2. /\ pc' = [pc EXCEPT ![r] = "creator"] /\ pc[r] = "idle"
        /\ UNCHANGED <<invitations, given, users, members>>
    BY <1>1 DEF BeginGenerate
  <2>3. /\ OnlyMoves(r) /\ pc'[r] = "creator" /\ (Name(r))' = n /\ n \in Names
    BY <2>1, <2>2 DEF OnlyMoves, TypeInv, TypeOK, Name
  <2>4. Settled(n)
    BY <2>1 DEF Settled
  <2>5. (Settled(n))'
    BY <2>3, <2>4 DEF Stays
  <2>6. (Settled(Name(r)))'
    BY <2>3, <2>5 DEF Settled, NameLocked, HoldsName
  <2> QED BY <2>2, <2>3, <2>6, InvitersKept
<1>2. ASSUME NEW r \in Requests, ReadCreator(r) \/ CheckPublished(r)
      PROVE  (Inviters /\ Handed)'
  <2>1. /\ pc[r] \in {"creator", "published"} /\ OnlyMoves(r)
        /\ UNCHANGED <<users, members, invitations, given>>
        /\ pc'[r] \in {"published", "insert", "rejected"}
        /\ pc'[r] # "rejected" => req' = req
        /\ pc'[r] = "insert" => Entitled(Name(r))
    BY <1>2
       DEF ReadCreator, CheckPublished, RequiresPublishedPost, Goto, Reply,
           OnlyMoves, TypeInv, TypeOK, Entitled
  <2>2. PICK n \in Names : n = Name(r)
    BY <2>1 DEF TypeInv, Shaped, Steps, Request, Name
  <2>3. Settled(n)
    BY <2>1, <2>2 DEF Inviters
  <2>4. (Settled(n))' /\ (pc'[r] = "insert" => (Entitled(n))')
    BY <2>1, <2>2, <2>3 DEF Stays
  <2>5. pc'[r] # "rejected" => (Name(r))' = n
    BY <2>1, <2>2 DEF Name
  <2>6. pc'[r] \in {"creator", "published", "insert"} =>
            /\ (Settled(Name(r)))'
            /\ pc'[r] = "insert" => (Entitled(Name(r)))'
    BY <2>4, <2>5 DEF Settled, NameLocked, HoldsName, Entitled
  <2> QED BY <2>1, <2>6, InvitersKept
<1>3. ASSUME NEW r \in Requests,
             \/ BeginRegister(r) \/ Claim(r) \/ CreateAccount(r) \/ Consume(r)
             \/ Commit(r) \/ Fail(r)
      PROVE  (Inviters /\ Handed)'
  <2>1. /\ pc[r] # "ok" /\ OnlyMoves(r) /\ UNCHANGED given
        /\ pc'[r] \notin {"creator", "published", "insert"}
    BY <1>3
       DEF BeginRegister, Claim, CreateAccount, Consume, Commit, Fail, Rollback,
           Goto, Reply, OnlyMoves, TypeInv, TypeOK, Steps, InTransaction
  <2>2. \A c \in Codes : invitations'[c] # None => invitations[c] # None
    <3>1. pc[r] \in {"claim"} \cup InTransaction => Code(r) \in Codes
      BY DEF TypeInv, Shaped
    <3>2. pc[r] \in InTransaction => invitations[Code(r)] # None
      BY HeldRow, ConstantsOK
    <3> QED
      BY <1>3, <3>1, <3>2
         DEF BeginRegister, Claim, Available, CreateAccount, Consume, Commit, Fail,
             Rollback, RestoredInvitations, TypeInv, TypeOK, InTransaction
  <2> QED BY <2>1, <2>2, InvitersKept
<1>4. ASSUME NEW r \in Requests, InsertInvitation(r) PROVE (Inviters /\ Handed)'
  <2>1. PICK d \in Codes :
           /\ ~CodeLocked(d)
           /\ IF invitations[d] # None
              THEN Collide(r, d) /\ UNCHANGED invitations
              ELSE /\ invitations' = [invitations EXCEPT ![d] =
                          [creator |-> Name(r), usedAt |-> FALSE, usedBy |-> None]]
                   /\ \/ Reply(r, "ok") /\ given' = [given EXCEPT ![r] = d]
                      \/ Reply(r, "error") /\ UNCHANGED given
    BY <1>4 DEF InsertInvitation
  <2>2. pc[r] = "insert" /\ given[r] = None
    BY <1>4 DEF InsertInvitation, Handed
  <2>3. PICK n \in Names : n = Name(r)
    BY <2>2 DEF TypeInv, Shaped, Steps, Request, Name
  <2>4. /\ Settled(n) /\ Entitled(n) /\ (Settled(n))' /\ (Entitled(n))'
    BY <2>2, <2>3 DEF Inviters, Stays
  <2>5. CASE invitations[d] # None
    <3>1. /\ OnlyMoves(r) /\ UNCHANGED <<invitations, given>>
          /\ pc'[r] \in {"insert", "error"}
          /\ pc'[r] = "insert" => req'[r].name = n
      BY <2>1, <2>2, <2>3, <2>5
         DEF Collide, Reply, OnlyMoves, TypeInv, TypeOK, Shaped, Steps, Request, Name
    <3>2. pc'[r] = "insert" => (Settled(Name(r)))' /\ (Entitled(Name(r)))'
      BY <2>4, <3>1 DEF Settled, NameLocked, HoldsName, Entitled, Name
    <3> QED BY <2>2, <3>1, <3>2, InvitersKept
  <2>6. CASE invitations[d] = None
    <3>1. /\ OnlyMoves(r) /\ pc'[r] \in {"ok", "error"}
          /\ invitations'[d].creator = n
          /\ \A c \in Codes \ {d} : invitations'[c] = invitations[c]
          /\ \A s \in Requests \ {r} : given'[s] = given[s]
          /\ given'[r] = None \/ (pc'[r] = "ok" /\ given'[r] = d)
      <4>1. invitations' = [invitations EXCEPT ![d] =
                 [creator |-> n, usedAt |-> FALSE, usedBy |-> None]]
        BY <2>1, <2>3, <2>6
      <4>2. /\ invitations'[d].creator = n
            /\ \A c \in Codes \ {d} : invitations'[c] = invitations[c]
        BY <4>1 DEF TypeInv, TypeOK
      <4>3. PICK answer \in {"ok", "error"} :
               /\ Reply(r, answer)
               /\ given' = [given EXCEPT ![r] = IF answer = "ok" THEN d ELSE @]
        BY <2>1, <2>6 DEF TypeInv, TypeOK
      <4>4. OnlyMoves(r) /\ pc'[r] = answer
        BY <4>3 DEF Reply, OnlyMoves, TypeInv, TypeOK
      <4>5. /\ given'[r] = IF answer = "ok" THEN d ELSE None
            /\ \A s \in Requests \ {r} : given'[s] = given[s]
        BY <2>2, <4>3 DEF TypeInv, TypeOK
      <4> QED BY <4>2, <4>4, <4>5
    <3>2. invitations'[d] # None
      <4>1. [creator |-> Name(r), usedAt |-> FALSE, usedBy |-> None] \in Invitation
        BY <2>3 DEF Invitation
      <4> QED BY <2>1, <2>6, <4>1, ConstantsOK DEF TypeInv, TypeOK
    <3>3. ASSUME NEW c \in Codes, invitations'[c] # None
          PROVE  (Settled(invitations[c].creator)
                  /\ Entitled(invitations[c].creator))'
      <4>1. CASE c = d
        BY <2>4, <3>1, <4>1 DEF Settled, NameLocked, HoldsName, Entitled
      <4>2. CASE c # d
        BY <3>1, <3>3, <4>2, CreatorsStay
      <4> QED BY <4>1, <4>2
    <3>4. ASSUME NEW s \in Requests, pc'[s] \in {"creator", "published", "insert"}
          PROVE  (Settled(Name(s)))' /\ (pc'[s] = "insert" => (Entitled(Name(s)))')
      BY <3>1, <3>4, CheckedStay DEF OnlyMoves
    <3>5. Inviters'
      BY <3>3, <3>4 DEF Inviters
    <3>6. \A s \in Requests \ {r} : given[s] # d
      BY <2>6, ConstantsOK DEF Handed
    <3>7. ASSUME NEW s \in Requests, given'[s] # None
          PROVE  pc'[s] = "ok" /\ invitations'[given'[s]] # None
      <4>1. CASE s = r
        BY <3>1, <3>2, <3>7, <4>1
      <4>2. CASE s # r
        <5>1. given'[s] = given[s] /\ given[s] \in Codes
          BY <3>1, <3>7, <4>2 DEF TypeInv, TypeOK
        <5> QED BY <3>1, <3>7, <4>2, <5>1 DEF Handed, OnlyMoves, Stays
      <4> QED BY <4>1, <4>2
    <3>8. CodesAreHandedOutOnce'
      BY <3>1, <3>6 DEF Handed, CodesAreHandedOutOnce
    <3> QED BY <3>5, <3>7, <3>8 DEF Handed
  <2> QED BY <2>5, <2>6
<1>5. CASE Elsewhere
  <2>1. UNCHANGED <<invitations, req, pc, given>>
    BY <1>5 DEF Elsewhere
  <2>2. \A s \in Requests : pc[s] \in {"creator", "published", "insert"} =>
            (Settled(Name(s)))' /\ (pc[s] = "insert" => (Entitled(Name(s)))')
    BY <2>1, CheckedStay
  <2>3. \A c \in Codes : invitations[c] # None =>
            (Settled(invitations[c].creator) /\ Entitled(invitations[c].creator))'
    BY CreatorsStay
  <2> QED BY <2>1, <2>2, <2>3 DEF Inviters, Handed, CodesAreHandedOutOnce
<1> QED BY <1>1, <1>2, <1>3, <1>4, <1>5 DEF Next, Step
-----------------------------------------------------------------------------
(* The theorems *)

IInv == TypeInv /\ Rows /\ Inviters /\ Handed

LEMMA IInvInit == Init => IInv
BY TypeInit, RowsInit, InvitersInit DEF IInv

LEMMA StepKeepsType ==
    ASSUME TypeInv, Rows, Next PROVE TypeInv'
<1>1. ASSUME NEW r \in Requests, Consume(r) PROVE TypeInv'
  BY <1>1, HeldRow, ConsumeKeepsType DEF Consume, InTransaction
<1> QED
  BY <1>1, BeginKeepsType, ClaimKeepsType, CreateKeepsType, CommitKeepsType,
     FailKeepsType, InsertKeepsType, ReadsKeepType
     DEF Next, Step

LEMMA StepKeepsRows ==
    ASSUME TypeInv, Rows, Next PROVE Rows'
<1>1. ASSUME NEW r \in Requests, Fail(r), pc[r] \in InTransaction PROVE Rows'
  BY <1>1, RollbackKeepsRows DEF Fail, Answers
<1> QED
  BY <1>1, ClaimKeepsRows, CreateKeepsRows, ConsumeKeepsRows, CommitKeepsRows,
     InsertKeepsRows, OtherStepsKeepRows
     DEF Next, Step

LEMMA IInvStep == IInv /\ [Next]_vars => IInv'
<1> SUFFICES ASSUME IInv, [Next]_vars PROVE IInv'
  OBVIOUS
<1>1. CASE Next
  BY <1>1, StepKeepsType, StepKeepsRows, StepStays, StepKeepsInviters DEF IInv
<1>2. CASE UNCHANGED vars
  <2>1. TypeInv'
    BY <1>2 DEF IInv, vars, TypeInv, TypeOK, Shaped, Code
  <2>2. Rows'
    BY <1>2, NoCode DEF IInv, vars, users
  <2>3. (Inviters /\ Handed)'
    BY <1>2
       DEF IInv, vars, Inviters, Handed, Settled, Entitled, NameLocked, HoldsName,
           Name, CodesAreHandedOutOnce
  <2> QED BY <2>1, <2>2, <2>3 DEF IInv
<1> QED BY <1>1, <1>2

LEMMA Invariance == Spec => []IInv
BY IInvInit, IInvStep, PTL DEF Spec

\* Every reachable state of Registration is type correct.
THEOREM TypeCorrect == Spec => []TypeOK
<1>1. IInv => TypeOK
  BY DEF IInv, TypeInv
<1> QED BY <1>1, Invariance, PTL

\* A code outside a transaction is unused, or used by the one account that was
\* registered with it.
THEOREM OneAccountPerCode == Spec => []InvitationMatchesAccount
<1>1. IInv => InvitationMatchesAccount
  BY DEF IInv, Rows, Consistent, Registered, InvitationMatchesAccount
<1> QED BY <1>1, Invariance, PTL

\* No code is handed to two clients.
THEOREM CodesAreSecret == Spec => []CodesAreHandedOutOnce
<1>1. IInv => CodesAreHandedOutOnce
  BY DEF IInv, Handed
<1> QED BY <1>1, Invariance, PTL

\* Whoever created an invitation is entitled to it, now and ever after.
THEOREM EntitlementLasts == Spec => []InvitersAreEntitled
<1>1. IInv => InvitersAreEntitled
  BY DEF IInv, Inviters, Entitled, InvitersAreEntitled
<1> QED BY <1>1, Invariance, PTL

\* "Username already exists" is never said of the duplicate of a code.
THEOREM ConflictsAreAboutNames == Spec => ConflictsAreReal
<1>1. IInv /\ [Next]_vars => [ConflictIsReal]_vars
  <2> SUFFICES ASSUME IInv, Next, NEW r \in Requests,
                      pc[r] = "create", pc'[r] = "exists"
               PROVE  Name(r) \in accounts'
    BY DEF ConflictIsReal
  <2>1. CreateAccount(r)
    <3>1. ASSUME NEW s \in Requests, s # r,
                 BeginRegister(s) \/ BeginGenerate(s) \/ Step(s) \/ Fail(s)
          PROVE  pc'[r] = pc[r]
      BY <3>1
         DEF BeginRegister, BeginGenerate, Step, Fail, Claim, CreateAccount, Consume,
             Commit, ReadCreator, CheckPublished, InsertInvitation, Collide, Rollback,
             Goto, Reply, IInv, TypeInv, TypeOK
    <3>2. ~Elsewhere
      BY DEF Elsewhere
    <3>3. BeginRegister(r) \/ BeginGenerate(r) \/ Step(r) \/ Fail(r)
      BY <3>1, <3>2 DEF Next
    <3>4. ~Fail(r)
      BY DEF Fail, Rollback, Reply, InTransaction, IInv, TypeInv, TypeOK
    <3> QED
      BY <3>3, <3>4
         DEF BeginRegister, BeginGenerate, Step, Claim, Consume, Commit, ReadCreator,
             CheckPublished, InsertInvitation
  <2>2. DuplicateKey(Name(r), Code(r))
    BY <2>1 DEF CreateAccount, Goto, IInv, TypeInv, TypeOK
  <2>3. Registered(Code(r)) = {}
    BY DEF IInv, Rows, Holds
  <2>4. Name(r) \in accounts
    BY <2>2, <2>3 DEF DuplicateKey, UsernameTaken, Registered
  <2>5. accounts' = accounts
    BY <2>1, <2>2
       DEF CreateAccount, Rollback, RestoredAccounts, HoldsName
  <2> QED BY <2>4, <2>5
<1> QED BY <1>1, Invariance, PTL DEF Spec, ConflictsAreReal

\* A committed account stays, with its code.
THEOREM AccountsStay == Spec => AccountsAreKept
<1>1. IInv /\ [Next]_vars => [AccountKept]_vars
  <2> SUFFICES ASSUME IInv, Next PROVE AccountKept
    OBVIOUS
  <2>1. Stays
    BY StepStays DEF IInv
  <2>2. accounts \subseteq Names
    BY DEF IInv, TypeInv, TypeOK
  <2> QED BY <2>1, <2>2 DEF Stays, Settled, AccountKept
<1> QED BY <1>1, Invariance, PTL DEF Spec, AccountsAreKept
=============================================================================
