------------------------- MODULE LifecycleProofs --------------------------
(***************************************************************************)
(* Theorems about Lifecycle, for any number of requests and Redis          *)
(* processes.                                                              *)
(*                                                                         *)
(* What is open, what was checked and who may still be let in follow from  *)
(* where main is: the invariant says it stage by stage, and what a request *)
(* finds follows from the stages in which a request can be under way.      *)
(***************************************************************************)
EXTENDS Lifecycle, TLAPS

Kinds == DOMAIN Plan
Answers == {None, "ok", "unavailable"}

\* The stages behind the start, and those in which main closes what is open.
Closing == {"closeLru", "closePersist", "closeDb", "return"}
Wired == {"wait", "shutdown", "drain"} \cup Closing
Validated == {"migrate", "admins", "wire"} \cup Wired
Abandoning == {"abandonLru", "abandonPersist"}

\* Where main has opened a pool and not closed it.
Holding(p) ==
    LET lru == {"roles", "migrate", "admins", "wire", "wait", "shutdown", "drain",
                "closeLru"}
        persist == lru \cup {"lru", "closePersist"}
    IN IF p = "lru" THEN lru
       ELSE IF p = "persist" THEN persist
       ELSE persist \cup {"ping", "persist", "closeDb"}

\* Each pool is open from its stage to the one that closes it.
OpenByStage == \A p \in Pool : main \in Holding(p) => p \in open

\* Where a store is not open yet, or is closed again.
NotYet == {"validate", "log", "db", "ping", "persist"}
Without(p) == IF p = "lru" THEN NotYet \cup {"lru", "abandonPersist"} ELSE NotYet

\* When OpenStores fails, what it opened is closed step by step, and no
\* goroutine is there yet that could end the process in between.
FailureClosesStores ==
    /\ \A p \in Role : main \in Without(p) => p \notin open
    /\ failing => main \in {"persist"} \cup Abandoning
    /\ failing /\ main = "persist" => ended # "no"
    /\ FailedOpeningLeavesNothing

\* The goroutine that listens is started once both stores were found right.
ListensWhenRight ==
    /\ main \in Validated => RolesAreRight
    /\ listener # "none" => main \in Wired

\* From Shutdown on nobody is let in, so once the drain has ended either no
\* request is left or the time was up.
NobodyIsLetIn ==
    /\ shutting <=> main \in {"drain"} \cup Closing
    /\ shutting => listener # "serving"
    /\ \A r \in Request : req[r] # None => listener # "none"
    /\ main \in Closing => timedOut \/ Quiet

\* The requests, as a function.
Requests == [Request -> {None} \cup [kind : Kinds, n : Nat, answer : Answers]]

IInv ==
    /\ TypeOK /\ req \in Requests
    /\ OpenByStage /\ FailureClosesStores /\ ListensWhenRight /\ NobodyIsLetIn
-----------------------------------------------------------------------------
(* The order of the start, and the pools of a request *)

\* CHOOSE finds one stage only: no stage is twice in Start.
LEMMA AfterIsNext ==
    ASSUME NEW i \in 1 .. 9
    PROVE  After(Start[i]) = Start[i + 1]
<1>1. Start[i] # "wire" BY DEF Start
<1>2. Start[i + 1] \in Stage BY DEF Stage, Start
<1>3. \A k \in 1 .. 9 : Start[k] = Start[i] => k = i
  BY DEF Start
<1>4. Len(Start) - 1 = 9 BY DEF Start
<1> QED BY <1>1, <1>2, <1>3, <1>4 DEF After

LEMMA AfterIs ==
    /\ After("validate") = "log" /\ After("log") = "db" /\ After("db") = "ping"
    /\ After("ping") = "persist" /\ After("persist") = "lru"
    /\ After("lru") = "roles" /\ After("roles") = "migrate"
    /\ After("migrate") = "admins" /\ After("admins") = "wire"
    /\ After("wire") = "wait"
<1>1. \A i \in 1 .. 9 : After(Start[i]) = Start[i + 1] BY AfterIsNext
<1>2. After("wire") = "wait" BY DEF After
<1> QED BY <1>1, <1>2 DEF Start

LEMMA PlansArePools ==
    ASSUME NEW kind \in Kinds
    PROVE  /\ Len(Plan[kind]) \in Nat
           /\ \A i \in DOMAIN Plan[kind] : Plan[kind][i] \in Pool
<1>1. kind \in {"member", "public", "ready"} BY DEF Kinds, Plan
<1> QED BY <1>1 DEF Plan, Pool, Role

LEMMA StageIs ==
    Stage = {"validate", "log", "db", "ping", "persist", "lru", "roles", "migrate",
             "admins", "wire", "shutdown", "drain", "closeLru", "closePersist",
             "closeDb", "return", "wait", "abandonLru", "abandonPersist"}
<1>1. {Start[i] : i \in DOMAIN Start} =
          {"validate", "log", "db", "ping", "persist", "lru", "roles", "migrate",
           "admins", "wire"}
  BY DEF Start
<1>2. {Stop[i] : i \in DOMAIN Stop} =
          {"shutdown", "drain", "closeLru", "closePersist", "closeDb", "return"}
  BY DEF Stop
<1> QED BY <1>1, <1>2 DEF Stage

-----------------------------------------------------------------------------
(* The invariant *)

LEMMA InitInv == Init => IInv
<1> SUFFICES ASSUME Init PROVE IInv OBVIOUS
<1>1. TypeOK BY StageIs DEF Init, TypeOK, Pool, Backend
<1>2. req \in Requests BY DEF Init, Requests
<1>3. OpenByStage BY DEF Init, OpenByStage, Holding, Pool, Role
<1>4. FailureClosesStores
  BY DEF Init, FailureClosesStores, FailedOpeningLeavesNothing, Role
<1>5. ListensWhenRight BY DEF Init, ListensWhenRight, Validated, Wired, Closing
<1>6. NobodyIsLetIn BY DEF Init, NobodyIsLetIn, Closing
<1> QED BY <1>1, <1>2, <1>3, <1>4, <1>5, <1>6 DEF IInv
-----------------------------------------------------------------------------
(* Main *)

LEMMA MainStepInv == IInv /\ MainStep => IInv'
<1> SUFFICES ASSUME IInv, MainStep PROVE IInv' OBVIOUS
<1> USE DEF At, Running, GoOn, Pass, GiveUp, Exit, Kept, server, config, Reaches, Backing,
            Pool, Role, Quiet, UnderWay
<1>1. CASE Validate \/ InitLog \/ PingDB \/ Migrate \/ CheckAdmins
  <2> USE <1>1 DEF Validate, InitLog, PingDB, Migrate, CheckAdmins
  <2>1. TypeOK' /\ req' \in Requests BY AfterIs, StageIs DEF IInv, TypeOK
  <2>2. OpenByStage' BY AfterIs DEF IInv, OpenByStage, Holding
  <2>3. FailureClosesStores'
    BY AfterIs DEF IInv, FailureClosesStores, Without, NotYet, FailedOpeningLeavesNothing,
           Abandoning
  <2>4. ListensWhenRight'
    BY AfterIs DEF IInv, ListensWhenRight, Validated, Wired, Closing, RolesAreRight
  <2>5. NobodyIsLetIn'
    BY AfterIs DEF IInv, NobodyIsLetIn, ListensWhenRight, Wired, Closing
  <2> QED BY <2>1, <2>2, <2>3, <2>4, <2>5 DEF IInv
<1>2. CASE OpenDB \/ OpenPersist \/ OpenLRU
  <2> USE <1>2 DEF OpenDB, OpenPersist, OpenLRU
  <2>1. TypeOK' /\ req' \in Requests BY AfterIs, StageIs DEF IInv, TypeOK
  <2>2. OpenByStage' BY AfterIs DEF IInv, OpenByStage, Holding
  <2>3. FailureClosesStores'
    BY AfterIs DEF IInv, FailureClosesStores, Without, NotYet, FailedOpeningLeavesNothing,
           Abandoning
  <2>4. ListensWhenRight'
    BY AfterIs DEF IInv, ListensWhenRight, Validated, Wired, Closing, RolesAreRight
  <2>5. NobodyIsLetIn'
    BY AfterIs DEF IInv, NobodyIsLetIn, ListensWhenRight, Wired, Closing
  <2> QED BY <2>1, <2>2, <2>3, <2>4, <2>5 DEF IInv
<1>3. CASE ValidateRoles \/ Wire
  <2> USE <1>3 DEF ValidateRoles, Wire
  <2>1. TypeOK' /\ req' \in Requests BY AfterIs, StageIs DEF IInv, TypeOK
  <2>2. OpenByStage' BY AfterIs DEF IInv, OpenByStage, Holding
  <2>3. FailureClosesStores'
    BY AfterIs DEF IInv, FailureClosesStores, Without, NotYet, FailedOpeningLeavesNothing,
           Abandoning
  <2>4. ListensWhenRight'
    BY AfterIs DEF IInv, ListensWhenRight, Validated, Wired, Closing, RolesAreRight
  <2>5. NobodyIsLetIn'
    BY AfterIs DEF IInv, NobodyIsLetIn, ListensWhenRight, Wired, Closing
  <2> QED BY <2>1, <2>2, <2>3, <2>4, <2>5 DEF IInv
<1>4. CASE Wait \/ Shutdown \/ Drain \/ Return
  <2> USE <1>4 DEF Wait, Shutdown, Drain, Return
  <2>1. TypeOK' /\ req' \in Requests BY AfterIs, StageIs DEF IInv, TypeOK
  <2>2. OpenByStage' BY AfterIs DEF IInv, OpenByStage, Holding
  <2>3. FailureClosesStores'
    BY AfterIs DEF IInv, FailureClosesStores, Without, NotYet, FailedOpeningLeavesNothing,
           Abandoning
  <2>4. ListensWhenRight'
    BY AfterIs DEF IInv, ListensWhenRight, Validated, Wired, Closing, RolesAreRight
  <2>5. NobodyIsLetIn'
    BY AfterIs DEF IInv, NobodyIsLetIn, ListensWhenRight, Wired, Closing
  <2> QED BY <2>1, <2>2, <2>3, <2>4, <2>5 DEF IInv
<1>5. ASSUME NEW p \in Role, Abandon(p) PROVE IInv'
  <2> USE <1>5 DEF Abandon
  <2>1. TypeOK' /\ req' \in Requests BY AfterIs, StageIs DEF IInv, TypeOK
  <2>2. OpenByStage' BY AfterIs DEF IInv, OpenByStage, Holding
  <2>3. FailureClosesStores'
    BY AfterIs DEF IInv, FailureClosesStores, Without, NotYet, FailedOpeningLeavesNothing,
           Abandoning
  <2>4. ListensWhenRight'
    BY AfterIs DEF IInv, ListensWhenRight, Validated, Wired, Closing, RolesAreRight
  <2>5. NobodyIsLetIn'
    BY AfterIs DEF IInv, NobodyIsLetIn, ListensWhenRight, Wired, Closing
  <2> QED BY <2>1, <2>2, <2>3, <2>4, <2>5 DEF IInv
<1>6. ASSUME NEW p \in Pool, Close(p) PROVE IInv'
  <2> USE <1>6 DEF Close
  <2>1. TypeOK' /\ req' \in Requests BY AfterIs, StageIs DEF IInv, TypeOK
  <2>2. OpenByStage' BY AfterIs DEF IInv, OpenByStage, Holding
  <2>3. FailureClosesStores'
    BY AfterIs DEF IInv, FailureClosesStores, Without, NotYet, FailedOpeningLeavesNothing,
           Abandoning
  <2>4. ListensWhenRight'
    BY AfterIs DEF IInv, ListensWhenRight, Validated, Wired, Closing, RolesAreRight
  <2>5. NobodyIsLetIn'
    BY AfterIs DEF IInv, NobodyIsLetIn, ListensWhenRight, Wired, Closing
  <2> QED BY <2>1, <2>2, <2>3, <2>4, <2>5 DEF IInv
<1> QED BY <1>1, <1>2, <1>3, <1>4, <1>5, <1>6 DEF MainStep
-----------------------------------------------------------------------------
(* The other threads *)

LEMMA ListenInv == IInv /\ Listen => IInv'
<1> SUFFICES ASSUME IInv, Listen PROVE IInv' OBVIOUS
<1> USE DEF Running, Exit, config, StillWanted, Quiet, UnderWay
<1>1. TypeOK' /\ req' \in Requests BY DEF Listen, IInv, TypeOK
<1>2. OpenByStage' BY DEF Listen, IInv, OpenByStage
<1>3. main \in Wired /\ main' = main BY DEF Listen, IInv, ListensWhenRight
<1>4. FailureClosesStores'
  BY <1>3 DEF Listen, IInv, FailureClosesStores, FailedOpeningLeavesNothing,
              Abandoning, Wired, Closing
<1>5. ListensWhenRight'
  BY <1>3 DEF Listen, IInv, ListensWhenRight, RolesAreRight
<1>6. NobodyIsLetIn' BY DEF Listen, IInv, NobodyIsLetIn
<1> QED BY <1>1, <1>2, <1>4, <1>5, <1>6 DEF IInv

LEMMA WorldInv ==
    IInv /\ (Signal \/ (\E b \in Backend : Toggle(b)) \/ UNCHANGED vars) => IInv'
<1> SUFFICES ASSUME IInv, Signal \/ (\E b \in Backend : Toggle(b)) \/ UNCHANGED vars
             PROVE  IInv'
  OBVIOUS
<1> USE DEF Running, Exit, config, server, Quiet, UnderWay, Signal, Toggle, vars
<1>1. TypeOK' /\ req' \in Requests BY DEF IInv, TypeOK
<1>2. OpenByStage' BY DEF IInv, OpenByStage
<1>3. FailureClosesStores'
  BY DEF IInv, FailureClosesStores, FailedOpeningLeavesNothing
<1>4. ListensWhenRight' BY DEF IInv, ListensWhenRight, RolesAreRight
<1>5. NobodyIsLetIn' BY DEF IInv, NobodyIsLetIn
<1> QED BY <1>1, <1>2, <1>3, <1>4, <1>5 DEF IInv

\* A step of one request leaves main, the pools and the listener alone, so the
\* invariant is about the request only.
LEMMA RequestInv ==
    ASSUME IInv, UNCHANGED <<main, server, open, failing, up, config, ended>>,
           NEW r \in Request, NEW q, req' = [req EXCEPT ![r] = q],
           q \in [kind : Kinds, n : Nat, answer : Answers],
           q.n <= Len(Plan[q.kind]), q.answer = "ok" => q.n = Len(Plan[q.kind]),
           listener # "none", main \in Closing => timedOut \/ UnderWay(r)
    PROVE  IInv'
<1> USE DEF config, server
<1>1. \A s \in Request : req'[s] = IF s = r THEN q ELSE req[s]
  BY DEF IInv, Requests
<1>2. req' \in Requests BY DEF IInv, Requests
<1>3. q.n \in 0 .. Len(Plan[q.kind]) BY PlansArePools
<1>4. TypeOK' BY <1>1, <1>3 DEF IInv, TypeOK, Kinds, Answers
<1>5. OpenByStage' BY DEF IInv, OpenByStage
<1>6. FailureClosesStores'
  BY DEF IInv, FailureClosesStores, FailedOpeningLeavesNothing
<1>7. ListensWhenRight' BY DEF IInv, ListensWhenRight, RolesAreRight
<1>8. NobodyIsLetIn' BY <1>1 DEF IInv, NobodyIsLetIn, Quiet
<1> QED BY <1>2, <1>4, <1>5, <1>6, <1>7, <1>8 DEF IInv

LEMMA AcceptInv ==
    ASSUME IInv, NEW r \in Request, NEW kind \in Kinds, Accept(r, kind)
    PROVE  IInv'
<1> DEFINE q == [kind |-> kind, n |-> 0, answer |-> None]
<1>1. /\ q \in [kind : Kinds, n : Nat, answer : Answers]
      /\ q.kind = kind /\ q.n = 0 /\ q.answer = None
  BY DEF Answers
<1>2. q.n <= Len(Plan[q.kind]) /\ q.answer # "ok"
  BY <1>1, PlansArePools, NoneIsNoAnswer
<1>3. main \notin Closing /\ listener # "none"
  BY DEF Accept, IInv, NobodyIsLetIn
<1>4. req' = [req EXCEPT ![r] = q] BY DEF Accept
<1> HIDE DEF q
<1> QED BY <1>1, <1>2, <1>3, <1>4, RequestInv DEF Accept

LEMMA ServeInv ==
    ASSUME IInv, NEW r \in Request, Serve(r)
    PROVE  IInv'
<1> DEFINE p == req[r]
<1>1. p \in [kind : Kinds, n : Nat, answer : Answers] /\ p.answer = None
  BY DEF IInv, Requests, Serve, UnderWay
<1>2. p.n <= Len(Plan[p.kind])
  BY DEF IInv, TypeOK, Serve, UnderWay
<1>3. Len(Plan[p.kind]) \in Nat BY <1>1, PlansArePools
<1>4. listener # "none" /\ UnderWay(r)
  BY DEF Serve, IInv, NobodyIsLetIn, UnderWay
<1>5. CASE Finished(p)
  <2> DEFINE q == [p EXCEPT !.answer = "ok"]
  <2>1. q \in [kind : Kinds, n : Nat, answer : Answers]
    BY <1>1 DEF Answers
  <2>2. q.kind = p.kind /\ q.n = p.n /\ q.n = Len(Plan[p.kind])
    BY <1>1, <1>5 DEF Finished
  <2>3. req' = [req EXCEPT ![r] = q] BY <1>5 DEF Serve
  <2> HIDE DEF q, p
  <2> QED BY <1>2, <1>4, <2>1, <2>2, <2>3, RequestInv DEF Serve
<1>6. CASE ~Finished(p) /\ (Works(Plan[p.kind][p.n + 1]) \/ Optional(Plan[p.kind][p.n + 1]))
  <2> DEFINE q == [p EXCEPT !.n = @ + 1]
  <2>1. q \in [kind : Kinds, n : Nat, answer : Answers]
    BY <1>1
  <2>2. q.kind = p.kind /\ q.n = p.n + 1 /\ q.answer = None
    BY <1>1
  <2>3. p.n # Len(Plan[p.kind]) BY <1>6 DEF Finished
  <2>4. p.n \in Nat BY <1>1
  <2>5. req' = [req EXCEPT ![r] = q] BY <1>6 DEF Serve
  <2> HIDE DEF q, p
  <2>6. q.n <= Len(Plan[q.kind]) BY <1>2, <1>3, <2>2, <2>3, <2>4
  <2> QED BY <1>4, <2>1, <2>2, <2>5, <2>6, NoneIsNoAnswer, RequestInv DEF Serve
<1>7. CASE ~Finished(p) /\ ~(Works(Plan[p.kind][p.n + 1]) \/ Optional(Plan[p.kind][p.n + 1]))
  <2> DEFINE q == [p EXCEPT !.answer = "unavailable"]
  <2>1. q \in [kind : Kinds, n : Nat, answer : Answers]
    BY <1>1 DEF Answers
  <2>2. q.kind = p.kind /\ q.n = p.n /\ q.answer = "unavailable"
    BY <1>1
  <2>3. req' = [req EXCEPT ![r] = q] BY <1>7 DEF Serve
  <2> HIDE DEF q, p
  <2> QED BY <1>2, <1>4, <2>1, <2>2, <2>3, RequestInv DEF Serve
<1> QED BY <1>5, <1>6, <1>7

LEMMA NextInv == IInv /\ [Next]_vars => IInv'
<1> SUFFICES ASSUME IInv, [Next]_vars PROVE IInv' OBVIOUS
<1>1. ASSUME NEW r \in Request, Serve(r) \/ \E kind \in Kinds : Accept(r, kind)
      PROVE  IInv'
  BY <1>1, ServeInv, AcceptInv
<1> QED BY <1>1, MainStepInv, ListenInv, WorldInv DEF Next, Kinds

-----------------------------------------------------------------------------
(* The theorems *)

LEMMA InvMeans == IInv => PoolsOutliveRequests
<1> SUFFICES ASSUME IInv PROVE PoolsOutliveRequests OBVIOUS
<1>1. TypeOK BY DEF IInv
<1>2. FailedOpeningLeavesNothing BY DEF IInv, FailureClosesStores
<1>3. ServesWithRightStores
  BY DEF IInv, ListensWhenRight, Validated, ServesWithRightStores, RolesAreRight,
         RightPersist, RightLRU
<1>4. RequestsFindTheirPools
  <2> SUFFICES ASSUME NEW r \in Request, UnderWay(r), ~timedOut,
                      NEW i \in DOMAIN Plan[req[r].kind]
               PROVE  Plan[req[r].kind][i] \in open
    BY DEF RequestsFindTheirPools
  <2>1. req[r].kind \in Kinds
    BY DEF IInv, Requests, UnderWay
  <2>2. Plan[req[r].kind][i] \in Pool BY <2>1, PlansArePools
  <2>3. main \in {"wait", "shutdown", "drain"}
    BY DEF IInv, NobodyIsLetIn, ListensWhenRight, Wired, Quiet, UnderWay
  <2>4. \A p \in Pool : main \in Holding(p) BY <2>3 DEF Holding
  <2> QED BY <2>2, <2>4 DEF IInv, OpenByStage
<1> QED BY <1>1, <1>2, <1>3, <1>4 DEF PoolsOutliveRequests

\* Every state of the process satisfies the invariant of its stage (main.go and
\* redisstore.OpenStores together).
THEOREM Invariance == Spec => []IInv
<1>1. Init => IInv BY InitInv
<1>2. IInv /\ [Next]_vars => IInv' BY NextInv
<1> QED BY <1>1, <1>2, PTL DEF Spec

\* Whatever signals, backends and requests do, a request finds the pools it uses
\* open until the shutdown has run out of time, a failed opening leaves no store
\* behind, and nobody is let in before both stores were found to be what they
\* are for.
THEOREM PoolsOutlive == Spec => []PoolsOutliveRequests
<1>1. IInv => PoolsOutliveRequests BY InvMeans
<1> QED BY <1>1, Invariance, PTL
=============================================================================
