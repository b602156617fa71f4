# my-bbs in TLA+

my-bbs is a small invitation-only bulletin board: a Go server (Gin, GORM on
MySQL, two Redis instances) and a React client. This directory holds TLA+
modules of the parts of it in which requests, goroutines, tabs or answers
interleave, TLC configurations that check small instances of them, and proofs,
checked by TLAPS, of the safety of each of these parts, for instances of every size.

Everything is modelled from the code in `src/`. Where a module stands for
something outside it (MySQL, Redis, Go's runtime, `net/http`, React, the
browser), it keeps only what the code relies on, and says so in its header.

1. [The system](#1-the-system): components, state, interactions, hard behaviours
2. [The modules](#2-the-modules): what stands for what
3. [The runs](#3-the-runs): what each shows, and why its bounds are enough
4. [Fairness](#4-fairness)
5. [Disagreements with the code's own texts](#5-disagreements-with-the-codes-own-texts)
6. [The proofs](#6-the-proofs)
7. [What is not modelled](#7-what-is-not-modelled)
8. [The plan](#8-the-plan)
9. [Reading and running](#9-reading-and-running)


## 1. The system

| Component | Code | State it keeps | Operations |
|---|---|---|---|
| accounts and sessions | `internal/service/user_service.go`, `internal/auth`, `internal/authsession`, `internal/middleware/{auth,active_user}.go`, `gormrepo/user_repo.go` | `users` (password hash, `session_version`, status); JWTs in clients' hands; revocation keys in Persist Redis | login, authenticate (`Auth`, `OptionalAuth`), `RequireActiveUser`, change password, logout, mute, unmute, reset password; profile; avatar, one change a day |
| registration and invitations | `user_service.go` (Register, GenerateInvitation), `gormrepo/invitation_repo.go` | `users.invite_code`, `invitations` (creator, user, used) | register (one transaction), generate a code |
| posts | `service/post_service.go`, `gormrepo/post_repo.go` | `posts` (author, texts, visibility, `pinned_until`, soft deletion) | create, edit some fields, set visibility, pin, unpin, delete |
| likes, comments, cached counts | `like_service.go`, `comment_service.go`, `post_service.go`, `cache/post_counts.go`, their repositories | `post_likes`, `comments`; counts in LRU Redis with a TTL | like, unlike, comment, uncomment; read counts through the cache; invalidate |
| lists, hot posts, search, pagination | the read paths of `post_service.go` and `comment_service.go`, `search_service.go`, `search_handler.go`, `hot_post_service.go`, their readers in `gormrepo`, `pkg/pagination`, `handler/httprequest/{page,search}.go` | none in the database; the statements, goroutines and deadline of a request, and the scroll of its client | page through a list, open a post or its comments, search users and posts at once, rank hot posts |
| messages to administrators | `service/message_service.go`, `gormrepo/message_repo.go` | `messages` | send (asks only that the user exists, so the muted can appeal), list one's own, list all (active administrators) |
| rate limiter | `internal/middleware/rate_limit.go` | token buckets per client and tier, an LRU list, shared overflow buckets; in memory, behind one mutex | `allow` |
| asynchronous logger | `internal/logger/logger.go` | a channel, a consumer goroutine, a `closed` flag, two mutexes, the file | `Write`, `Close` |
| Redis stores and the process | `cmd/main.go`, `internal/redisstore`, `internal/server` | three connection pools, the listener, the shutdown context | start with checks, serve, drain, close |
| web session | `web/src/context/AuthContext.tsx`, `web/src/lib/api.ts` | `localStorage` (shared by tabs), the session state and `tokenRef` of a tab | log in, register, bootstrap, refresh, change password, log out, 401 |
| web pages | `web/src/pages/*.tsx` | what a page shows, its request counter, its dialogs | load, load more, refresh, the operations on what is shown |
| request ids, request logging, responses | `internal/middleware`, `pkg/response` | none between requests | formatting |

**How they interact.** A request passes the rate limiter, then `Auth` or
`OptionalAuth` (a lookup in `users`, a lookup in Persist Redis), then
`RequireActiveUser` where it writes, and then its handler, which reads and
writes MySQL in separate statements. Only registration is a transaction. The
services of likes, comments and posts invalidate the cached counts after they
have written. All log lines go through the asynchronous logger. `main` opens
what all of them use and closes it after the requests have ended. In the
browser the session tells every page whose answers may still be applied.

**What is hard here**, and where it is modelled:

* *A check in one statement, the write in a later one.* Nearly every handler.
  Password writes compare `session_version`; pins compare `visible`; other
  columns are protected by being written one at a time; texts of posts are not.
* *Two stores that fail independently.* A row changes in MySQL, then a key in
  Redis: the DEL may fail, and a reader may store what it loaded before.
* *A read of several statements over rows that move.* A post is checked, and then its
  comments are read; pages are asked for by OFFSET while posts come and go; a search
  has two goroutines, a shared context and a deadline.
* *Lost acknowledgements.* A statement is committed and the request answered
  with an error.
* *Time.* A revocation expires with its token, computed from another clock
  reading; token buckets are used in another order than their times.
* *Goroutines.* Send on a channel against `close`, a full queue, two closers,
  a shutdown while requests hold pools.
* *Answers out of order in the browser*, between pages, between accounts and
  between tabs.

**What makes each component correct.**

* Accounts: a token works only while the password it was obtained with is in
  force, and never after an acknowledged logout; concurrent password writes do
  not overwrite each other; only administrators manage, and nobody manages
  them; every request is answered, also when Redis is down. An avatar changes once
  in 24 hours, and nobody who may change it is refused.
* Registration: a code makes at most one account, a failed registration gives
  it back, and a conflict is only reported where there is one.
* Posts: a private post is not pinned; a column changes only by the operation
  that is about it; a deleted post stays as it is; answers are true.
* Likes and comments: nothing is added to a post that is not public; a wrong
  cached count has a cause and disappears.
* Logger: no panic, no line lost or written twice, no write to a closed file,
  no call that never returns.
* Rate limiter: neither a client's own bucket nor the one that clients share grants more than the rate of its tier; `Retry-After` is long enough;
  memory is bounded.
* Process: pools outlive the requests; a failed start leaves no store open;
  the roles of the two Redis instances are what they must be before the first
  request; a signal ends the process.
* Web session: a tab is one account's, and only ends a session for a reason.
* Web pages: what is shown belongs to the address, the reader and the list, and
  an operation is sent for what is shown.
* Lists and search: nothing hidden or deleted is shown, nothing that stayed in a list is
  missed without a cause, a page that is offered can be asked for, a search reports its
  first failure and leaves no goroutine behind, an excerpt shows the keyword.


## 2. The modules

One model step is one statement of SQL, one Redis command, one critical section
or one callback of the browser. `pc[r]` names the statement a request will
execute next and `req[r]` its local variables. An `Abort` (or `Fail`) is a
statement that returns an error, with or without having taken effect.

| Module | Models | Uses |
|---|---|---|
| `Sessions` | abstract: what accounts promise, with each operation atomic | |
| `Accounts` | `UserService` and the two auth middlewares, statement by statement | `Sessions` by refinement |
| `Members` | profile, avatar and messages, behind `Auth`, with every step of `Accounts` | extends `Accounts` |
| `Registration` | the registration transaction with its InnoDB locks, and the generation of codes | |
| `Posts` | every operation that writes `posts` | |
| `Pages` | functions: what pages may be asked for, where they start, what is offered; excerpts; the order of hot posts | |
| `Feed` | readers of lists, posts, comments, hot posts and searches, with every step of `Posts` | extends `Posts` and `Pages` |
| `Interactions` | likes, comments, post deletion, cached counts | |
| `InteractionsHistory` | adds the history that explains wrong counts and barred requests | `Interactions` |
| `InteractionsFresh` | adds the history of counts a reader may be shown | `Interactions` |
| `RateLimiter` | `rate_limit.go` | |
| `AsyncLogger` | `logger.go` | |
| `Lifecycle` | `main`, `OpenStores`, the server goroutine, the shutdown | |
| `WebTokens` | the tokens of the client, and none | |
| `WebSession` | `AuthContext` and `api.ts` in several tabs | extends `WebTokens` |
| `WebPages` | the pages of one tab | extends `WebTokens` |
| `RegistrationProofs`, `AsyncLoggerProofs`, `LifecycleProofs`, `RateLimiterProofs` | theorems about the module they are named for | that module |
| `MembersProofs` | theorems about `Accounts`, its refinement of `Sessions`, and `Members` | `Members` |
| `FeedProofs` | theorems about `Pages`, `Posts` and `Feed` | `Feed` |
| `InteractionsProofs` | theorems about `Interactions` and its history | `InteractionsHistory` |
| `WebProofs` | theorems about `WebSession` and `WebPages` | both |
| `MC*` | small instances for TLC | |

The map of definitions to source lines is in `PROJECT.json`, under `map`.

**Accounts.** `password`, `version` and `status` are columns of `users`.
`tokens` are the JWTs that were handed out: owner, JTI, version, expiry, and
`proven`, the password the login compared, which the real token does not carry
and the properties need. `revokedUntil[id]` is the expiry of a revocation key,
`persistUp` whether Persist Redis answers. A login is *find the row*, *compare
and sign what was read*; a change is *find*, *compare-and-set on
`session_version`*, *issue*; a logout *parse*, *SET with the remaining life*.
A password is a value, and bcrypt is equality. A request may give up at any
statement (`Abort`), and the password CAS or the SET may have been executed.

**Members.** Where `Accounts` lets a request of kind `me` through, `Members` begins a
handler, whose statements go on between those of the other requests: `Admit` is the last step
of `Auth` together with `RequireActiveUser` on the routes that have it. The avatar is the one
operation with a protocol of its own: *read the row*, *read the clock*, a conditional UPDATE, and,
when that touched no row, a reread, a second UPDATE without the comparison of URLs and a last
reread. `Folded` is the collation of `avatar_url`: `utf8mb4_bin` in production, where
it is the identity, and whatever AutoMigrate chose in development, which is why the second
UPDATE exists (`user_repo.go:161`). A URL is a value that has passed `normalizeAvatarURL`.
A nickname with its introduction is named by the request that wrote it, a message too. A handler ends
`refused` only for the limit; all other answers are `answered`, because nothing depends on which.

**Registration.** A registration claims the code (`UPDATE ... WHERE used_by IS
NULL`, which locks the row), inserts the user (which waits for an uncommitted
duplicate in either unique index), attaches the user to the code and commits;
a failure at any of them rolls the transaction back. `CodeLocked` and `NameLocked`
say what a transaction holds. A generation checks status, age and posts, and
then draws codes until one is free, at most `Tries` times. `Elsewhere` is what
the rest of the system does to the rows meanwhile.

**Posts.** MySQL reports as affected only the rows whose values *changed*, so
`AffectedRows` may be zero for an update that repeats what is there; the
repository then looks again whether the row exists (`errors.go`). Whether
`update_time` makes the difference is left open, because it depends on the
second it falls into.

**Pages.** Functions of a page number, a size and the limits `L` of the list (ordinary lists and
searches differ in nothing else). `Raw` is what a query string can hold: an integer of the
server, nothing, or something else. `IsBindable` is the check of the handler, `Normalize` that of the
service, `NextIsAllowed` the one before another page is offered.

**Feed.** A reader `d` is a client with one page of the site open: `ask[d]` what it asks for,
`page[d]` how far it has scrolled, `shown[d]` what its screen has; `rows`, `full` and `search` are the
locals of the request under way. A query sees one state of the table; checks, queries, the filling in of
authors and counts (`fill`) are steps, and the writers of `Posts` act between them. Ids are numbers in the order of
`create_time`. `LIKE` is membership of the keyword in the texts of a post, and of the four ranks of a search two
are left, the title itself and the rest. The users half of a search has goroutine, error
and end, but no rows. Which posts are young enough to be hot, and their counts, are open.
`seen`, `kept` and `gaps` are ghosts: what the reader was entitled to since its request arrived,
what has been in its list ever since it began, how often that list moved up.

**Interactions.** A cached count is a key with a remaining life, per metric and
post. A read is MGET, load of the misses, SET; a write is the row, then DEL, then
the count that is answered. With `CacheFails` any of the Redis commands may fail,
which the code hides from its callers.

**RateLimiter.** `allow` is one step, because it is one critical section; the
request has read the clock in an earlier step, `Arrive`. Tokens are counted in
units of 1/Window, so refilling is exact: the code's `float64` rounding is left out. A
bucket is that of a key, or `Shared(tier)`, which `overflow` holds. The histories tell for each what it
granted, when it was last used or forgotten (`touched`), and by how many seconds in all
overtaken requests set its time back (`rewound`).

**AsyncLogger.** One step per lock operation, channel operation, write and flag.
A writer-preferring `RWMutex` is modelled as such: after `Lock` was called no
new reader enters. The standard logger's own mutex is not there, since the same
writer is also handed to Gin.

**Lifecycle.** `main` walks through its numbered steps. A Redis address leads to a
process (`at`), and both may lead to the same; `conf` is what INFO and CONFIG say of
each. Requests use pools according to `Plan`. `StillWanted` and the waiting of
`Shutdown` stand for `net/http`. The settings of a Redis process do not change
while the server starts.

**WebSession.** A tab has its state as set, its state as rendered, and
`tokenRef`. A call is an operation with its answers still to come. All tabs share
`storage`, and the server accepts a set of tokens that it may shrink at any time.

**WebPages.** Six kinds of pages share one shape: a subject, a list of pages, a
counter of requests that makes older answers stale, a dialog, and a session that
is compared with the current one when an answer arrives. `here` says that the
component that asked is still mounted, `current` that its counter has not moved on.


## 3. The runs

| Run | Instance | Distinct states | It shows |
|---|---|---|---|
| `accounts` | 3 requests, of `Members` | 531 000 | session safety, CAS, authority, refinement of `Sessions`, the avatar limit, answers |
| `registration` | 3 requests, 4 names, 2 codes | 93 000 | codes and accounts correspond; conflicts are real |
| `posts` | 2 requests, 3 posts, a reader, of `Feed` | 899 000 | who changes which column, what answers mean, what a reader is shown |
| `posts_two_edits` | 2 edits | violated | a partial edit undoes another (section 5) |
| `async_logger` | 2 producers, 2 closers | 25 000 | no panic, no loss, no late write, everything returns |
| `interactions` | 3 requests, failing cache | 281 000 | barred writes, explained counts, healing |
| `interactions_fresh` | a like, 2 readers | violated | an old count is cached again (section 5) |
| `rate_limiter` | 2 requests, 2 clients, room for 1, 4 s | 1 030 000 | rate and Retry-After across overtaking, forgetting and overflow |
| `web_session` | 2 tabs, 2 calls | 271 000 | no mixed sessions, no session ended without reason |
| `web_pages` | 6 pages, 2 requests | 878 000 | what is shown belongs there |
| `web_pages_status` | the same | violated | a mute is laid over another user (section 5) |
| `lifecycle` | 2 requests, 2 Redis processes | 278 000 | pools, failed starts, roles, shutdown |

**The bounds.** Every request, call or goroutine is issued once per instance, of a
kind chosen from its workload, at any moment. Interference needs one step of each
of two or three requests, and each workload is chosen so that the three can be one
of every conflicting combination.

* `accounts`: one administrator and one ordinary account, each with an old
  session, two passwords; requests of `{change, unmute}`, `{login, reset, logout, mute, me,
  browse}` and `{me}`. Between them are every pair of password writes, and
  a request that arrives with any token of any age. `TokenLife = MaxTime = 1`
  brings tokens to their expiry. Behind `me` the last two requests both change an avatar, to
  URLs that are equal, equal up to case, or different, with `Interval = 1`: the second UPDATE and both
  rereads are reached. Three password writes in a row, and three changes of one avatar, are beyond this
  instance; the theorems cover them.
* `registration`: `{register}`, `{register, generate}`, `{generate}`, so two
  registrations can share a code or a username, or a drawn code can collide with
  an existing one. `Tries = 2` (10 in the code) reaches both a retry and giving up.
* `posts`: two posts of one author, one of them pinned, and one that may be created. One request
  hides, shows, deletes or unpins the first or writes the third, the other pins, edits or deletes. One
  duration and `MaxTime = 1` let a pin end; `Permanent` is the end of a permanent pin. A pin
  reaches its second attempt; giving up after it takes four writers, and is left to the theorems. The reader opens anything, with pages of one or two posts; lists
  are cut after the third page of one post, searches after the first. Two writes are enough to move a list by two places
  while three posts are scrolled through.
* `interactions`: two users, two posts, one comment id, three requests; a reader
  reads one metric of all posts. `TTL = 1`.
* `rate_limiter`: writes (two in three seconds, one at once) of one address and one user,
  whose keys differ, with one entry for both, so that the other falls to the shared bucket. `IdleTTL = 2`,
  `MaxTime = 4`: a bucket is forgotten at 2 and 4, made anew and used up again, and requests of one time reach it
  after those of another. Tiers have nothing in common but the map, where a key of another
  tier is like that of another client; the theorems are for all of them. One tick is a second:
  the model lets requests overtake each other by whole seconds, where the code's
  window between `time.Now` and the lock is microseconds, so it is the harder case.
* `async_logger`: a queue of one place that two producers with two writes each
  can fill, so the synchronous fallback is taken; two closers.
* `web_session`: two tabs, two accounts, two tokens, two calls and a bootstrapping
  getMe per tab; `web_pages`: two tokens (a member, an administrator), two ids, lists of
  two pages, one change of the content (`MaxVersion`), two requests under way, which
  is what it takes for one answer to be overtaken by another.
* `lifecycle`: two Redis processes with every configuration, reached by either address;
  three plans of requests (`member`, `public`, `ready`), two at a time.

`CHECK_DEADLOCK FALSE` stands where the system stops: when every request of an instance
was answered, when the goroutines are done, when the process has ended.

**Symmetry** is used where requests, slots, tabs, ids or tokens are interchangeable,
and only in runs without liveness.

**Properties worth a word.**

* `TokenBindsPassword`, the reason the compare-and-set exists: a login that read the
  row before a change signs the old version, so its token is dead on arrival.
* `LoggedOutStaysOut` excepts a token that expires between `ParseClaims` and
  `EXISTS`: its record may be gone an instant before the request is let through.
* `SupersededStaysOut` is about requests that arrive after a replacement. A request that
  was let in before may finish; the code accepts that, as it accepts that a user
  muted after the check finishes one write.
* `AvatarLimitIsExact` says both halves: two changes lie the interval apart, and who is refused
  does have a change within it. The second is what the second UPDATE and the rereads are for.
* `MembersAreAnswered`: every request, with its handler, comes to an end for good.
* `NothingHiddenIsShown` allows what was visible at *some* moment of the request. The code
  reads a post and later its comments, and the post may be hidden in between; nothing promises more.
* `EachGapHasItsCause` is what OFFSET gives: a post that stayed in the list is missed only when another one left it, or
  was pinned or unpinned, at most one for each such event. New posts make a reader see one twice, which the client merges.
* `OffersAreHonoured` relates the check in front (`httprequest`) to the offer behind (`pagination.NewResult`),
  which round the same limit in two ways.
* `SearchesEndWhole`: `errOnce` keeps the cancellation of the second query from hiding what went
  wrong in the first.
* `ConflictsAreReal`: the code answers *every* duplicate key of the transaction as "username
  exists", and there is a unique index on `invite_code`. It is true because the code is
  claimed before the INSERT.
* `AcceptedIsWritten` does not say *in which order*: the synchronous fallback
  overtakes lines in the queue, and nothing in the code says otherwise.
* `WrongCountsAreExplained`: a cached count that is wrong outside a write was
  stored by a reader that had loaded before the write, or survived a failed DEL;
  `CacheHeals`: neither outlives its TTL.
* `BarredRequestsWriteNothing` is about the two checks in front of a like or a comment. A post that is hidden before
  the request arrives stays out; a user who is muted after `RequireActiveUser` looked is still stopped by
  `requireActiveActor`. Whoever is muted later finishes the one write under way.
* `PoolsOutliveRequests`, `PagesShowTheirSubject`, `SessionIsCoherent`, `WrongCountsAreExplained` and `SustainedRate` have the type
  invariant of their module as their first conjunct.
* `SustainedRate` bounds each bucket by its burst, the rate times the time since the start, and the rate times the
  seconds (`rewound`) that overtaken requests set its `updatedAt` back by: those are refilled twice, and
  nothing is refilled more often. The bucket that the clients of a tier share is bounded in the same way for all of them
  together, so a shared bucket that is made anew for each request breaks it. The bound is per bucket and not per client:
  who is moved from the shared bucket to one of its own, which is full, or back, may use up both.
  For a client's own bucket it is conditional on
  `IdleTTL * Requests >= Burst * Window`, which the defaults satisfy and the configuration does not check: otherwise
  a client is given a full bucket by waiting less than it takes to fill one.
* `SessionsHaveReasons` lists the reasons a session ends for, among them one that
  surprises: a registration whose automatic login fails clears whatever session the tab
  has by then (`AuthContext.tsx:146`).


## 4. Fairness

| Specification | Assumed | Why the code justifies it | Not assumed |
|---|---|---|---|
| `Members!FairMembersSpec`, `Registration!FairSpec` | weak fairness of the steps of each request (`Goroutine(r)`, which is `Auth` and then the handler; `Step(r)`) | a handler runs until it returns; every call has a timeout, after which it is a step that failed | that a request comes, fails or succeeds, that Redis returns, that time passes |
| `AsyncLogger!FairSpec` | WF of each goroutine's steps that do not wait for a caller | the Go scheduler runs runnable goroutines; locks and channels are released by steps that are fair themselves | that anybody logs or closes |
| `InteractionsHistory!FairHSpec` | WF of steps of requests and of `Tick` | Redis expires keys as time passes | that requests come, that the cache works |
| `Lifecycle!Spec` | `WF_vars(MainStep)` | `main` is scheduled and the timer of the shutdown fires | anything of requests, backends or signals |

The other specifications are safety only.


## 5. Disagreements with the code's own texts

Three runs look for a counterexample to what a comment or the README of the
repository says, and find one.

* **A partial edit undoes another** (`posts_two_edits`). `UpdatePost`: "fields that are not
  provided keep their value" (`post_service.go:204`, also `readme.md:527`). It reads the row,
  lays the given fields over it and writes *both* columns. Two edits of
  one author, one of the title and one of the body, both read the old row, and the second
  writes the old value over what the first has changed.
* **An old count is cached after the invalidation** (`interactions_fresh`). `like_service.go:77`:
  the cache is invalidated first, so that the old value is not exposed any longer. A reader that
  loaded before the write stores the old count after the DEL, and later readers are shown it for
  up to 30 seconds, without any failure.
* **A status is laid over another user** (`web_pages_status`). `UserPage.tsx:38`: the old subject is
  cleared so that answers out of order do not act on the wrong user. The answer to
  muting A, arriving on the page of B, sets the status shown for B, and the button then offers the
  opposite of what B needs.


## 6. The proofs

Eight modules prove safety, for any sets of users, requests, goroutines, codes, posts, readers, clients or tabs,
and any bounds of time, retries, pages or queues. An
invariant of a run is proved as `Spec => []Inv`, an action property as `Spec => Prop`. The runs `accounts` and
`posts` check the specifications `FairMembersSpec` and `FeedSpec`; `MembersKeepAccounts` and `ReadersOnlyRead` carry the theorems
about `Accounts` and `Posts` over to them. Every invariant and action property of a passing run has
a theorem.

| Module | Theorem | States |
|---|---|---|
| `MembersProofs` on `Accounts` | `TypeCorrect` | `TypeOK` |
| | `TokenBinding` | `TokenBindsPassword` |
| | `LogoutIsFinal` | `LoggedOutStaysOut` |
| | `ReplacementEndsSessions` | `SupersededStaysOut` |
| | `PasswordOwnership` | `PasswordWritesAreOwned` |
| | `ManagementAuthority` | `ManagementIsAuthorised` |
| | `Refinement` | `ImplementsSessions`: `Accounts!Spec => Sessions!AbsSpec`, under its refinement mapping |
| on `Members` | `MembersKeepAccounts` | `MembersSpec => Accounts!Spec` |
| | `MembersTypeCorrect` | `MembersTypeOK` |
| | `AvatarLimit` | `AvatarLimitIsExact` |
| `RegistrationProofs` | `TypeCorrect` | `TypeOK` |
| | `OneAccountPerCode` | `InvitationMatchesAccount` |
| | `CodesAreSecret` | `CodesAreHandedOutOnce` |
| | `EntitlementLasts` | `InvitersAreEntitled` |
| | `ConflictsAreAboutNames` | `ConflictsAreReal` |
| | `AccountsStay` | `AccountsAreKept` |
| `FeedProofs` on `Pages` | `NormalizedIsAllowed` | whatever numbers come in, `Normalize` makes an allowed query |
| | `OffsetsAreBounded` | no offset is behind the limit, and no product overflows |
| | `AcceptedIsUnchanged` | what the handler accepts, the service leaves alone |
| | `OffersAreAccepted` | the page after one that may be offered is accepted |
| | `RowsAreReachable` | every row up to the limit is on a page, of any size |
| | `ExcerptShowsMatch` | an excerpt is in its text, short enough, and has the keyword |
| | `HotPostsAreOrdered` | the comparison of hot posts is a strict total order |
| on `Posts` | `TypeCorrect` | `TypeOK` |
| | `HiddenIsUnpinned` | `PrivateIsNotPinned` |
| | `ColumnOwnership` | `ColumnsHaveOwners` |
| | `DeletionIsFinal` | `DeletedIsFinal` |
| | `AnswersTellTheTruth` | `AnswersAreTrue` |
| on `Feed` | `ReadersOnlyRead` | `FeedSpec => Posts!Spec` |
| | `FeedTypeCorrect` | `FeedTypeOK` |
| | `HiddenStaysHidden` | `NothingHiddenIsShown` |
| | `GapsHaveCauses` | `EachGapHasItsCause` |
| | `OffersHold` | `OffersAreHonoured` |
| | `SearchesEndTrue` | `SearchesEndWhole` |
| `AsyncLoggerProofs` | `TypeCorrect` | `TypeOK` |
| | `NeverPanics` | `NoPanic` |
| | `FileIsClosedLast` | `NobodyWritesToClosedFile` |
| | `NothingAcceptedIsLost` | `AcceptedIsWritten` |
| `InteractionsProofs` | `TypeCorrect` | `TypeOK` |
| | `BarredWriteNothing` | `BarredRequestsWriteNothing` |
| | `WrongCountsExplained` | `WrongCountsAreExplained` |
| `LifecycleProofs` | `PoolsOutlive` | `PoolsOutliveRequests` |
| `RateLimiterProofs` | `Sustained` | `SustainedRate` |
| | `NoWait` | `NoWaitIsWasted` |
| `WebProofs` on `WebSession` | `Coherence` | `SessionIsCoherent` |
| | `Reasons` | `SessionsHaveReasons` |
| on `WebPages` | `PagesKeepTheirSubject` | `PagesShowTheirSubject` |

**Assumptions**: `ConstantsOK` of each module (`MembersConstantsOK`, `FeedConstantsOK`, `NumbersOK`, `WorkloadOK`, `ConfigOK`,
`NamesOK`), about its constants, which TLC evaluates in the
module's run. They say what the constants are (administrators are users, the capacity of the
channel is positive, a tier of the limiter has a positive burst, window and number of requests, as `NewTieredRateLimiter` demands) and nothing about behaviour.
The assumptions `NoneIsNoComment`, `NoneIsNoAnswer`, `NoneIsNoGetMe`, `NoneIsNoCause` and `NoneIsNoAsk` only say that
`None`, which stands for nil, is none of the values it stands beside.

None of the invariants is inductive alone. Each module names the invariant that is, in parts.

**Accounts.** The inductive invariant consists of

* `TypeOK`;
* a part for the tables: a token's version is at most its account's, tokens of the current
  version were proven with the password in force, identities of tokens are given once, a
  stored revocation covers its token's life, an acknowledged logout has one;
* a part `Local(r)` for each request: what its local variables and its `pc` together say about the
  tables. A login that is about to sign has either read the current version, and then
  the current password, or an older version, and then its token will be dead; a password change
  that will compare `session_version` has checked the old password *against the row of that version*;
  a request past the check of a role is an administrator's, and so on.

What lets one request's part survive the steps of all the others is a lemma about
how the tables grow: versions only increase, a password changes only with its
version, tokens are only added, a revocation once stored stays until it expires.
Each `Local` is preserved under every such growth; each action is shown to be a growth, and to
establish the part of the request that took it. The action properties follow from the
invariant and one case split of `Next`.

*The refinement.* Four statements are the operations of `Sessions`: the one that issues a token, the UPDATE of a
password change, the UPDATE of a reset, and the SET of a revocation. The clock ends sessions
(`End`), and so does a write that raises a version. Every other step stutters, because what is mapped (the live tokens, the ids
that are used, the passwords) is as it was. The invariant is needed twice: `LoginReads` shows that a token
whose version is current was opened with the password in force, `TokensUnique` that its id is new. A login that
loses against a password change issues a token that was never live, which the abstract login allows.

**Members.** `avatar_updated_at` is never cleared and never goes back (`StampsGrow`), so what a handler knows of it
stays true: the change it read is the last one or an older one (`StampIsPast`), and where only the URL can have
saved an UPDATE, the limit is used up (`LimitIsUsed`). Each handler step is shown to preserve these, to be such a
growth, and to keep the two halves of the limit; a step of `Accounts` leaves the columns alone.

**Registration.** A transaction in flight has made its code and the accounts disagree, so
`InvitationMatchesAccount` cannot be inductive as it stands. `Holds(r)` says exactly how far transaction `r`
has come with the code it holds (claimed; claimed and an account there; claimed, an account there
and attached), `Exclusive` that no two hold the same code, and `Consistent(c)` is the property for a code
nobody holds. `Inviters` and `Handed` do the same for the generation of codes. A step touches one
code at most; the lemma `OneCode` carries everything over about the other codes, and is applied to
each statement and to the rollback. `ConflictsAreReal` then is a consequence: at the INSERT the
transaction holds its code, `Holds` says that no account has it, so the duplicate key is the username.

**Posts.** `Entitled(r)` keeps what the earlier statements of a request have found out and its write
relies on: the post it read exists and is by this author, the actor of a pin is an administrator, a
deletion is by either. It survives the other requests because a stored post stays in the table and keeps
its author (`Grows`). What does *not* survive, the visibility a pin has read, is not in
the invariant: the WHERE clause of the pin checks it again, and `PrivateIsNotPinned` follows from that alone.

**Feed.** Each reader has an invariant of its own: what it asks for and which statement may follow (`KnowsItsAsk`); the
rows it has read it was entitled to since its request arrived (`WasEntitled`); how its goroutines ended is
accounted for by their first error, which is never the cancellation (`KnowsItsError`); its page may be asked for
(`MayAsk`). The first and the last rest on the theorems about `Pages`, the second on `Listing` being readable in the state it is read in.
A step of a writer changes what is readable, and `seen` with it (`WriterKeeps`).

*Gaps.* A list is a set with an order, the place of a row the number of rows before it; both are counted, so the
argument is about cardinalities and needs no recursion. Of the rows that stay in the list and keep their order,
those that come to stand among the first `n` are no more than those that have left the first `n`: that is the
lemma the rest hangs on, for any two sets and orders. `ScrollInv(d)` then says of every reader that the rows before its page
which were there all the while and which it has not been shown are at most `gaps[d]`, the rows that have left the list or
changed their place; and the same with its page once that is read. A writer's step can make `n` rows slip forward only
by counting `n` gaps; a page read moves the boundary by the rows it shows.

**AsyncLogger.** The safety part relates the program counters to the lock, the flag and the
channel: whoever is between the check of `closed` and the end of its `Write` holds the read
lock (`Locks`), so nobody sets `closed` meanwhile; only the goroutine that set it closes the channel; the file
is closed after the consumer is done, and that is after the channel is closed and empty (`Shutdown`). The part
`Lines` says that every accepted line is in exactly one of the channel, the consumer's hand and the file. When
the consumer is done the first two are empty, which is `AcceptedIsWritten`.

**Interactions.** `Local(r)` says what a request in flight knows: whom and which post it is about, the metric it will
invalidate, and, once a deletion has found its comment, that the comment is one of its post. That is enough to
tell which count a statement can change: only the one whose key its own request will delete (`WriteOutdates`). So a
count that becomes wrong awaits its invalidation, or was stored by a reader that had loaded it before; a DEL
that fails leaves it excused. The other property holds because the check of the post and that of the actor are looked
at *after* what barred the request: whoever leaves them found the post public, or itself not muted.

**Lifecycle.** The invariant says stage by stage of `main` which pools are open (`OpenByStage`), that a failure while opening
the stores closes those that are open (`FailureClosesStores`), that the listener is started only behind the check of the
roles (`ListensWhenRight`), and that from `Shutdown` on nobody is let in, so that behind the drain no request is left or
its time was up (`NobodyIsLetIn`). `PoolsOutliveRequests` is not inductive without the third and fourth: a listener
that serves before the pools are open, or after they are closed, violates it only when the next request comes.

**RateLimiter.** `Seen(b)` is a bucket's time and the seconds it was set back by, together: a use of the bucket adds to
it exactly what the bucket is refilled for, whichever way the time goes. For each client's bucket
`Accounted(k)`: what was granted, and what the bucket still holds, are together no more than its burst and what flows in
in `Seen(k)`; when a bucket is forgotten, the time that
passed has paid for what it granted. That is where the code's idle time matters: a bucket that
could be forgotten before it was full again would grant its burst anew, so `SustainedRate` speaks of policies with
`ForgetsOnlyFull`. `SharedAccounted(t)` is the same of the shared bucket of a tier, which is never forgotten and needs no
such condition. `WillHold(k)` is the promise of a refusal: at the time it has named, the bucket holds a token. The
products are of variables, which SMT does not decide, so every step of arithmetic is a lemma about numbers.
`pruneIdle` removes a prefix of the list: its lemmas say that the list stays the keys of the map, each once.

**WebSession.** The getMe a tab waits for is the one for the session it has rendered (`BootsForShown`), and a tab that
waits without one is about to render another token (`WaitsForToken`); an operation past its login has a token
(`CallsHaveTokens`); the server accepts only tokens it has issued (`ServerInv`). `RefMatchesSession` makes the
guard of a late answer, which looks at `tokenRef`, a guard about the session. The reasons for which a session ends
are shown of each action from there.

**WebPages.** `PagesInv`: a list is a run of pieces, from the first one on, about one topic (the account, user or query; for the
feed its edition), the current one if anything more will be added (`ListInv`). At most one load is still waited for, since
every load puts all earlier ones out of date and "load more" is closed while one is under way; its
number and topic fit what is shown (`LoadsInv`). Requests remember the page they come from (`RequestInv`).
The pages of a user and of a search, which keep their state when their address changes, and those that
depend on the session (me, messages) clear their list before the topic changes. The feed keeps the old
rows until the new ones are there, which is why its list may be of a past edition, but then offers no more of it. The page of
a post compares no generations and is exempt (section 7).

**Only model-checked**: liveness (`MembersAreAnswered`, `RequestsAreAnswered`, `CallsReturn`, `CacheHeals`, `StopsWhenAsked`; fairness
and ENABLED are beyond TLAPS here), and the three properties that the runs of section 5 refute. Of
`InteractionsFresh`, whose property is one of those three, nothing is proved.


## 7. What is not modelled

* *Of the lists*: the text a `LIKE` pattern matches and its escaping, the window of two days of hot posts, the page of
  an own list by two clients at once. Rows of `users` never go, so the look-up of the user of a list is left out.
* *Normalisation of avatar URLs and profile texts*: values that have passed it.
* *Request ids, request logging, responses*: no state.
* *A crash of Persist Redis that loses the last second of its AOF*: the deployment chooses
  `everysec`, and a logout in that second is then lost. Redis only becomes
  unreachable and comes back in the model.
* *Corrupt cached values*: the code treats them as misses.
* *Order of log lines, rounding of tokens in float64, the wording of errors, forms and rendering.*
* *The ranking of hot posts in the page*: it has no counter of requests, so an older ranking may
  replace a newer one until the next refresh; nothing claims otherwise.
* In `WebPages` the model shows, and no property forbids, what the pages do not promise: `PostPage.loadPost`
  compares the session and not the address, so a late post can replace the one in the address, and a late
  delete answer leads away from whatever page is there; the operations that take the address' id can then
  be about another post than the one shown. `RequestsMeanWhatIsShown` therefore speaks of muting, resetting and
  liking, which take the id of what is shown.
* *`localStorage` that refuses to store*, and answers without a user in them.
* *A request read in the very moment in which `Shutdown` closes an idle connection*: inside `net/http`.


## 8. The plan

The order follows the weight of the behaviour. Done: accounts with `Sessions` and the proofs
of its safety; registration; posts; interactions; logger; rate limiter; lifecycle; web session; web pages;
members (profile, avatar, messages); pages, the feed, comments, hot posts and search.

Next, modelling:

1. A Redis process that restarts without the last second, to say exactly which logouts it loses.
2. The page of a post in `WebPages` with its late answers, as a composition with `Feed`.

Done, proving: the safety of every module a passing run checks, that `Accounts` implements `Sessions`, and what `Pages` promises for
all numbers.

Next, proving:

1. What holds of the three refuted claims: that a single edit at a time keeps its other field, that a count read
   after the last DEL is fresh unless a reader was under way, that a status is laid over another profile only by
   an answer that was asked for on the former one.
2. An abstract specification of the limiter (a client gets at most burst plus rate times time) and of the logger (a
   queue that is written out) with their refinements, from the invariants that are there.


## 9. Reading and running

Begin with `Sessions`, then `Accounts`, then the head of `MembersProofs`; `Members` builds on these, and `Feed` on `Posts`
and `Pages`; the other modules are independent of each other. In this directory:

    tlc -workers 2 -config MCMembers.cfg MCMembers.tla
    tlapm MembersProofs.tla
    tlapm FeedProofs.tla

Each run takes less than four minutes on two cores. `PROJECT.json` lists, for every property, a mutation of a
definition that stands for a plausible mistake in the code, under which the property is violated; the operators
`Mutant_...` in the modules are those mutations and nothing else uses them.
