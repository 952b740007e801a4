# Verification of the Newsly backend

TLA+ models of the NestJS/Prisma/Redis backend in this repository, TLC
configurations that check them on small instances, and TLAPS proofs for every
instance. Paths below are relative to `src/` (the repository root); `auth/…`,
`user/…`, `news/…` stand for `src/modules/auth/…` and so on.

## 1. The system

PM2 runs the API as a cluster of Node processes, one per core, restarted when
they die (`ecosystem.config.js`). They share one Postgres (through Prisma) and
one Redis; nothing is shared in memory. A request is an async handler; every
`await` on a query lets other handlers of the same process run, and handlers of
other processes run at any time. Hardly anything is in a transaction: most
handlers read in one query, decide, and write in one or more later queries. So
the unit of atomicity is **one query** (or one `$transaction`), and a crash can
fall between any two. That is how every model here is cut.

| component | state | operations | hard behaviour | what makes it correct |
|---|---|---|---|---|
| sessions and refresh tokens (`auth/…/refresh-token`, `logout`, `jwt-strategy`, `auth.repository`) | `user_sessions.isActive`, `refresh_tokens.sessionId/revokedAt/expiresAt` | refresh with rotation and reuse detection, guard, logout, logout-all, revoke a device | two refreshes of one token; logout during a refresh; crash between revoke and create; findMany/transaction gap | closed sessions stay closed, by their owner only; one token chain per session; reuse ends the session |
| passwords (`login`, `forgot-password`, `reset-password`, `UserService.changePassword`) | `auth_providers.passwordHash`, `password_reset_tokens` | log in, change, request a link, reset | a login verified against the old hash; one link used twice; crash between set, mark and close | older sessions end with a change; a link is spent only after it worked, and once |
| accounts (`register`, `verify-email`, `google-auth`, `apple-auth`, `softDelete`) | `users.email/isEmailVerified`, `auth_providers`, `email_verification_tokens` | register, verify, social sign-in, delete | races for three unique indexes; crashes between rows; an address passing to another row; several identities that bring one address | a row is marked verified for a reason; an account is shared only by those who bring its address; nobody is locked out but for known causes |
| bookmarks (`bookmark/…`) | `bookmarks`, `news_articles.bookmarkCount` | add, remove | check, row and counter are three queries | the counter follows the rows |
| news and cache (`news/…`, `redis.service`) | `news_articles`, Redis keys | cached feed and article, create, update, rename, delete, view | a stale fill after an invalidation; a crash before it; a key computed from an old slug; slugs of deleted articles | only what was public is cached; no writer forgets a key; stale copies expire; conflicts are found before the index throws |
| push tokens (`UserRepository.add/removeFcmToken`) | `users.fcmTokens` (JSON array) | register, remove | read-modify-write of the whole array | no duplicates, nothing invented, nothing lost when serial |
| the feed (`findFeed`, `getFeed`, `create`/`update`/`delete` of articles) | `news_articles.status/publishedAt`, one Redis key per page | page through the feed while it is edited | items and their number are two queries; every page is cached on its own; `KEYS` and `DEL` are two commands; `NULL` sorts first | articles in the order of publication, none missed, none twice, as far as the code can promise it |
| categories (`category/…`) | `categories.slug/isActive/parentId`, the Redis key of the list | list, create, update, deactivate | stale list, feeds that embed categories, queries that load in two statements, parents that form a loop | what is cached was active; the list follows the rows; loops need a move |
| notifications (`notification/…`) | `user_notifications.readAt` | list with unread count, mark one, mark all | two queries per listing, sent side by side; the same row marked twice at once; a lost answer | every mark is told once, a repeated request is safe, a listing is of its time |
| database connection (`prisma.service.ts`, `main.ts`, PM2) | attempt number, the sleep's timer | bounded retry with back-off, restart | a database that is late, or comes and goes | gives up last, serves in the end |
| profile (`UserService.updateProfile`) | user columns, unique `username` | update | look-up before write | not modelled: one write, guarded by a unique index |

The components meet in the database and in Redis: registration creates the users
that sessions belong to; a social sign-in ends like a login; change and reset of
a password call the same `deactivateAllUserSessions` as logout-all; the
access-token guard stands before every handler that acts for a signed-in user;
articles carry the counter that bookmarks write, and so do their cached copies,
which bookmarks do not delete; the feeds of categories, which
the news service caches, embed rows that the category service writes and never
delete when it does.

The rest (push messages through Firebase, token and mail services, AI services,
BullMQ queues without producers or processors, S3, health, throttling, filters,
interceptors, pipes, DTOs) keeps no state of its own and is listed in
`PROJECT.json` with the reason it is left out.

## 2. Modules

| module | models | EXTENDS |
|---|---|---|
| `AuthStore` | tables, handler locals, repository operations, crash, expiry | |
| `Sessions` | refresh, guard, logout, logout-all, revoke, delete | `AuthStore` |
| `Passwords` | login, change, forgot, reset | `Sessions` |
| `Auth` | all of them composed; specification and properties | `Passwords` |
| `SessionLifecycle` | what the subsystem promises of device sessions, without handlers or tokens | |
| `TokenRotation` | what a client sees of refresh-token rotation, in indivisible steps | |
| `AuthInvariant` | the inductive invariants | `Auth` |
| `AuthProofs` | theorems about `Auth` under every interleaving | `AuthInvariant`, `TLAPS` |
| `AuthPromisesProofs` | theorems about `Auth` without crashes, or one request at a time | `AuthProofs` |
| `Accounts` | register, verify, Google and Apple sign-in, delete | |
| `AccountsProofs` | theorems about `Accounts` | `Accounts`, `TLAPS` |
| `Bookmarks`, `BookmarksProofs` | bookmark rows and counters, and theorems | |
| `RedisCache` | get, set with a time to live, del, the expiry of a key | |
| `NewsCache`, `NewsCacheProofs` | articles, cache-aside reads, writers and invalidation, and theorems | `RedisCache` |
| `FeedPages` | the order, the dates and the pages of the feed, and a client that walks it | `RedisCache` |
| `Categories` | rows, slugs and parents, the cached list and the feeds that embed categories | `RedisCache` |
| `Notifications` | marking and listing | |
| `FcmTokens` | the push token array | |
| `Startup` | one process, from its start until it listens | |
| `Services` | `FcmTokens`, `Categories`, `FeedPages` and `Notifications` side by side | INSTANCEs |
| `CategoriesProofs` | theorems about the categories of `Services` | `Services`, `TLAPS` |
| `FeedPagesProofs` | theorems about the pages of `Services` | `Services`, `TLAPS` |
| `ServicesProofs` | theorems about its notifications, push tokens and types | both |
| `Recovery` | `NewsCache` and `Startup` under fairness | INSTANCEs |
| `MC*` | instances for TLC: operation slices and symmetry | |

`Services` and `Recovery` put parts together that share no state. The product of
their behaviours would show nothing that the parts do not, so a behaviour is
about one part, its `subject`, chosen in `Init`; the others stay where they
began, and a property of a part speaks of the behaviours about it. `About(s)` is
that rule, in every disjunct of `Next`.

Correspondence, the same in all of them:

- A handler is an element of `Request`. `pc[r]` names the query it awaits (the
  label `"refresh.revoke"` is the `await revokeRefreshToken(...)` of
  `refresh-token.use-case.ts:58`), and its locals (`usr`, `ses`, `tok`, …) are
  what later code still uses. `"idle"` means that `r` serves nobody.
- An action is the query of its label with all the code up to the next query:
  the checks on the row just read, the early returns and throws, the label of
  the next query. `Leave` is a return or a throw.
- Rows are functions from ids (`None`: no such row) or sets of ids with a flag
  set. Fresh ids, tokens and links are picked with `\E` among the unused ones.
- `Abort(r)` drops a handler at any query: a process that dies, a failed query,
  a lost connection. What it wrote stays, the rest never happens.
- Clients present only tokens and links that were delivered to them
  (`delivered`, `inbox`); one that was never issued is rejected by the first
  query and changes nothing.
- History variables (marked in the declarations) record what properties speak
  of: promises given (`owed`, `closed`, `settled`), ancestry (`parent`), what
  was public (`shown`). No guard reads them.
- Promises that take more than an invariant are specifications of their own:
  `Auth` implements `SessionLifecycle` under the mapping of its session table
  (`ImplementsLifecycle`) and, one request at a time, `TokenRotation`
  (`ImplementsRotation`). The second maps the three queries of an exchange to
  one step: a token that an exchange has revoked stands for the session until
  its successor exists. That a session has at most one usable token is part of it.
- Each module has a group of "plausible slips", wrong versions of its
  definitions. No specification uses them; each is the mutation under which a
  property must fail (`PROJECT.json`, `mutants`).

Abstractions of data: a password is the number of times the hash had been
replaced, so verifying it is equality and a wrong password is a branch that
rejects; JWT and hash functions are identity of tokens; an article's contents
are two numbers, one that `NewsService` increases with every write and one that
`BookmarkService` does; in `NewsCache` all feed keys are one key, since all are
filled alike and deleted together by `delByPattern` (the pages are told apart in
`FeedPages`, the feeds of categories in `Categories`); in `FeedPages` the client
is one, time is the number of the row that is created, and a page is the set of
its articles: `row(a)` counts the public articles that `orderBy` puts before
`a`, and a page holds those whose row lies within its offset and its limit; the
JSON array of push tokens is a bag, as no code looks at its order; `updateLastLogin`
writes nothing a property sees and is merged with the reply. The expiry of reset
links is left out: it only rejects more. In `Accounts` the session of a social
sign-in is one step, since what follows `createSession` is what `Passwords`
models for a login. An accepted social token is a pair of subject id and address (`Claims`), and
nothing is assumed of the pairs: several subjects may bring one address and one
subject several, since the use cases look accounts up by address alone,
compare no `providerUserId`, ignore `isEmailVerified`, and `AppleAuthService`
makes an address up when the token names none. So `named`, the addresses that
tokens have brought, says nothing about who owns them.

An `include` of Prisma 5 is a statement of its own at Read Committed. Where its
rows are part of a property, in `Categories`, it is a step of its own
(`Include`): the children in the list and the category of each article in a
feed. The authors, translations and counters that other queries include are
abstracted with the rest of the contents.

## 3. Runs

| run | bounds | what it shows |
|---|---|---|
| `AuthSessions` | 2 users, 2 sessions, 3 tokens, 2 handlers, 1 password change each | `ClosedStaysClosed`, `ExchangedIsRevoked`, `ForkNeedsDoubleExchange`, `OnlyOwnersEnd`, `ImplementsLifecycle` under every interleaving of logins, refreshes, logouts, revocations, changes, deletions and crashes |
| `AuthSerial` | 1 user, 2 sessions, 3 tokens, 1 link, 1 handler | every operation, expiry and crashes, one request at a time: types, and `LinkSetsPasswordFirst`, `ReuseInvalidatesSession`, `ChangeEndsOlderSessions`, `ImplementsRotation` |
| `AuthFair` | 1 user, 1 session, 3 tokens, 2 handlers, no crash | `NeverStranded`, and `ReuseEndsSession` under fairness |
| `AuthDoubleRefresh` | violation | `ReuseInvalidatesSession` fails when two refreshes overlap |
| `AuthStaleLogin` | violation | `ChangeEndsOlderSessions` fails when a login overlaps a change |
| `AuthLinkTwice` | violation | `LinkSetsPasswordOnce` fails when two resets overlap |
| `Accounts` | 2 users, 2 addresses, 2 subject ids of one provider that share an address, one of which also brings the other, 1 link, 2 handlers | `VerifiedForAReason`, `AccountsHaveOneAddress`, `NobodyLockedOut`, `SpentLinkVerifies`, all with crashes |
| `AccountsAdvice` | violation | "Please register again." leads to a refusal |
| `Bookmarks` | 2 users, 2 articles, 3 handlers, 2 crashes | `CountConserved`, `ExactWhenIdle`, `BoundedBelow` |
| `NewsCache` | 2 articles, 2 slugs, 2 handlers, 2 writes per article, 1 bookmark counted | `OnlyShownIsCached` with crashes; `FreshBetweenRequests`, `ConflictsAreFoundFirst` until the first overlap or crash |
| `Recovery` | 1 article, 2 slugs, 2 handlers, 3 writes; 1 process, 6 attempts, a back-off of at most 10 delays | `StaleCopiesExpire`, `EventuallyServes` under fairness of timers, and `GivesUpLast` |
| `Services`, push tokens | 3 tokens, 2 handlers | `OnlyDistinctRequested`; `SerialIsExact` until the first overlap |
| `Services`, categories | 2 categories, 2 slugs (the feed of one is read), 2 handlers, 3 writes | `LoopsNeedMoves`, `OnlyActiveIsCached` with crashes; `ListFreshBetweenRequests` until the first overlap or crash |
| `Services`, pages | 3 articles, 3 writes, pages of 1 or 2, one date set by hand | `InOrderOfPublication`; `QuietWalkIsExact`, `GrowthHidesNothing` for a client that walks the feed |
| `Services`, notifications | 2 users, 4 notifications, 2 handlers, pages of 2 | `MarksAreToldOnce`, `AnsweredIsRead`, `ListingIsOfItsTime` with crashes |

Why these bounds are enough for the cases that matter: every race in this code
is between two handlers (one that has read and one that writes), three where a
third observes both; a fork of a session needs three tokens (one parent, two
children); a wrong owner needs two users; a slug conflict needs two articles; a
stale fill needs one write after one read; a key computed from a slug that was
renamed meanwhile needs three writes of one article (create, rename, and the
write of the handler that read the old slug); an account with two owners needs
two subject ids; a loop of parents needs two
categories; a page boundary moves with the third article; an unread notification
beyond the page needs one more than the page holds; the six attempts are the
code's own number. Where a property is also proved, the bounds do not matter; that
identities of two providers meet in one account is left to the proofs.
Named bounds: `MaxPassword` (password changes per user), `MaxLost` (crashes in
`Bookmarks`), `MaxVersion` (writes of `NewsService` per article), `MaxCounted` (bookmarks
counted, all of one article), `MaxCategories`,
`MaxCategoryWrites`, `MaxArticles` and `MaxArticleWrites` (rows and writes in
`Services`), `FeedSlug` (the categories whose feeds are read), `Patches` (what
an update of a category may carry), `Limits` and `Dates` (page sizes and dates
of requests), `Limit` (the page of notifications); ids run out with the finite
sets of the instance. `Operations` selects the requests and faults of an
instance, so that a run spends its states on its question.

Deadlock is checked except in `AuthFair` and `AuthLinkTwice`, where handlers
wait for a row id when the finite sets are used up and no crash is there to
release them.

Fairness. `AuthFair` assumes weak fairness of every handler's next step: the
event loop and Postgres answer a query that was sent. `Recovery` (`FairSpec`)
assumes it of the expiry of each cached key (`TimeToLive`: Redis drops a key
after `setex`), and of what a process does by itself (`ProcessStep`: timers
fire, a connection succeeds or fails, PM2 restarts what has ended). Nothing is
assumed of handlers, clients, editors or the database: no handler has to go on,
no request has to arrive, and `EventuallyServes` is about a database that stays up
and a process that is not killed for ever. `AuthFair` excludes crashes because a
handler that crashed between its two writes has indeed not ended the session
yet; the crash cases are in `AuthSessions` and `AuthSerial`.

## 4. Findings

Each is a run that TLC must find violated; `PROJECT.json` quotes the lines.

1. **Double refresh.** `revokedAt` is read at `refresh-token.use-case.ts:24`
   and set at line 58. Two overlapping refreshes with one token are both
   answered; the session has two usable chains and stays active. README:32
   promises invalidation on reuse. `ForkNeedsDoubleExchange` shows that this is
   the only way a session forks, and `AuthSerial` that it needs the overlap.
2. **Stale login.** A login that verified the old password creates its session
   after `changePassword` has closed the others; the API documentation says all
   sessions are invalidated.
3. **Reset link used twice.** `usedAt` is read in the first query and set in the
   third.
4. **"Please register again."** The address of an expired link still has its
   user row, and registration refuses it.

Seen while modelling, without a run of their own, since no document says
otherwise:

- Accounts. A social sign-in gets the account that has the address of its token,
  whatever subject id is linked to it and whether or not the provider has
  verified the address (`AccountsHaveOneAddress` says that it goes no further).
  Three causes lock an account out, the exceptions of `NobodyLockedOut`: its
  verification link ran out; its identity is still linked to another account,
  as after a deletion, since `softDelete` keeps the provider row; a handler that
  worked for it crashed, for instance between the two writes of `verify-email`.
- Sessions. A crash between the writes of a refresh leaves the client without a
  token, one between those of a reset leaves the link usable and the sessions
  open.
- Push tokens. Overlapping registrations lose one of them (the condition in
  `SerialIsExact`).
- Caches. Counting a bookmark deletes no cached copy of the article, so the
  count in a copy is old until it expires (the exception in
  `FreshBetweenRequests`). Changing or deactivating a category leaves the cached
  feeds and articles that embed it until they expire
  (`ListFreshBetweenRequests` is about the list only), and a feed that is read
  at that moment can show a category that is inactive or has another slug by
  now (`OnlyActiveIsCached` says that it had been active under this one).
- The feed. An article that an update publishes has no `publishedAt`, as only
  `create` sets it, and so comes before all others (the exception in
  `InOrderOfPublication`); an article with status `SCHEDULED` is never
  published, as nothing reads `scheduledAt`; a client that pages through a feed
  in which articles are withdrawn misses some, and pages cached at different
  times may show one twice (the conditions in `GrowthHidesNothing` and
  `QuietWalkIsExact`).
- Categories. Two updates can make two categories each other's parent
  (`LoopsNeedMoves` says that it takes one).

## 5. Proofs

All theorems hold for every value of the constants that satisfies the named
assumptions, so for any number of users, sessions, tokens, links, articles,
categories, notifications and handlers, crashes included unless said otherwise.
The assumptions are `NoneAssumption`, `TokensAreNotLinks`, `MaxPasswordAssumption` and
`OperationsAssumption` for `Auth`; `UnsetAssumption` and `ClaimsAssumption` (the
subject ids of the two providers are told apart, and tokens bring subject ids
and addresses) for `Accounts`; finiteness
of `User` and `Request` and `MaxLost \in Nat` for `Bookmarks`;
`KeysAreDistinct` and `BoundsAssumption` for `NewsCache`; the `Assumptions` of
its parts for `Services`. TLC evaluates each of them in the runs of its module.

`AuthProofs`. `ClosedStaysClosed` is not inductive: it needs to know that a
handler about to acknowledge has ended all it owes. `Consistent`
(`AuthInvariant`) adds

- `Rows`: foreign keys, and that what clients hold exists;
- `Locals`: at each label, what the handler's locals still guarantee after
  others have run; `"refresh.create"` knows that its token is revoked, which
  gives `ExchangedIsRevoked`; `"reset.mark"` knows that its link has set a
  password, which gives `LinkSetsPasswordFirst`;
- `Debts`: what a handler owes is covered by what its remaining steps end. The
  crux is `owed[r] \cap isActive \subseteq ids[r]` between the `findMany` and
  the `$transaction` of `deactivateAllUserSessions`: sessions opened in between
  are not owed, and those owed can only have become inactive.

`ConsistentInvariant` is proved action by action; `TypeCorrect`,
`ClosedSessionsStayClosed`, `ExchangedTokensAreRevoked`,
`LinksSetPasswordsFirst` are its parts, and `OwnersEndSessions` is an action
property proved from it.

`ForksNeedDoubleExchange` needs a second invariant, `Family`: two *childless*
tokens of one session imply a pair of twins (two tokens exchanged for one
parent) in that session. Childlessness and not `revokedAt` is inductive,
because the childless token of a chain may be revoked or not; the property
follows as an unrevoked token is childless (`ExchangedIsRevoked`).

`LifecycleImplemented` is the refinement: initial states of `Auth` are initial
states of `SessionLifecycle`, and under `Consistent` every action opens one
session, or ends and reports sessions of one user, or is a stutter. The same
invariant carries it: a success reports what `Debts` says has ended.

`AuthPromisesProofs` proves what holds only under a condition on the instance,
which its theorems state as a hypothesis. `NoCrash` (`Operations` has no
`"abort"`) is what `AuthFair` assumes; a process that dies between revoking and
creating does strand its client. `OneAtATime` (there are no two handlers) is
`AuthSerial`; `AuthDoubleRefresh` and `AuthStaleLogin` show that the two
promises fail without it. Each needs invariants of its own:

- `NobodyIsStranded`: `Supplied` says that an active session has a usable token
  or a handler at a label that supplies one or ends it (`Attended`). That other
  handlers may revoke the tokens of a session they do not attend is excluded by
  `Revokers`: who revokes without supplying has seen the session inactive, or
  the token expired.
- `ReuseInvalidates`: `Chain` says that a token which a refresh has found
  unrevoked is still so when it is revoked, and therefore has no successor. With
  one handler no token is exchanged twice at all.
- `ChangesEndSessions`: `Current` says that a password verified or set is still
  the current one when the session is created or the others are closed, and
  that the ids found are all the user has.
- `RotationImplemented`: `Exchanging` says that in the middle of an exchange the
  session is active and every token of it is revoked. So revoking and creating
  map to a stutter and `Rotate`, and a crash in between to `End`.

`AccountsProofs` needs two invariants. `Inv` says what a handler may rely on
between two queries (`Knows`): its user row still has the address of the request
*or was deleted meanwhile*, a token has brought its identity with this address,
and whoever opens a session has seen a provider row. `Mails` (links are mailed
once, and to the address their user has or had) is what `Reasons` needs for
`VerifiedRowsHaveAReason`: a link that a handler has marked still belongs to the
row that it is about to verify. `Links` is `AccountsBelongToAnAddress` made
inductive: every row has one address (`AddressOf`), and whoever is linked or
signed in to it, *or works on it*, brought that one. `Ways` adds the uniqueness
of addresses and what the handlers of a registration have written so far;
`EveryAccountHasAWayIn` and `SpentLinksVerify` are parts of it. Its crux is
`LinkPasses`: who loses the race for a provider row finds the account linked, or
the identity linked elsewhere.

`NewsCacheProofs`. `OnlyShownIsEverCached` is not inductive: a reader between its query and its
`setex` holds a copy that is not in Redis yet. `CopiesWereShown` covers copies
in hand and copies in Redis alike, and `PublicIsShown` says that whatever is
public has been recorded in the history, so that a fresh read may be kept.

`CopiesAreFreshBetweenRequests` needs to know how far the handler at work has come:
`Alone` says that while `serial` holds at most one is, and `InStep` that each key
whose copy is out of date is among those that this handler has still to delete.
Its crux is a rename, where both the old and the new slug are such keys, and that
a reader at work without overlap stores what the rows still say. Bookmarks are
counted at any time, by handlers outside this module, so it speaks of `Content`,
all but that count.

`IndexRefusesOnlyRaces` rests on `LookedUp`: while `serial` holds, a handler past
its look-up has a slug that no other article holds, deleted or not, because the
look-up and the index see the same rows. It fails for a look-up that skips
soft-deleted ones.

`CategoriesProofs`. `OnlyMovesCloseLoops` rests on `Known`: ids in hand are those
of existing categories, and a new row is numbered above all of these.
`CopiesWereActive` is the argument of `OnlyShownIsEverCached` for several rows
per key (`Copied`) and two statements per query: copies in hand and in Redis show
only what the history has. Its crux is `IncludedShows`: what the second
statement loads is active by its own filter (children in the list), or was under
the slug of the feed when the first one found it (`WasActive`), and versions only
grow. `ListIsFreshBetweenRequests` needs that the only handler under way, if it
has written a row, is about to delete the list (`ListInStep`).

`FeedPagesProofs`. `FeedIsInOrder` needs that a public article has a date unless
it is recorded as left without one (`Dated`). The proofs about walks rest on
lemmas about `row`: `newestFirst` is a strict order of the public articles, so no
two of them have one row and the rows are those below their number. For
`QuietWalksAreExact` the invariant says that the client has seen exactly the
articles whose rows lie before the offset of its next page, and that cached
pages, and the items and the total in hand, are those of the rows, since nobody
has written them. For `GrowthHidesNothingFromWalks` it says that of those that
were public when it began the client has seen *at least* those before its
offset: an insertion can only increase the row of an article, and the total of a
page that is up to date does not stop the walk early. That the pages are up to date
whenever the client asks (`Serial`) is an invariant about the two commands of
`delByPattern`.

`ServicesProofs`. `AnsweredNoticesAreRead` needs that handlers do not change
their user or subject (`Asked`) and that nothing unmarks a row.
`ListingsAreOfTheirTime` is about two queries in any order (`ListingsInTime`):
unread rows only become fewer, so what either query found lies between the
beginning and the answer. `EveryMarkIsToldOnce` (`Told`) writes a sum over
handlers as a number of pairs: a handler with `n` marks to report stands for `n`
pairs, so a mark adds as many pairs as rows and an answer moves them to `told`.
`TokensAreDistinctAndRequested` (`Requested`) holds because whatever is written is a
copy of an earlier array with one token more that was not in it, or one less.
`TokensAreExactWhenSerial` (`Exact`) says what the copy in hand of the only handler
is. `TypesAreKept` collects the types from all of these; the bounds of the counts
of notifications come from `Told`.

`BookmarksProofs`. `CountIsConserved` is a conservation law over sets of
handlers: each action moves one handler or one row from one set to another.
`MoveOne` and `MarkOne` say what that does to the cardinalities, `LawStep` that
the law survives. `IdleCountsAreExact` and `CountIsBoundedBelow` follow with
`DriftIsBounded`.

Only model-checked: liveness (`ReuseEndsSession`, `StaleCopiesExpire`,
`EventuallyServes`), which with its fairness is out of the prover's reach, and
`GivesUpLast`, a sum of doubling delays (the backends know no law of `2^n`), which
TLC checks with the code's own six attempts. Every other property of a passing run
is also a theorem. No module that is proved about uses a `RECURSIVE` operator.

## 6. Not modelled, and what is left

Not modelled:

- `updateProfile` (a look-up of the username, then one write under a unique
  index) and `revokeAllSessions`, which has no caller;
- push messages (`fcm.service.ts`): calls to Firebase in batches that nothing in
  the repository makes; the counters, hashes and sets of `redis.service.ts`,
  which have no caller either; read history, analytics and translation tables,
  which no code writes; `onModuleDestroy`, as nothing enables shutdown hooks;
- BullMQ (no producer, no processor), S3, AI, health, mail and OAuth calls beyond
  success or failure; JWT and argon2 cryptography;
- throttling, which the library counts in each process by itself; guards other
  than that of access tokens, filters, interceptors, pipes and DTOs, which keep
  no state.

Left for later, in this order: an atomic bookmark (row and counter in one step)
which `Bookmarks` implements while nothing crashes, and its proof; the safety
part of `Recovery` (a stale copy is always in the hands of a handler or under a
key that expires), which would carry the proof of `StaleCopiesExpire` but for
its fairness; `updateProfile`.
