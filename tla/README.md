# Verification of the avatar catalog backend

TLA+ modules for the concurrent and failure-prone parts of the avatar catalog
backend (Go, Postgres, Redis, a Roblox game server as client), the TLC runs
that check them on small instances, and machine-checked proofs (TLAPS) of every
safety property that the runs check: of the cashback ledger, its bonuses and the
account it implements, of bonus events, the outfit catalog with its read cache,
the request path, dashboard sessions, API keys, migrations and the paged lists.

Contents: 1 the system · 2 the modules and how they correspond to the code ·
3 the runs · 4 what the code does not keep · 5 the proofs · 6 bounds, fairness,
abstractions · 7 what is not modelled · 8 plan · 9 how to run it.

## 1. The system

### Components, their state and their operations

| Component | State | Operations |
| --- | --- | --- |
| Cashback ledger (`service/cashback.go`, `service/transaction.go`, `store/postgres/{cashback,transactions}.go`) | tables `transaction` (+ items), `cashback_entry`, `redeem_request` | `Transactions.Create`, `Cashback.Accrue`, `RateFor`, `Redeem`, `ResolveRedeem`, `Reverse`, `Reconcile` |
| Cashback events (`service/cashback.go`) | table `cashback_event` | `CreateEvent`, `UpdateEvent`, `DeleteEvent`, `ActiveEvent` |
| Game client (`roblox/AvatarCatalog.lua`) | the attempt it is in | `request` (3 attempts, backoff), `recordTransaction`, `createOutfit`, `createRedeem` |
| Request path (`httpapi/router.go`, `idempotency.go`, `ratelimit.go`) | stored answers per key, windows per API key | `authenticate`, `rateLimit`, `idempotent` |
| Outfit catalog (`service/outfit*.go`, `store/postgres/outfits.go`) | tables `outfit`, items, tags | `Create`, `CreateBatch`, `Update`, `ReplaceItems`, `SoftDelete`, `Resolve`, `List`, `Search` |
| Read cache (`store/cached/outfits.go`, `cache/redis.go`) | Redis entries and one version counter | `Get`, `List`, `Search`, `invalidateAll` |
| Engagement (`service/outfit.go`, `store/postgres/outfits.go`) | like rows, view rows, counters on the outfit | `Like`, `Unlike`, `RecordView`, `LikedBy` |
| Name embeddings (`service/embed.go`) | a semaphore of 8, one vector per outfit | `embedNameAsync`, `SetNameEmbedding` |
| Templates (`service/template.go`) | table `rig_template` | `Register`, `Update`, `Ensure` |
| Dashboard sessions (`service/dashboard_auth.go`) | operators and their sessions | `Login`, `Authenticate`, `Logout`, `ChangePassword`, `SetDisabled`, `DeleteUser` |
| API keys (`service/apikey.go`, `auth/scope.go`) | table `api_key` | `Issue`, `Update`, `Revoke`, `Delete`, `Authenticate` |
| Migrations (`migrate/migrate.go`) | schema, table of applied versions, advisory lock | `Up`, `Status`, `Baseline` |
| Lists (`paging/cursor.go`, `List*` of the services and of both stores) | the cursor, which the client carries | every `List`, `Resolve` |

### How they interact

The game client calls the API over HTTP. A request passes `authenticate`, the
rate limiter and, on two routes, the idempotency middleware; then a handler
calls a service, the service the store. `Transactions.Create` calls
`Cashback.Accrue` after its row has been committed, in a transaction of its
own; `Accrue` asks `RateFor`, which reads the transaction table again. The
outfit store is wrapped by the read cache: a read composes its key from a
version number in Redis, a write commits and then increments that number.
Creating or renaming an outfit starts a goroutine that computes the vector of
the name, stores it and increments the version again. Nothing but Postgres and
Redis is shared between the replicas of the server; limiter windows and the
semaphore of the embeddings belong to one process.

### What is hard, and what makes each part correct

| Component | Hard behaviour | Correct when |
| --- | --- | --- |
| Cashback ledger | handlers interleave between statements; failures between purchase and accrual; retries; two resolutions of one request; a balance read long before it is used | no row twice, every row has its cause, the balance is what was earned and not claimed, settled requests stay settled, a purchase answered with 201 has its cashback |
| Request path | the client gives up on an attempt while the server still works on it; answers lost or stored late; keys expire or are evicted; windows are pruned | what a client is told is true, a repetition creates no second row unless the store could not know, a bound holds in every span of time |
| Read cache | a reader is slow between reading version, rows and items and its SET; Redis refuses an invalidation or does not tell the version | no read that starts after an invalidation and gets the version sees what was there before |
| Catalog, engagement | a request acts on an outfit that it loaded, possibly from the cache, before it was deleted; counters are denormalised | deletion is final, counters equal their logs |
| Embeddings | unordered goroutines, dropped work | the stored vector is that of the name, or there is none |
| Cashback events | editing a running event, overlap, stop at the very moment of its start, purchases dated ahead | no write changes what held of the instants before its decision |
| Sessions, API keys | revocation racing authentication; read-modify-write of a key; lifetimes that wrap | nothing revoked is accepted again, an expiry is the one that was asked for unless there is a known reason |
| Migrations | several processes, crash between a step and its record | every migration takes effect once, in order, and no run waits for ever |
| Templates | a rig is registered on the way to an outfit that may never be written | every outfit has its rig, a clerk's name for it is kept |
| Lists | rows come, go and move while a client reads page after page, of which some are cached | pages add up to the list, a page is bounded, every reference is answered |

## 2. The modules

```
CashbackRate      constants and the amount                    (pure)
  CashbackAccount what cashback promises                      (abstract)
  CashbackLedger  tables and handlers; implements CashbackAccount
    MCCashback    instances
    CashbackProofs    theorems, refinement
OutfitCatalog     outfits, cache, engagement, embeddings
  MCCatalog       symmetry
  CatalogProofs   theorems
GameRequests      client loop, limiter, idempotency, creating handlers
  MCRequests      instances
  RequestProofs   theorems
CashbackEvents    bonus events, their editors, the question of RateFor
  MCEvents        symmetry
  EventProofs     theorems
DashboardSessions operators, sessions, logins, revocations
  MCSessions      symmetry
  SessionProofs   theorems
ApiKeys           issue, change, withdrawal and use of keys
  MCKeys          scopes, symmetry
  KeyProofs       theorems
SchemaMigrations  runs of `migrate up` and `migrate baseline`
  MCMigrations    two releases
  MigrationProofs theorems
Keyset            cursors, limits and pages                   (pure)
  PagedLists      the lists, their rows, and a client that walks them
    MCLists       instances
    ListProofs    theorems
```

In all of them a step is one SQL statement, one explicit database transaction,
one Redis command or one message; a handler is a small record that says where
it is and what it holds in local variables. Between two steps anything else
may happen, and a handler may stop (`Fail`, `Stop`, `Vanish`): an error, a
crash of the process and a client that goes away look alike to the tables.

### CashbackRate, CashbackLedger

| Code | Model |
| --- | --- |
| `BaseRatePercent` … `streakDays`, the cap in `RateFor`, `amount := total * percent / 100` | `BaseRatePercent` … `StreakDays`, `Percent`, `CashbackAmount` |
| table `transaction` | `recorded`, a sequence: rows in commit order; a row is named by its unique idempotency key, who bought, for how much and when are `Owner`, `Spend`, `Day` |
| table `cashback_entry` with unique (tx_id, kind) | `ledger`, a sequence of `Row`s; `HasRow` in `CreateEntry` is the index |
| table `redeem_request` with its partial unique index | `redeems`; `HasPending` is the index |
| `Transactions.Create` | `Lookup` → `InsertTransaction` → (`RereadWinner` for the loser of a race) → `ReadTotals` → `ReadDays` → `Accrue` → `Reply`; a replay goes from `Lookup` to the accrual |
| `RateFor` with `SpendStats` | `ReadTotals` (first, loyal: one query; the event) and `ReadDays` (streak: a second query), each over `History`: what is committed at that moment except the purchase itself |
| `Redeem` | `ReadBalance`, then `CreateRedeem` (request and deduction in one database transaction) |
| `ResolveRedeem` | `ResolveRedeem`: one database transaction with the row locked; a second call with the same answer changes nothing |
| `Reverse` | `FindAccrual`, then `Reverse` |
| the integer columns of amount and spend | `Storable`: `CreateEntry` refuses what does not fit, on every attempt, and then only `Fail` is left to the handler; `ReadBalance` lets a balance that does not fit fail in the same way |

`answers` is not state of the server but what clients were told.
`CashbackAccount` is the specification without statements and handlers: one
balance per player, a credit per purchase, a payout per request. The refinement
mapping takes the balance to `SUM(amount)` over the player's rows
(`Account == INSTANCE CashbackAccount WITH …`).

### OutfitCatalog

| Code | Model |
| --- | --- |
| table `outfit` | `rows`: name, deleted, the counters, the vector (represented by the name it was computed from), and `rev`, the number of writes so far |
| `outfit_item` | `items`: the `rev` that wrote them |
| `outfit_like`, `outfit_view` | `likes`, `views` |
| Redis version `outfit:all`, cached pages | `version`, `entries` by version and page |
| `Outfits.Get`, `List`, `Search` of `store/cached` | `ReadVersion` → `Lookup` → `ReadRows` → `ReadItems` → `StoreEntry` → `Answer`; rows and items are two queries that may see two states |
| `Create`, and `Patch`, `ReplaceItems`, `SoftDelete` of the service | actions of the same names: the latter act on what the handler loaded (`Loaded`, `Gone`), by one database transaction (`UpdateRow`); then `BumpVersion` |
| `Like`, `Unlike`, `RecordView` | actions of the same names, on what the handler loaded, without an invalidation: cached counters lag until the next one or the expiry (`cached/outfits.go:189-218`) |
| `embedNameAsync` and its goroutine | `EmbedName` takes a `Slot` or drops the work, `SetNameEmbedding` / `EmbeddingFails`, `BumpAfterEmbedding` |

`published` is auxiliary: the revisions that the last successful invalidation
made visible. A read remembers it as its `floor` when it starts. When the version
cannot be read, the code goes on with 0 and only logs the error, and so does
`ReadVersion`; the auxiliary `known` of a read says which it was. Reads that did
not get the version find, and store, entries of version 0 in every run.

### GameRequests

| Code | Model |
| --- | --- |
| `AvatarCatalog:request` | `Send`, `Hear`, `NetworkError`, `Concluded`: 429, 5xx and network errors are repeated up to `MaxAttempts`, by a new request; the old one may still be under way |
| `createOutfit`, `recordTransaction` | `Asked`: neither sends the header; other clients (`"importer"`) do |
| `FixedWindow.Allow`, `pruneLocked` | `Refused`, `Admit`, `Pruned`, all in the step `Arrive` |
| `idempotent` | `LookUp` (in `Arrive`), `CreateOutfit`, `Put`: the answer passes through to the client before it is stored |
| `MemoryStore`, `RedisStore` | `records`, `Alive`, `Swept`, `Forget`; a failing Redis reads as a miss and a lost write |
| `outfitHandler.create`, `createBatch`, `transactionHandler.create` | `CreateOutfit`, `CreateTransaction`; here a purchase is one step, as its own interleaving is `CashbackLedger`'s subject |

`rows` names a row by the call and attempt that created it; its fields
`looked` and `recorded`, and `admitted`, the log of the instants at which each
client's requests passed the limiter, are auxiliary.

### CashbackEvents

| Code | Model |
| --- | --- |
| table `cashback_event` with its CHECK | `events`: a `Window`, `Absent` or `Deleted`; `Write` refuses what the CHECK refuses |
| `PhaseOf` | `Upcoming`, `Running`, `Finished` |
| `UpdateEvent`, `DeleteEvent` | `EventByID` (read) → `Decide` of the handler: `StopEvent`, `EditEvent`, `DeleteEvent` or `Refuse`, by the clock of that moment → `Write` or `WriteFails` |
| `CreateEvent` | `CreateEvent` |
| `RateFor` asking `ActiveEvent` | `RateFor`: a purchase of any instant, past or future, since `occurredAt` comes from the client and is compared with nothing; of two events that match, the one that starts first |

`sales` (what was rated, by which event, and which events were known), `before`
of a handler (the sales rated when it read its row) and `overtaken` are auxiliary.
`overtaken` has the sales that a write does not answer for (`PassedOver`): those
whose instant lay ahead when the write was decided, since the future is free to
change, and those rated after its handler had read the row, if another editor has
rewritten the row since. `EventActive` of the ledger is the answer of
this module's `Active`, left open there.

### DashboardSessions

| Code | Model |
| --- | --- |
| tables `dashboard_user`, `dashboard_session`, or the two maps | `users`, `sessions`; `store` says which, since the foreign key and its cascade exist only in Postgres |
| `Login` | `LoginReads` (account and password), then `LoginCreates` |
| `Authenticate` | `Arrive` → `ReadsSession` → `ReadsOwner`: two statements |
| PATCH of an operator, and the command `dashboarduser` | `ProfileReads`, `ProfileWrites`, `SetPassword`, `SetDisabled`, `SetEnabled`, `RevokeUserSessions`, in the order of the handler, each a step |
| `Logout`, `CreateUser`, `DeleteUser` | actions of these names (`RemoveUser` for the route, with its second look at the caller) |

`epoch` counts the password changes and disablings of an account; a session
carries the epoch that its login verified. `pending`, `ended`, `late` and the
fields `since`, `ended`, `off` of a request are auxiliary.

### ApiKeys

| Code | Model |
| --- | --- |
| table `api_key` | `keys` |
| `Issue`, the command `apikey issue` | `Issue` with the limit of a year, `CommandIssue` without; `Lasting` multiplies as a `time.Duration` does, modulo `Width` |
| PATCH | `UpdateReads` or `RenameReads`, then `UpdateWrites` of name and expiry, those not asked for included |
| `Revoke`, `Delete` | `Withdraw` |
| `KeyAuth.Authenticate`, `requireScope` | `Arrive` → `ReadsKey` → `Touch` → `LetIn` |

`wanted` (the instant that the request asked for, without wrapping), `undone`
(keys whose wanted expiry a rename wrote over, having read the row before it),
`unfit` (keys that were given a lifetime that HTTP may not give, because its
product wrapped into one that passes the check) and `dead` are auxiliary.

### SchemaMigrations

`Up` and `Baseline` are `Begin` → `Lock` → `ReadApplied` → for every file
`Skip`, `Drift`, `ApplyInTx`, `RunSql` then `Record` (files marked
"no-transaction"), or `BaselineRecords` → `Finish` → `Unlock`. `Fail` and `Die`
end a run after any statement; the lock goes with the session. `State` is what
`Status` reports. `runs`, `last`, `broken` and `marked` are auxiliary: what took
effect, and what was broken off before its record.

### Keyset, PagedLists

| Code | Model |
| --- | --- |
| `KeysetCursor.After`, `CountCursor.After`, `ClampLimit` | `After`, `CountAfter`, `ClampLimit` |
| `sortOutfits`, `sortByRecency`, `truncate` (maps) | `Before`, `Rank`, `InOrder`, `MemPage`, `Truncate` |
| `ORDER BY … LIMIT limit+1` with the keyset condition, `trimPage` (Postgres) | `SqlPage`, `TrimPage` |
| `decodeListCursor`, `encodeListCursor` | `Accepts`, `NextCursor`: the cursor carries its sort and is refused with another (`RefuseCursor`) |
| the `List` of outfits, templates, transactions, entries, redeems, balances | `ListOutfits` …: one page, by `Serve` from the store of the run; `Sql…` and `Mem…` translate the two implementations of each |
| `Resolve` | `StartResolve`, `Resolve`: the client sends the whole list with each page |
| `ensureTemplate`, `buildNewOutfit`, `CreateBatch` | `UseRig`, `BuildOutfit`, `WriteBatch`, `LoseBatch` |
| `Templates.Register`, `Update` | `RegisterTemplate`, `PatchTemplate` |
| pages of outfits out of `store/cached` | `shown`, the catalogs there have been since the last invalidation, and `past`, those since the start: a page of `ListOutfits` is one of some catalog in `shown`, the present one included, or of any in `past` when the version cannot be read. `Invalidate` may come at any time or never; likes, unlikes and views have none |
| every statement that adds, moves or removes a row of a list | `Update`, `SoftDelete`, `Like`, `Unlike`, `RecordView`, `RecordTransaction`, `CreateEntry`, `CreateRedeem`, `ResolveRedeem` |

Rows carry what lists select and sort by. `client` holds the walk: the rows
served and, as auxiliary state, the rows that did not move (`steady`), or the
outfits that were there (`alive`) or away (`gone`) all along. A row of outfits is
steady if it was listed where it is in every catalog that the cache could show
when the walk began, has not moved since, and stands there also in a page that
was read without the version. That a page is one step loses nothing: a reader
that found the version, was overtaken by an invalidation and then met an entry of
the old version is answered with a catalog of some moment within its request, and
the step stands for that moment.

## 3. The runs

Each is a configuration of an MC module; all finish in under five minutes with
two workers.

| Run | Instance | Checks | Shows |
| --- | --- | --- | --- |
| `cashback_payouts` | one player, two purchases, two request ids, two handlers; 1.1 M states | `TypeOK`, `UniqueRows`, `RowsExplained`, `RequestsBacked`, `OnePendingPerPlayer`, `BalanceReconciles`, `HistoryIsFinal`, `ImplementsAccount` | retries, races and crashes duplicate nothing, every row has its cause, the balance is what was earned minus what was claimed; the tables refine `CashbackAccount` |
| `cashback_rates` | three purchases on three days (one reaches the loyal threshold and is too large for the columns), two handlers; 0.4 M states | `TypeOK`, `FirstBonusAtMostOnce`, `NoEarnedBonusLost`, `CreatedMeansAccrued` | bonuses are neither given twice nor lost, a 201 has its accrual, no amount beyond its column is stored |
| `cashback_events` | two events, two editors, windows to 3, clock to 2, one purchase of any instant | `TypeOK`, `BonusesExplained`, `NoBonusMissed`, `PastKept` | the schedule keeps explaining every rate given, except for writes decided before the instant of the purchase, and purchases rated while two editors overwrote each other |
| `catalog_cache` | one outfit, two handlers, patch and delete, row and list pages, one invalidation, version reads that fail; 2.8 M states | `NoStaleRead` | slow readers, and readers without the version, never bring back old pages to a reader that gets the version |
| `catalog_engagement` | one outfit, two handlers, two players, no invalidation succeeds; 1.7 M states | `TypeOK`, `CountersMatchLog`, `DeletedForGood` | counters and logs agree, deletion is final even for handlers that act on stale pages |
| `requests` | two calls of one client, two attempts each, two requests in flight, clock to 2; 3.1 M states | `TypeOK`, `AnswersAreTrue`, `SecondRowHasReason`, `LessThanTwiceTheLimit` | replays tell the truth, a second row for one key needs a lookup before the first answer was stored, a failed store or an expiry, and the limiter's bound |
| `dashboard_sessions` | two operators, sessions, emails and requests, one change each, clock to 1, both stores; 1.4 M states | `TypeOK`, `OldSessionsOnlyByRace`, `ServedWasLive` | nothing is served on a session that was dead when the request came; only a login under way survives a revocation |
| `api_keys` | one key, two requests, seven values of `expiresInHours` of which three wrap, clock to 3, both stores | `TypeOK`, `HttpKeysExpire`, `ExpiryAsAsked`, `ServedWasValid` | an expiry is the one that was asked for, but for two named exceptions; no HTTP key has more than a year left; nothing is served after a revocation was answered |
| `migrations` | two runs of two releases, the second of which edits a file and adds one; one file outside a transaction | `TypeOK`, `RunsAccountedFor`, `RecordIsTrue`, `BuiltInOrder`, `EveryRunEnds` | files take effect once and in order, records are true, no run waits for ever |
| `paged_lists` | three outfits, two rigs, three rows of each other list, two players, pages of one or two rows, two writes of the catalog or three of another area; pages cached since the last invalidation, or read without the version; both stores; 0.8 M states | `TypeOK`, `PagesAddUp`, `ResolveAnswersAll`, `RigsKept` | a walk serves every row that stays put exactly once; a resolve answers all; outfits keep their rigs |
| `cashback_double_claim` | as `cashback_payouts`, one purchase | `SameBalanceNotClaimedTwice`, violated | the first counterexample of section 4 |
| `catalog_version_unread` | as `catalog_cache` | `UnreadVersionIsAMiss`, violated | the second counterexample of section 4 |

Every property of a passing run has a mutant: an operator beside the definition
it replaces, marked `Mutant:` and written as a plausible slip of the code (no
unique index, the last resolution wins, the key built after the query, an
unconditional decrement, a password set without revocation, an advisory lock
per release, a cursor that includes its row, …). TLC finds the property
violated under each.

## 4. What the code does not keep

Two statements of the repository's comments are refuted by runs of the project
(`PROJECT.json` quotes them with their lines):

- **The same balance claimed twice** (`cashback_double_claim`,
  `SameBalanceNotClaimedTwice`). `Redeem` reads the balance (cashback.go:293)
  and creates the request with it later (318). If another request was created
  and settled in between, the partial index does not object, and the balance
  becomes negative. `BalanceReconciles` still holds (proved): the books add up,
  they are only in the red.
- **Stale pages when the version cannot be read** (`catalog_version_unread`,
  `UnreadVersionIsAMiss`). `versionedKey` says of a failed read that the key falls
  to v0, "paling buruk jadi miss" (cached/outfits.go:243-244), and lines 20-21
  that stale data cannot be served. Entries that were stored under version 0
  before the first invalidation, or by another reader without the version, are
  found until they expire. What holds: `NoStaleRead` (proved) for readers that
  get the version, whatever the others store.

The following are stated in the modules, where the code does not keep them
either. No run lists them; put the property into the configuration named to see
the counterexample.

| Property | Configuration | What happens |
| --- | --- | --- |
| `RatedByHistoryBefore` (CashbackLedger) | `CashbackRates.cfg`, INVARIANT | `SpendStats` leaves out the purchase itself, not those recorded after it, so a late accrual is rated by later history. What holds: `FirstBonusAtMostOnce` and `NoEarnedBonusLost` (both proved): lateness can cost "first" and gain "loyal", it never loses an earned "loyal" or "streak". |
| `AnsweredMeansAccrued` (CashbackLedger) | `CashbackRates.cfg`, INVARIANT | The loser of the insert race answers 200 without accruing; if the winner then fails, nobody retries. A 201 is safe (`CreatedMeansAccrued`, proved). |
| `RatesStayExplained` (CashbackEvents) | `CashbackEvents.cfg`, INVARIANT | The rule of `UpdateEvent` (cashback.go:506-516), that the past is not rewritten. A purchase dated ahead is rated by an upcoming event, which may still be moved or deleted; and a write that was decided long ago lands on a row that another editor has rewritten, and takes from it a rate given meanwhile. What holds: `BonusesExplained`, `NoBonusMissed`, `PastKept` (proved). |
| `UnfitLivesRefused` (ApiKeys) | `ApiKeys.cfg`, INVARIANT | "Masa berlaku maksimal 365 hari" (apikey.go:172-179) is checked on the product with `time.Hour`. A number of hours whose product wraps to a short lifetime is accepted, and so is, in a PATCH, one that wraps to a negative lifetime. |
| `RenameKeepsExpiry` (ApiKeys) | `ApiKeys.cfg`, PROPERTY | "Field nil = tidak diubah" (apikey.go:127). A rename writes back the expiry that it read; an extension in between is lost. |
| `SkippedRowsAreSwept` (OutfitCatalog) | `CatalogEngagement.cfg` with `Update = {"patch"}`, `Name = {n1, n2}`, `MaxRevision = 2` | A renamed outfit keeps the vector of its old name, which is not NULL, when the new one is skipped, fails or is overtaken. |
| `PurchaseIsAccepted` (GameRequests) | `Requests.cfg` | The game client puts the key into the body, where `DisallowUnknownFields` makes it a 400, and not into the header. |
| `RetriesCreateOneRow` (GameRequests) | `Requests.cfg` | A retried `createOutfit` makes two outfits: it sends no key, and the middleware wants none. |
| `NoOldSessionSurvives` (DashboardSessions) | `DashboardSessions.cfg` | A login that has verified the old password creates its session after the password change has revoked all. What holds: `OldSessionsOnlyByRace` (proved). |

Smaller observations, made while modelling:

- No property says that a purchase is answered in the end. The game client stops
  after `MAX_ATTEMPTS` (AvatarCatalog.lua:137), and an amount beyond the integer
  column fails on every attempt (003_cashback.sql:30-32).
- The button that stops an event "must not fail" (cashback.go:478-481). In the
  instant in which the event starts, the end would equal the start and the CHECK
  refuses it (`WriteFails`).
- `migrate.go:234-235` says that there is no state in which the SQL has run and
  its record has not been written. For a file outside a transaction there is:
  `broken` counts how often it came to stay, and the next run repeats the file.
- `store/postgres/outfits.go:151-153` and `cursor.go:3-5` say that a catalog that
  changes during a walk does not shift the result. That holds of rows that stay
  where they are (`PagesAddUp`). A row that is updated or liked before it was served moves
  above the cursor and is missed; one that loses likes may appear again. A row that
  moved before the walk and not during it can be missed too: page 1 may be an
  older page out of the cache, where the row stood below the cursor, and page 2 a
  fresh one, where it stands above. For likes and views this lag is intended
  (cached/outfits.go:196-200). `PagesAddUp` therefore speaks of rows that are where
  they were since the last invalidation before the walk.
- A list of balances has columns for what was accrued, redeemed and reversed.
  After a rejected request their difference is not the balance, since returns
  have no column.

## 5. The proofs

All theorems are about `Spec` for every value of the constants that satisfies
the assumption of their module (`LedgerConstants`, `EventConstants`,
`CatalogConstants`, `RequestConstants`, `SessionConstants`, `KeyConstants`,
`MigrationConstants`, `ListConstants`): any number of players, keys, handlers,
outfits, requests and overlapping runs. One theorem has a hypothesis of its own:
`ImplementsTheAccount` that there are finitely many purchase keys, since the
account sums over all of them. `MigrationConstants` and `ListConstants` describe
the data of the program: releases are sequences of files, page limits and ids
are positive, the rows that exist when a walk starts are finitely many.

**Cashback.** The properties are not inductive as they stand: that `Accrue`
writes the right row depends on what the handler carries since it read the
tables. `LedgerInv` therefore adds `HandlersReady`, what each handler in
flight may rely on (its purchase is recorded; if it carries "first", nothing
was recorded before its purchase; if it is about to answer 201, the accrual is
there; if it is about to reverse, so is what it reverses), and `FirstRated`: an
accrual with "first" belongs to a purchase with none recorded before it. That
amounts fit their columns (`AmountsFit`) follows from what `CreateEntry` refuses
and from the balance of a redeem being checked before it is inserted and given
back. Two
such accruals of one player then belong to one purchase, since one of two
purchases was recorded first. The argument then goes in two halves.
`StepEffect` shows that every action has one of few effects on the tables
(`Stored`, `Credited`, `TakenBack`, `Asked`, `Settled`, or none), and each
conjunct of the invariant is shown to survive each effect once, not once per
action. `Monotone` (rows are only added) carries facts over steps.

*Sums.* `BalanceReconciles` compares three sums over the rows of a player.
`BalanceInv` adds to `LedgerInv` that requests are finitely many. What a sum
does when its set grows by an element, or when values outside the set change,
would be an induction over finite sets, which the prover cannot instantiate.
It is proved by the smallest counterexample instead: `MinimalSet` and `Smallest`
give, for a set on which an equation about the fold fails, one that is minimal
by inclusion, and the recursive equation of `MapThenFoldSet` refutes it. With
that, each effect moves both sides of the equation by the same amount.

*Bonuses.* `BonusInv` says of a handler between rating and crediting that it
carries "loyal" and "streak" if the history before its purchase had earned them
(`BonusReady`, with `LoyalKept`, `StreakKept`). This is inductive because that
history does not change once the purchase is recorded, while what `SpendStats`
reads can only be more: a larger sum, more days.

*Refinement.* `AccountInv` adds what the step simulation needs: the accruals of
a player sum to what his purchases were credited with
(`EarnsWhatItsPurchases`), and a handler about to create a request asks for no
more than was earned (`RequestBounded`), which is the guard of the account's own
request. Each effect is then a step of `CashbackAccount` or leaves its variables
alone. The theorem gives both `ImplementsAccount` and the account's own `Spec`
under the refinement mapping.

**Catalog.** `FreshInv` relates version, entries and readers:
tables are never behind what was published and an outfit's items are of its
last write (`TablesAhead`), readers of one version share one floor
(`FloorsOfVersions`), an entry covers what was published if its version is
current, and the floor of every reader of its version otherwise
(`EntriesFresh`), and what a reader has seen so far covers its floor
(`SightFresh`). That a reader builds
its key before it queries is what makes the last one inductive; the mutant
`StoreEntryLate` builds it after. Readers without the version are in the invariant
only in that what they store is under version 0, which no reader who got a later
version looks at.
For the counters, `CountersInv` adds that an outfit has finitely many likes,
and uses that each transaction changes row and log together (`Counting`).

**Requests.** `RequestInv` has four parts. What a request carries as its answer,
and what a call was told, names a row that was made for what the call asked, and
by the call itself if it has no key (`Told`). A look for a stored answer found
none, so every answer stored before it had expired by then (`Missed`), and an
answer that was stored is in the store or has expired (`Stored`): together these
make the reason for a second row. A stored answer names a row of its key
(`RecordsOK`). The limiter (`LimiterOK`) is about the log of a client: the window
in force counts its last entries and starts with the first of them, the entries
before those are clear of the window (`WindowOK`, `Clear`), and any `2 * Limit`
neighbours span a window (`Spaced`). Pruning may drop a window only when it is
over, which is what `Clear` then says of the whole log.

**Events.** `EventProofs!EventsInv` adds to the properties what a handler may
carry between its read, its decision and its write (`CallsLawful`): a deletion only
of an event that had not begun, a move only into the future, a new end only at or
after the decision; and that what it has read explained the sales of that moment
(`CallsAgree`), so that of the sales whose instant had come only those rated since
can be hurt, and these only if the row has changed. That each draft agrees with
the row that was read on every instant before the decision is one lemma; that
writes of other rows do not matter is another.

**Sessions.** `SessionProofs!SessionInv` relates accounts, sessions and calls.
A login in flight carries the account's epoch, or has been marked late by a
revocation, or a revocation is still pending (`Current`); the same of a session
that is not revoked. A request between its two reads knows that its session was
not ended when it came (`RequestOK`); that ids are never reused (`OwnersKnown`,
`EndedAreDead`) is what lets it say so about rows that have gone meanwhile.
Steps fall into three kinds, each a lemma: they move one call on (`CallMoves`),
write one account (`AccountWritten`), or write sessions.

**Keys.** `KeyInv` adds `CallsOK`: an update in flight carries the expiry that was
asked for or one that is marked unfit, or, as a rename, the expiry of the row as it
is, unless it is marked as raced; a request that has passed the check of its key
came before the key was withdrawn. That a lifetime of up to a year does not wrap
follows from `MaxLife < Width \div 2` alone. That a withdrawn key is revoked or gone
for good (`DeadAreUnusable`) holds although an update may write long after it read
the key, because it writes the name and the expiry alone.

**Migrations.** `MigrationInv` says that one run at a time has the lock
(`LockOK`); that what the run with the lock read of the table is still true of
the files to come (`WorkersOK`), since nobody else may write; and that a file
took effect once for its record, once for each run that broke off, and once more
while its run is between the two halves (`RunsBound`).

**Lists.** `RigInv` is inductive as soon as the five tables are known
to be tables. `ResolveInv` adds that every page but the last is full
(`Counted`), from which the number of pages follows by the lemma `PagesOf` about
division, and that marks are about the tables as they are (`Watching`).
`ListInv` is about walks: tables are finite and well formed (`TablesOK`), a
view costs a write, so that counters stay bounded, and of a walk (`WalkOK`) the
cursor stands at the last row that was served, the rows served are in order, and
every steady row that the cursor has passed was served. The cache enters by
`CacheOK` (the catalogs it may show are finite and well formed) and
`InEveryPage`: a steady row is listed in every catalog of `shown`, the present one
included, so a page of any of them that passes the row serves it. An invalidation
only makes `shown` smaller. A page is characterised
once, for both stores, by `IsPage`: the first rows in order of what follows the
cursor, and whether any are left. `MemPageIsPage` and `SqlPageIsPage` show that
the sorted map and the limited query both give one. Sorting is by ranks: the
rank of a row counts the rows before it, and counting shows that every rank below
the number of rows is taken by exactly one row (`RanksAreTaken`), so that no
induction over sequences is needed.

| Theorem | Module | Says |
| --- | --- | --- |
| `AmountBounds` | CashbackProofs | the amount lies between a fifth and two fifths of the spend |
| `LedgerInvariant` | CashbackProofs | the inductive invariant |
| `TypeCorrect`, `RowsAreUnique`, `RowsAndRequestsAgree`, `RequestsAreBacked`, `OneRequestPending`, `CreatedIsAccrued`, `FirstIsRatedOnce` | CashbackProofs | `[]` of `TypeOK`, `UniqueRows`, `RowsExplained` and `RequestsBacked`, `RequestsBacked`, `OnePendingPerPlayer`, `CreatedMeansAccrued`, `FirstBonusAtMostOnce` |
| `HistoryStaysFinal` | CashbackProofs | `HistoryIsFinal` |
| `BalancesReconcile` | CashbackProofs | `[]BalanceReconciles` |
| `EarnedBonusesStay` | CashbackProofs | `[]NoEarnedBonusLost` |
| `ImplementsTheAccount` | CashbackProofs | `ImplementsAccount` and `Account!Spec`, assuming finitely many keys |
| `TypeCorrect` | CatalogProofs | `[]TypeOK` |
| `ReadsAreFresh` | CatalogProofs | `[]NoStaleRead` |
| `CountersAreTheLog` | CatalogProofs | `[]CountersMatchLog` |
| `DeletedOutfitsStay` | CatalogProofs | `DeletedForGood` |
| `RequestInvariant` | RequestProofs | the inductive invariant |
| `TypeCorrect`, `ClientsAreToldTheTruth`, `DuplicatesHaveReason`, `LimiterHolds` | RequestProofs | `[]TypeOK`, `[]AnswersAreTrue`, `[]SecondRowHasReason`, `[]LessThanTwiceTheLimit` |
| `TypeCorrect`, `BonusesStayExplained`, `NoBonusIsMissed`, `PastIsKept` | EventProofs | `[]TypeOK`, `[]BonusesExplained`, `[]NoBonusMissed`, `PastKept` |
| `TypeCorrect`, `OldSessionsAreExplained`, `OnlyTheLiveAreServed` | SessionProofs | `[]TypeOK`, `[]OldSessionsOnlyByRace`, `[]ServedWasLive` |
| `KeyInvariant` | KeyProofs | the inductive invariant |
| `TypeCorrect`, `HttpKeysStayLimited`, `ExpiryOnlyLostByRace`, `OnlyValidAreServed` | KeyProofs | `[]TypeOK`, `[]HttpKeysExpire`, `[]ExpiryAsAsked`, `[]ServedWasValid` |
| `MigrationInvariant` | MigrationProofs | the inductive invariant |
| `TypeCorrect`, `RecordsAccountForRuns`, `RecordsAreTrue`, `NothingBuiltOnEdits` | MigrationProofs | `[]TypeOK`, `[]RunsAccountedFor`, `[]RecordIsTrue`, `BuiltInOrder` |
| `ListInvariant` | ListProofs | the inductive invariant of walks |
| `TypeCorrect`, `PagesAreWhole`, `RigsStay`, `ResolvesAnswerAll` | ListProofs | `[]TypeOK`, `[]PagesAddUp`, `[]RigsKept`, `[]ResolveAnswersAll` |

Only model-checked: `EveryRunEnds`, which is liveness under fairness and outside
what the prover does, and the counterexamples of `cashback_double_claim` and
`catalog_version_unread`.

## 6. Bounds, fairness, abstractions

- *Cashback.* Two handlers are enough for every race of two statements, and a
  third retry is a handler that starts when one ends. Two purchases and two
  requests let a request be created after another was paid, out of new cashback or
  out of a balance read before; three purchases
  on consecutive days make the shortest streak. A spend of 500 reaches
  `MinRedeem` at the base rate, one of 400 with the bonus for the first; 5000
  reaches the loyal threshold. One player: rows of
  different players share nothing but the tables. `MaxInteger` is the code's in
  `cashback_payouts`; in `cashback_rates` it is 999, so that a spend of 5000 does
  not fit and every accrual of it fails.
- *Catalog.* Two handlers, one a slow reader and one a writer (in turn, as often
  as `MaxRevision` and `MaxVersion` allow). `MaxVersion = 1` is enough for a page
  of before an invalidation to be met after it, and for version 0 to be an old
  one. `MaxVersion = 0` means that Redis refuses every invalidation: cached pages
  stay stale for ever, the worst case for handlers that act on them. Expiry of
  entries is covered by `Lookup` missing. That Redis loses the version key itself
  is not modelled.
- *Requests.* `MaxAttempts = 2` instead of the client's 3: a third attempt can
  do nothing to an earlier one that the second cannot. `MaxInFlight = 2` bounds
  the requests on their way or at work at the same moment. `PruneInterval` is
  smaller than `Window` (a minute and a second in the code), so that a pruning
  may fall anywhere in a window. `TTL = 1`, `MaxTime = 2` let an answer expire.
  MCRequests starts with calls of one client about one resource, since others
  share neither window, key nor row. The sweep and the refusal of Redis happen
  at any `Put` (the code sweeps at most once a minute). One process: with
  several replicas each has a limiter of its own, as `cmd/server/main.go` logs.
- *Events.* A window needs two ends and an instant inside: four instants, of
  which the clock reaches three, so that an event can lie before, around and
  after the present and a purchase may be dated ahead. The
  three windows asked for overlap or follow each other; stopping an event makes
  shorter ones. One purchase: purchases share only the schedule.
- *Sessions.* Two requests are one that ends sessions and one that logs in or is
  let in; `MaxChanges = 1` is one revocation per operator, and a second operator
  is there for emails and for removing one another.
- *Keys.* Keys share nothing. `Hours` has zero, a short life, the largest
  allowed (2), one too long (3), one whose product wraps to a negative lifetime
  (4), and two that wrap to a short one (9, -7); `Width` is 16 where the code has
  2^64.
- *Migrations.* Two overlapping runs; `MaxBroken` bounds how often an effect
  goes without its record. Three files, of which one outside a transaction.
- *Lists.* A run explores one `area` of the tables at a time, since a page of a
  list reads only one. Three rows and pages of one or two make a first, a middle
  and a last page; two writes move a row across a cursor and back, or build an
  outfit and commit it, in the middle of a walk, or one before the walk and one
  within: without `shown` in the definition of a steady row, the run finds the
  row that a cached page 1 and a fresh page 2 skip.
  `MaxLag` is how long a commit may come after the clock was read. Keyword and
  id filters only make lists shorter; the id that breaks ties is a number.
- *Fairness* is assumed for one property, `EveryRunEnds`. `FairSpec` of the
  migrations: a process that has the lock goes on, and Postgres serves a lock's
  waiters in turn (strong fairness of `Lock`, as others take the lock in between).
  All other properties are safety properties.
- *Deadlock* is not checked: requests end, ids and revisions run out, and a
  system with nothing left to do may stop.
- Data are abstracted to what the properties distinguish: an outfit's content is
  a revision number, a vector the name it was made from, a player's purchase
  its key, an answer the row it names. Validation of bodies is left out except
  where it decides (`MinRedeem`, range of integer columns, unknown fields).
- The ledger, the catalog and the request path follow the Postgres store; the
  in-memory store that tests and a server without a database use is atomic per
  method and has none of the interleavings. Sessions, keys and lists are
  modelled in both.

## 7. What is not modelled

- Password hashing, the ranking of name search and the vectors themselves:
  functions of libraries and of the database, without a protocol.
- Conversion between JSON bodies and rows, validation that only reads one body,
  and configuration: they hold no state, and no property depends on their form.
- Command-line tools (beyond the handlers they share with the API), Docker and
  deployment manifests: wiring.
- Inside the modelled parts: `Reconcile` and the totals of `Summary`, which are
  sums over a time range that ledger rows carry no time for; resolution by
  `referenceId`; ownership checks; `LikedBy`, which decorates a page with a
  second query; names of events, operators and keys; the mark of a session's
  last use.

## 8. Plan

Done, in this order: the ledger with its refinement, because money is at stake;
the catalog with cache, engagement and embeddings; the request path; bonus
events; dashboard sessions; API keys; migrations; the lists; and proofs of every
safety property of each.

What would come next, by importance:

1. What a reader may see after Redis has lost its version key and counts again
   from 0; a version that cannot be read is in the model.
2. The composition of `CashbackEvents` with `CashbackLedger`, where `RateFor`
   asks the schedule for the instant of the purchase; each is now checked
   against every answer of the other.

## 9. How to run it

```
tlc -workers 2 -config CashbackPayouts.cfg MCCashback.tla   # also CashbackRates.cfg, CashbackDoubleClaim.cfg
tlc -workers 2 -config CatalogCache.cfg    MCCatalog.tla    # also CatalogEngagement.cfg, CatalogUnread.cfg
tlc -workers 2 -config Requests.cfg        MCRequests.tla
tlc -workers 2 -config CashbackEvents.cfg  MCEvents.tla
tlc -workers 2 -config DashboardSessions.cfg MCSessions.tla
tlc -workers 2 -config ApiKeys.cfg         MCKeys.tla
tlc -workers 2 -config SchemaMigrations.cfg MCMigrations.tla
tlc -workers 2 -config PagedLists.cfg      MCLists.tla
tlapm CashbackProofs.tla      # and CatalogProofs, EventProofs, KeyProofs, ListProofs,
                              # MigrationProofs, RequestProofs, SessionProofs
```

`PROJECT.json` lists the runs with their properties, the mutants, the lines
each definition stands for, the hazards of the code with the properties that
watch them, the findings and the theorems.
