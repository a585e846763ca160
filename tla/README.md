# Formal model of spaco

spaco schedules the repetition of AtCoder problems. A signed-in user registers
problems, attempts them again on the days an FSRS scheduler chooses, records how
each attempt went, and may pause an item and resume it. The backend is a Go
server (Connect RPC over HTTP) with PostgreSQL behind it; the frontend is a React
application; Supabase signs users in and issues the tokens.

This directory holds TLA+ models of the program, the TLC configurations that
check them on small instances, and proofs, checked by TLAPS, that the main
properties hold for every value of the constants.

    tlc -workers 2 -config StoreInterleavings.cfg MCReviewStore.tla
    tlapm ReviewStoreProofs.tla

The program has two halves, and what is hard differs between them.

*The server.* Several processes may run side by side and none keeps state between
two calls: all that is shared is in the database. What can go wrong is what two
calls in flight do to the same rows, statement by statement, and what a call
leaves behind that dies on the way. These models take one SQL statement per step.

*The browser.* A tab keeps a great deal: a session that other tabs change too, a
cache of answers, requests in flight, forms. What can go wrong is the order in
which promises, auth events, answers, React effects and the user act. These
models take one of those per step, and a call of the server as one step.

A third group of modules has operators only: what a value becomes on its way (an
outcome from the form to the label, a profile from the form to its columns, an error
from the database to a message), the interval the scheduler chooses, the rows a sync
of the catalog leaves, the contests a search finds, a wall clock around a switch.

The two halves meet in `ServerAnswers`: what one call may answer and what it leaves
behind, as if it were one step. The pages are modelled over these operators, and the
statements of the server are proved to implement them (`ServiceSpec`).

Contents

1. The system: parts, state, interaction, what makes each of them correct
2. The modules and the code they stand for
3. Abstractions common to the modules
4. What the runs check
5. Fairness
6. What is proved, and how
7. What the models say about the code
8. What is only model-checked, and what is not modelled
9. Plan

---

## 1. The system

Paths below are relative to `src/`; `B` stands for `backend/internal/modules`.

### Parts

| part | where | state it keeps | operations | what is hard | what makes it correct |
|---|---|---|---|---|---|
| Review records and pauses | `B/review/internal/{domain,usecase,adapter/postgres}` | tables `review_items`, `review_logs` | `RecordReview`, `PauseReviewItem`, `ResumeReviewItem` | retries after a lost answer; two calls on one item; one request id on two items; reads that are old when used; aborts in mid-transaction | a request id gives at most one log and a retry gets that log; the row is what its logs amount to; nothing is recorded on a paused item; every call ends |
| Review registration | `B/review/internal/usecase/{register_problems,register_problem_by_url}.go`, `B/review/internal/adapter/postgres` (`CreateReviewItems`) | `review_items` (new rows) | `RegisterProblems`, `RegisterProblemByURL` | overlapping lists at the same time; one statement that takes many unique keys; the catalog in another module with no foreign key | the answer accounts for each problem once; every item has its problem in the catalog; each problem is registered once |
| Review scheduler | `B/review/internal/domain/scheduler` | none (pure) | `Next` over FSRS, fuzz, clamping | rounding, fuzz and the cap near each other | Hard < Good < Easy up to the cap; intervals in 1..36500; counters and dates follow the outcome |
| Review reads | `B/review/internal/usecase/{get_today_reviews,list_review_items,get_review_item,list_registered_problem_ids,preview_review_schedule}.go` | none | today's dashboard, item list, detail, schedule preview | several queries with no common snapshot; which log is "the last" | no item is both due and upcoming; the last log agrees with the bound the domain applies |
| Account | `B/account` | tables `accounts`, `auth_identities` | `ResolveOrCreateByAuthIdentity`, `GetCurrentAccount`, `UpdateProfile` | the first requests of a new user come several at once; the loser of the race must undo its account | one account per identity, none without; every call of an identity acts for one user |
| Authentication | `B/authentication` | cache of signing keys | verify a token, resolve its identity, call the handler | order of the steps; rejected tokens must reach nothing | a handler runs only with the user of a verified token |
| Catalog | `B/catalog` | tables `contests`, `problems`, `contest_problems` | sync from AtCoder Problems, `EnsureProblem`, `FindProblems`, search | a sync against `EnsureProblem`; files with malformed, doubled or dangling rows; texts with the wildcards of LIKE | the sync never fails on a key and leaves no row that cannot be read; nothing is removed; a problem of the files has its name in the end; a search finds what it says |
| RPC handlers | `B/{review,account,catalog}/internal/adapter/rpc`, `B/authentication/internal/adapter/rpc` | none | translate messages, domain errors to codes | one error wraps another; the browser decides by the code alone | nothing is lost on the way; a login is asked for just when the token is refused |
| Server assembly | `backend/internal/app`, `backend/cmd` | process lifetime | wiring, CORS, timeouts, shutdown | – | calls in flight end before the pool closes |
| Frontend session | `frontend/src/components/{AuthProvider,AppSidebar}`, `frontend/src/routes/_auth`, `frontend/src/routes/_authenticated/-components/AuthBoundary`, `frontend/src/lib` | session context, address, refs of the guard, login form, account entry of the cache | mount, auth events, reload, sign-in, sign-out, redirects, fetch and retry | answers older than an event; a change of user with requests in flight; redirects that wait for a sign-out | nothing of one user reaches the next; the context is the stored session; no page stays blank; no redirect from a page that was left |
| Frontend review pages | `frontend/src/routes/_authenticated/-components/{ReviewDashboardPage,ReviewResultSheet,ReviewListPage,ReviewWorkspace,ProfileForm}` | cache entries, result sheet and its request id, pending toggle, profile submission | open, record, send again, pause, resume, save a profile, navigate | lost answers; refetches older than a write; answers put together from several statements | one sheet gives one attempt at most; a settled page shows the rows of the server; one toggle at a time |
| Problem registration page | `frontend/src/routes/_authenticated/-components/ProblemRegistrationPage` | search text and its debounce, contest on display, ticks, cache entries | search, choose, tick, register, register a URL | contests of an earlier search; a status older than a registration; two contests that share a problem | contests on display are those of the text; what is registered is not on offer |
| Local time of the result form | `frontend/src/routes/_authenticated/-components/{ReviewWorkspace/model.ts,ReviewResultSheet}` | the field of the form | convert, check, send | the hour that is repeated or left out | the instant sent is one the clock shows so |
| Frontend presentation | `frontend/src/components/ui`, `frontend/src/components/PageBackground`, `frontend/src/routes/-components` | none a property is about | – | – | – |
| Generated code | `backend/generated`, `B/*/internal/adapter/postgres/sqlc`, `frontend/src/__generated__`, `frontend/src/routeTree.gen.ts` | – | – | – | – |

### How they interact

    sidebar, forms, guard ──▶ auth-js ──▶ storage shared by all tabs
          ▲                      │ events, getSession
          └──── AuthProvider ◀───┘
                  │ a change of user clears
                  ▼
    page ──▶ query cache ──Connect, token of the storage──▶ interceptor (Authentication)
                                  │ verify token
                                  │ ResolveOrCreateByAuthIdentity ──▶ Account
                                  ▼
                              handler ──▶ use case (Review)
                                           ├─ reads the zone ──▶ Account
                                           ├─ FindProblems / EnsureProblem ──▶ Catalog
                                           └─ repository ──▶ PostgreSQL

Every arrow inside the server is a synchronous call. The use cases of Review call
Account and Catalog through ports, *outside* their own transactions: the time
zone a record is judged by, and the list of known problems, are read some time
before they are used. A result sheet retries a call that got no answer by sending
it again with the request id it was opened with; the answer of any record, pause
or registration invalidates every entry of the review service in the cache.

### Correctness, part by part

The hazards each property is for are listed, with their lines, in
`PROJECT.json`. The ones that shaped the models, with the file's place under the part
above:

- **Retry and reuse of a request id** (`repository.go:271`, `:298`). The log is
  looked up under the lock of the *item's row*, so two calls with one request id
  on two items do not exclude one another there: only the unique index on
  `(user_id, request_id)` does, by making one INSERT wait for the other.
- **Pause against record** (`change_review_item_pause.go:117`). Pausing reads the
  item and later writes one column, with no transaction; the record transaction
  holds the row lock and writes the other columns.
- **What is read before the row lock** (`record_review.go:90`). The zone and the
  clock are read before the wait for the row lock, so an attempt may be judged
  by a zone the account no longer has and by a clock from before the wait.
- **First access** (`account/.../repository.go:86`). Several calls of one new
  identity find nothing, each creates an account, all but one must take theirs back.
- **Overlapping registrations** (`review.sql:3`). One INSERT takes many unique
  keys, in the order of the client's list.
- **Session answers and auth events** (`AuthProvider/_.tsx:48`). `getSession` reads
  the storage at one moment and is applied at another. The effect of the mount
  counts events to notice that; `reloadSession` does not.
- **One cache for all users of a tab** (`AuthProvider/_.tsx:34`). It is cleared
  when the user changes, while requests built for the one before are in flight
  and take whatever token the storage has when they are sent.
- **A redirect that waits** (`AuthBoundary/_.hook.ts:50`). A refused token is
  discarded before the visitor is sent to the login page; meanwhile they may have
  gone elsewhere.
- **Invalidation against fetches in flight** (`ReviewResultSheet/_.hook.ts:94`). A
  refetch in flight is cancelled for a new one, a *first* fetch is joined instead.

---

## 2. The modules and the code they stand for

| module | what it is | from |
|---|---|---|
| `ReviewItem` | the aggregate: rows, guards, schedule arithmetic, choice of the latest log; operators only | `domain/review_item.go`, `domain/outcome.go`, `domain/scheduler/`, `review.sql`, migrations |
| `ReviewLedger` | abstract specification: attempts recorded one at a time | – (what the module promises) |
| `ServerAnswers` | what a call makes of the rows and what it answers, in one step; operators only | as `ReviewStore` and `Registration`, seen by a client |
| `ReviewService` | abstract specification: records and pauses are served in one step each | – |
| `RegistrationService` | abstract specification: registrations are served in one step each | – |
| `ReviewStore` | the write side, one action per SQL statement | `usecase/record_review.go`, `usecase/change_review_item_pause.go`, `repository.go` |
| `ReviewMessages` | an item as the sheet gets it, an outcome from the form to the label, the previews; operators only | `ReviewResultSheet`, `ReviewWorkspace/api.ts`, `review/.../rpc/handler.go`, `review_log.go`, `outcome.go` |
| `ReviewStoreProofs` | theorems of `ReviewStore` and `ReviewMessages` | |
| `Registration` | registering problems, one action per row of the INSERT | `usecase/register_problems.go`, `register_problem_by_url.go`, `repository.go`, `review.sql` |
| `CatalogSync` | the catalog's tables under a sync and `EnsureProblem`; operators only | `catalog/.../client.go`, `snapshot.go`, `catalog.sql`, `repository.go`, migration 00004 |
| `ContestSearch` | from the text typed to the contests found; operators only | `catalog/.../contest.go`, `catalog.sql` |
| `RegistrationProofs` | theorems of `Registration` and `CatalogSync` | |
| `AccountDirectory` | abstract specification: sign-up once, replace the profile | – |
| `Accounts` | first access and profile calls, one action per statement | `account/.../repository.go`, `authentication/interceptor.go`, account handlers |
| `ProfileValues` | a profile in the form, on the server and in its columns; operators only | `ProfileForm`, `account/.../domain`, `account.sql`, migration 00001 |
| `AccountsProofs` | theorems of `Accounts` and `ProfileValues` | |
| `QueryCache` | one entry of the query cache; operators only | TanStack Query as used, `lib/connect/errors.ts`, `lib/query/client.ts` |
| `AuthContext` | the session context of a tab, the storage, the account entry | `AuthProvider/_.tsx`, `lib/supabase/auth.ts`, `lib/connect/transport.ts` |
| `SessionFlow` | router, guard, login form, sidebar on top of it | `AuthBoundary/_.hook.ts`, `AuthForm/_.hook.ts`, `AppSidebar/_.hook.ts`, routes |
| `RequestErrors` | from the failure of a call to its code and to what the browser does; operators only | `authentication/.../interceptor.go`, `token_verifier.go`, the handlers' `connectError`, `lib/connect/errors.ts` |
| `SessionFlowProofs` | theorems of these three | |
| `QueryCacheProofs` | lemmas about the operators of `QueryCache`, for the proofs of the pages | |
| `AttemptPanels` | abstract specification: a sheet yields one attempt at most | – |
| `ReviewPages` | dashboard, result sheet, list and profile form over the cache | `ReviewDashboardPage`, `ReviewResultSheet`, `ReviewListPage`, `ProfileForm` |
| `ReviewPagesProofs` | its theorems | |
| `RegistrationPage` | the registration page over the cache | `ProblemRegistrationPage` |
| `RegistrationPageProofs` | its theorems | |
| `LocalTime` | instants and wall clocks around a switch; operators only | `ReviewWorkspace/model.ts` |
| `ResultForm` | the date and time field from its default to the server's answer | `ReviewResultSheet/_.hook.ts`, `review_item.go` |
| `Scheduler` | the interval chosen from what FSRS proposes; operators only | `domain/scheduler/scheduler.go`, `fuzz.go` |
| `CalendarProofs` | theorems of these three | |
| `MCReviewStore`, `MCRegistration`, `MCAccounts`, `MCSessionFlow`, `MCReviewPages`, `MCRegistrationPage` | instances for TLC: symmetry sets, users of sessions, a small catalog, and assumptions that evaluate the operator modules on the cases of the repository's tests | |

The exact lines behind each definition are under `map` in `PROJECT.json`.

### ReviewStore

| variable | code |
|---|---|
| `items` | committed rows of `review_items`, split in `registeredAt`, `pausedAt` (written by `UpdateReviewItemPausedAt`) and `sched` (written by `UpdateReviewItemSchedule`): the two UPDATEs touch disjoint columns and so do the two actions |
| `logs` | committed rows of `review_logs`. `rep`, the position among the item's logs, is a history field |
| `zone` | time zone of the account, read by `loadLocation` |
| `clock` | what `time.Now` answers |
| `tx[s]` | the call a session serves: `pc`, the parameters, and the local variables that outlive a statement (`zone`, `now`, the new `sched`, the `log`, the `pausedAt` to write) |

A record goes through `StartRecord` (parse, read the zone) → `BeginRecord` (read
the clock, BEGIN) → `LockReviewItem` (SELECT … FOR UPDATE) → one of
`ReplayRequest`, `RejectReusedRequest`, `RefuseRecord`,
`UpdateReviewItemSchedule` → `CreateReviewLog` or `CreateReviewLogConflict` →
`CommitRecord` → `Reply`. `AbortRecord` may strike at any place before the
commit: it stands for a lost connection, a cancelled context, a crash of the
server. A lost answer needs no action of its own: `Reply` ends the call whether
or not the client hears of it, and the client may send the same request again at
any time, also while the first call is still running.

A pause is `StartPause` (the read of the item, and of the clock) and
`UpdateReviewItemPausedAt` (the UPDATE, which waits while a record transaction
holds the row).

`ServiceSpec` reads off this what a client of a call sees: `CallOf` is the call that is
on its way, `PhaseOf` whether it has been served or refused, `AttemptOf` the attempt it
will be answered with. A record counts as served from its commit or its lookup on, a
pause from its write on.

### Registration

`catalog` and `registered` are the problem ids of `problems` and of the user's
`review_items`. A call keeps the list it was given, the row its INSERT is at
(`next`), the rows it has inserted, and those the later SELECT found.
`FindProblems` is all-or-nothing; `SkipRow` is ON CONFLICT DO NOTHING on a
committed row; `InsertRow` is enabled when no other open statement holds the key;
`CommitRows` makes the rows visible; `FindExisting` is a later statement which
sees what others have committed since. `BreakDeadlock` is PostgreSQL aborting one
member of a circle of waits. `SyncCatalog` is the environment: the catalog only
grows, as no statement of the repository deletes a problem. To a client a call is
served from `CommitRows` on, although a part of its answer is read after that.

### Accounts

`accounts` and `identities` are the committed rows. A call goes through
`Authenticate`, `FindFast`; if that finds nothing, the transaction
`FindInTransaction` → `CreateAccount` → `CreateAuthIdentity` → `CommitCreated`,
or, when the identity turned up in between, `LoseAuthIdentity` → `DeleteAccount`
→ `FindWinner` → `CommitFound`; then the handler, `GetCurrentAccount` or
`UpdateProfile`, with the id the interceptor put in the context.

### AuthContext and SessionFlow

| variable | code |
|---|---|
| `storage`, `events` | the session in `localStorage`, and the auth events that `onAuthStateChange` has yet to deliver to this tab |
| `auth`, `previousUser` | the state of `AuthProvider` and `previousUserIDRef` |
| `mount`, `reload[c]` | the `getSession` of the first effect, and of each call of `reloadSession` (retry button, login form), of which several may be on their way: asked, read, applied |
| `signOuts[c]` | `performSignOut` for its callers, the sidebar and each redirect of the guard |
| `account`, `request` | the cache entry of `GetCurrentAccount`, and its request: built, then sent with a token |
| `path`, `loginTarget` | the router's address and `redirectTo` |
| `redirectStarted`, `redirecting[r]` | `redirectStartedRef`, and the redirects that wait for a sign-out; after the ref was reset, or in another mount of the guard, a second one may start before the first has ended |
| `form` | the login form from the click to the navigation: its destination, the reload it awaits (`form.reload`), and, as history, whether news of a sign-out crossed it (`crossed`) |
| `overwritten`, `changes` | history; bound |

Each `await` splits its function in two actions, and each `useEffect` is an action
of its own that may run any time after the render whose values it tests.
`StorageChanges` is another tab, a mail link or a token refresh: it strikes
anywhere. `Visit` is a link, Back, Forward or an address typed in.

`overwritten` becomes true when an answer of `reloadSession` or the end of a
sign-out is applied although the storage has moved on *and* no event is left to
correct it; the next change of user, which clears the cache, makes it false again.
`CacheBelongsToUser`, `ContextFollowsStorage` and `PageShowsStoredUser` are excused
in that time, and only there; section 7 says what happens in it.
`SignedOutHoldsNothing`, `LoginOnlyFromItsPage` and `SubmissionReachesDestination`
have no such excuse.

### RequestErrors

An error is the sentinel it wraps. `InterceptorCode` is the interceptor's answer to a
request by its header, its token and what comes of resolving it; `CodeOf` the code of
a call, whichever of the three handlers it was for; `KindOf` what that is to the
retries of the query cache, `connectErrorMessage` and its two variants what the user
reads. A token is what `Verify` looks at: whose signature, for whom, when, which claims.

### ReviewPages

| variable | code |
|---|---|
| `server` | the user's rows: due items, paused items, logs, time zone |
| `page`, `selection` | route and `?problem=` |
| `cache`, `reads` | the entries of `GetTodayReviews`, `ListReviewItems`, `GetReviewItem` and the account, and what the request in flight of each has read |
| `panel`, `opened` | the mounted result sheet; request ids are numbered in the order of the mounts |
| `calls` | mutations on their way: sent, served or refused, and whether anyone still waits for them |
| `pending` | `pendingItemId` of the list, until its `invalidateQueries` has been awaited |
| `profile` | the submission of the profile form |
| `excused` | history: entries that nothing has told to be fetched again |

`RenderSheet` ends every action that may change what the dashboard shows: `key`
decides whether React keeps the sheet or mounts another. `GiveUp` is a failure on
the way or a timeout: a call that was sent stays in `calls` and is served later,
or never. `InvalidateQueries` has the library's two cases (refetch, join).

### RegistrationPage

`form` has what `useProblemRegistrationPage` keeps (mode, text, debounced text,
contest, ticks), `cache` the entries of the two catalog queries and of
`ListRegisteredProblemIds`. `Render` ends every action that changes what is
derived: it starts the queries that come into view and cancels those that leave
it. `told` is a history variable: per contest the problems that an answer of its
status, or of any registration, has said are registered.

### ReviewMessages, ProfileValues, CatalogSync, ContestSearch

`ReviewMessages` follows an attempt through its five conversions, each by its own
table (the keys of the form, the numbers of the protobuf enums, the domain's outcomes,
the columns, the label), and a preview from `PreviewSchedule` to the line in the sheet.
`Views` is the item as the server answers it, `FieldErrors` what the sheet checks with it.

`ProfileValues` has the two sets of checks a profile must pass, of the form and of the
server, with their different measures of length, and the columns in between.

`CatalogSync` has the three tables as sets of rows. `NewContests`, `NewProblems`,
`NewPairs` are what `convertSnapshot` and `Normalized` leave of the files, `Upserted` is
INSERT … ON CONFLICT DO UPDATE, `SyncedCatalog` the transaction, `KeysHold` and
`RowsAreRead` what the tables owe their readers.

`ContestSearch` has a text as a sequence of characters, for its property is about them:
`LikePattern` is Go's, `Like` is PostgreSQL's.

### LocalTime and ResultForm

A zone is a switch of the offset at an instant. `zonedDateTimeToDate` is the code's
two lookups, `localDateTime` the inverse. `ResultForm` opens the sheet with the
present time, lets the user type, checks, converts, sends and has the server
compare with its clock.

### Scheduler

`NextInterval` is the number of days that `Scheduler.Next` puts into `IntervalDays`,
as a function of what FSRS proposes for each rating, of the previous interval and of
the fuzz. A proposal is a number of `Parts` of a day and a fuzz factor a number of
steps below one, so that rounding, the 15, 10 and 5 per cent of the fuzz and its
choice are integer arithmetic. `MCReviewStore` assumes, and so has TLC evaluate, that
the operators give what `fuzz_test.go` expects.

---

## 3. Abstractions common to the modules

- **PostgreSQL at READ COMMITTED**, the default the code relies on (it sets no
  isolation level). Variables hold committed rows; what an open transaction has
  written is in its session's record; each statement sees the rows committed when
  it begins; a row lock lasts until the end of the transaction; an INSERT of a
  key that an open transaction has inserted waits for that transaction.
- **One user** in the review modules. Every query carries `user_id` and all keys
  begin with it, so users do not meet.
- **FSRS**: the interval is any member of `Intervals`. The memory state
  (stability, difficulty) and the notes are left out: no guard reads them. What the
  interval is, given the proposals of FSRS, is the subject of `Scheduler`, which is
  exact where float64 rounds: a sum that comes within rounding of a half, or a fuzz
  factor within rounding of one, may be off by a day in the program.
- **Days**: an instant is a tick, a zone a fixed offset. Daylight saving, where
  a day is longer or shorter than `TicksPerDay`, is not modelled.
- **`created_at`** is the value of the clock read before BEGIN; in the code it is
  the start of the transaction, an instant later.
- **Clock**: one clock for all servers, and it does not go back.
- **Ids drawn at random** (`NewUserID`, `NewReviewItemID`) are fresh.
- **Rows are not deleted**: no code deletes an item, a log, a problem or a
  committed account.
- **A refusal that changes nothing** and depends on the input alone (malformed
  ids, unknown outcome, notes that are too long, a token that fails
  verification) is no step of the state machines; `ReviewMessages`, `ProfileValues`
  and `RequestErrors` say which inputs are refused, and how.
- **EnsureProblem** is one step. It is a single autocommitted statement; that its wait
  for a sync that is writing the same problem may end before or after it without a
  difference is `SyncAndEnsureCommute`.
- **Texts** are folded alike on both sides (`ContestSearch`: `ToLower` and `lower`,
  `Fields` and `\s`), as they are for what AtCoder's ids and titles have. `trim` and
  `TrimSpace` differ on U+FEFF and U+0085, which `ProfileValues` leaves out.

In the models of the browser:

- **A mutation is one step of the server** between its sending and its answer, made
  of the operators of `ServerAnswers`. That a client may take the server so is what
  `StoreImplementsService` and `RegistrationImplementsService` prove. A refusal has
  reasons the pages do not see (an item paused, a date out of range, a request used
  for another item), so a page must expect one whenever its request has no attempt;
  that one *with* its attempt is never refused is `RetryNeverFails`.
- **Torn reads** are modelled where they occur and matter: the dashboard's query is
  two steps on the server (due items; the rest with the count), the other queries
  one each.
- **The page's view of time**: an entry counts as stale, or not, at any moment it
  comes into view (`old`), and a refetch by the window's focus is an incident
  within the bound `MaxIncidents`. The debounce may take any time.
- **The catalog** does not change while the registration page is open.
- **"/login"** stands for both forms (login, register), **"/app"** for the protected
  pages that have no redirect of their own, **"/mypage"** for a page without a
  review query.
- **Whether a profile is set up** (`SetUp`) does not change within `SessionFlow`.
- **One submission of the login form, and one save of a profile, is on its way at a
  time**, also across mounts of the form. In the code that is so within one mount.
- **A save of the profile** goes on to "/mypage" in `ReviewPages`, also for a first
  set-up, which goes on to the welcome page: neither of the two has a review query.
- **`RedirectToProfile`** runs on protected pages. That the effect may still run while
  the router is on its way to a public page is left out.
- **Errors of the account's query** are a refused token, one that is tried again
  (`transient`) and one that is not (`rejected`); the last two end in the same error
  on display, and so does an answer without an account, which is left out.
- **One switch per zone.** Others are months away, and a conversion looks at no
  instant further than two offsets from its result. Instants and wall clocks are
  integers in one unit.

---

## 4. What the runs check

| run | instance | states | checks |
|---|---|---|---|
| `StoreInterleavings` | 3 sessions, 2 items, 2 request ids, no passage of time | 488,164 | `TypeOK`, `RequestRecordedOnce`, `RowFollowsLogs`, `LogsFormChain`, `AnsweredIsRecorded`, `RecordOnlyWhileActive`, `RetryNeverFails`, `LedgerSpec`, `ServiceSpec` |
| `StoreCalendar` | 2 sessions, 1 item, 2 requests, zones 0 and 1, days of 2 ticks, clock 2..3 | 6.6 million | `OutOfOrderByLessThanADay`, `LatestLogIsLastReviewed` |
| `StoreLiveness` | 2 sessions, 2 items, 1 request id, fair | 13,776 | `EveryCallEnds` |
| `StorePauseTwice` | 2 sessions, 1 item | – | `PausedAtKept`, **violated** (section 7) |
| `Registration` | 3 sessions, 2 problems, lists up to 2 in either order, fair | 119,593 | `TypeOK`, `AnswerPartitions`, `ItemsHaveProblems`, `SameOrderNeverDeadlocks`, `RegisteredOnce`, `ServiceSpec`, `EveryCallEnds` |
| `Accounts` | 3 sessions, 1 identity, 3 ids, 2 profiles, fair | 37,636 | `TypeOK`, `OneAccountPerIdentity`, `CallsAgreeOnUser`, `SignInNeverFails`, `DirectorySpec`, `EveryCallEnds` |
| `SessionFlow` | a session each of 2 users, 1 retry, 1 change by another tab, 1 event, 1 reload and 1 redirect on their way | 3.25 million | `FlowTypeOK`, `CacheBelongsToUser`, `SignedOutHoldsNothing`, `ContextFollowsStorage`, `PageShowsStoredUser`, `LoginOnlyFromItsPage` |
| `SessionLiveness` | 1 session, the link to the profile, no other tab, fair | 167,924 | `VisitSettles`, `SubmissionReachesDestination` |
| `SessionGuard` | 1 session, 1 change by another tab, fair | – | `GuardReturnsToLogin`, **violated** (section 7) |
| `ReviewPages` | 1 item, 2 sheets, 2 calls, 1 incident, 4 of these in all | 1.41 million | `PagesTypeOK`, `SettledPagesShowServer`, `OneToggleAtATime`, `AttemptsSpec` |
| `RegistrationPage` | 2 contests that share one of 2 problems, 1 change of the text, 2 calls, 1 incident, 2 of the last two in all | 424,363 | `RegistrationPageTypeOK`, `SettledSearchMatchesText`, `SettledOffersNothingRegistered` |
| `ResultForm` | offsets 1 and 2, switch anywhere in 0..6 | – | `DefaultIsNotInTheFuture`, **violated** (section 7) |

The numbers of states are after symmetry reduction, which is used in safety runs
only (ids are interchangeable and no property names one). Deadlock is checked
except in `SessionLiveness`, where few links lead away and a tab may come to rest.

Why the bounds are enough to meet the cases the properties are for:

- `StoreInterleavings`: three sessions are a call, its own retry, and a third
  call that pauses the item or spends the same request on the other item. Two
  requests let one item have a second log, so that `LogsFormChain` and
  `RowFollowsLogs` speak of a successor. Time stands still because no guard
  between the sessions depends on it; `StoreCalendar` lets it move.
- `StoreCalendar`: a call may commit between another's reading of the zone and of
  the clock and its lock of the row; attempts may be performed at every tick from 0
  to beyond what the clock skew permits, and the zone may change at any moment.
  Longer histories of attempts are left to the theorems `OutOfOrderBounded` and
  `LatestLogAgrees`, which have no such bounds.
- `Registration`: with two problems a circle of two sessions occurs, with a third
  session waiting behind it or winning the race. A circle of three needs three
  problems; `OrderedListsNeverDeadlock` covers circles of any length.
- `Accounts`: two losers for one winner. Identities do not share rows, and the
  theorems hold for any number of them. Ids beyond three change nothing: a call
  that loses gives its id back.
- `SessionFlow`: two sessions of two users, one of whom has not set up a profile,
  are a change of user, a sign-out and a sign-in in every order with a request or
  a `getSession` in flight. One event on its way is enough for an answer to come
  before it or after it; more events only repeat that. One reload may already be
  overtaken by an event or a sign-out, and one redirect by a visitor; a second one of
  either shares no state with the first but the context and the ref, which the steps
  of the instance set in every order. The theorems have none of these bounds: they
  hold for any number of events, reloads and redirects.
- `SessionLiveness`: one link is enough for the page to change while a redirect waits.
  With links to and fro a visitor may call redirects off for ever, which refutes
  `VisitSettles` without saying anything of the code.
- `ReviewPages`: the properties relate two writes, or a write and a refetch, or a
  write and one disturbance. Two sheets for one item are a sheet closed after a lost
  answer and opened again. With one item the due list, the upcoming list and the
  count can still contradict one another, which is what a torn read is.
- `RegistrationPage`: the shared problem is registered through one contest and
  offered by the other, whose status may have been read before or be on its way; two
  calls are a registration that overtakes another. Problems beyond the check limit
  are not on the instance: the property does not speak of them.

### The properties, in words

*ReviewStore.*
`RequestRecordedOnce`: a request id yields at most one log.
`RowFollowsLogs`: an item's row is what its logs amount to (count, lapses, next
date, interval, latest attempt).
`LogsFormChain`: each log starts from the schedule the previous one ended with.
`AnsweredIsRecorded`: an attempt a client is told of is in the table, under its
request and its item.
`RecordOnlyWhileActive`: no attempt is committed on an item that is paused then.
`RetryNeverFails`: a call whose attempt has been recorded for its item is never
told of a refusal or of a reused id.
`OutOfOrderByLessThanADay`: whatever the changes of zone, an attempt was
performed less than a day before any recorded earlier and less than a day before
the registration.
`LatestLogIsLastReviewed`: the log shown as the last one was performed at the
instant `schedule()` compares a new attempt with.
`LedgerSpec`: ReviewStore implements ReviewLedger, the tables being the same in
both and `zone` and `tx` hidden.
`ServiceSpec`: ReviewStore implements ReviewService: to its client each call looks as if
it had been served in one step, with an answer about the rows of that moment.

*Registration.*
`AnswerPartitions`: an answer accounts for every problem asked for, as new or
as registered before and never as both.
`ItemsHaveProblems`: `registered` stays within the catalog.
`RegisteredOnce`: no call is told of a new item that another had registered.
`SameOrderNeverDeadlocks`: calls whose lists follow one order of the problems
never wait in a circle.
`ServiceSpec`: Registration implements RegistrationService: all problems of a call are
registered at once, and the answer tells which had been registered at that moment,
whatever others register before the rest of it is read.

*Accounts.*
`OneAccountPerIdentity`, `CallsAgreeOnUser`: see section 1.
`SignInNeverFails`: neither `ErrAccountNotFound` nor "find concurrently created
auth identity" can be answered.
`DirectorySpec`: Accounts implements AccountDirectory.

*AuthContext and SessionFlow.*
`CacheBelongsToUser`: data in the cache, and the request in flight, belong to the
user on display or to one whose event is on its way.
`SignedOutHoldsNothing`: while nobody is signed in there is nothing in the cache and
nothing in flight.
`ContextFollowsStorage`: with all events delivered the context is the stored session,
whatever the `getSession` of the mount answered in between. The answers of
`reloadSession` and of a sign-out are not guarded like that one: the time from one that
is applied after the event which it should have preceded to the next change of user is
excepted (`overwritten`; section 7).
`PageShowsStoredUser`: a protected page on display shows the account of the user
whose token the next request will carry.
`LoginOnlyFromItsPage`: a redirect to the login page leaves from the very page it
will come back to.
`VisitSettles`: a protected page does not stay blank, except as section 7 says.
`SubmissionReachesDestination`: a submission of the login form that signs in goes to the
destination it was sent with, from wherever the tab is by then; the context does not say
"signed out" there, unless somebody has signed out since; and no submission stays pending.

*ReviewPages.*
`SettledPagesShowServer`: once the answers of this tab's calls are in, what a page
shows without a fetch under way is what the server has, whole.
`OneToggleAtATime`: a mounted list has one toggle under way at most, and says so.
`AttemptsSpec`: ReviewPages implements AttemptPanels, `sheet` being the request id
of the mounted sheet and `shown` the attempt it confirms.

*RegistrationPage.*
`SettledSearchMatchesText`: contests on display when the page is not searching are
those of the text in the field.
`SettledOffersNothingRegistered`: with the status of a contest settled, nothing that
this status, or a registration of this tab, has said is registered can be ticked.

For each property `PROJECT.json` names a *mutant*: an operator in the module, set
before the one it replaces and marked `mutant`, that changes the model the way a
plausible mistake in the code would (no FOR UPDATE, no unique index, ON CONFLICT
DO NOTHING left out, two checks swapped, …) and with which the property fails. The
mutants of the three `EveryCallEnds` are of a server that treats a unique violation as
worth another try of the same statement, for ever: PostgreSQL's error as such would end
the call.

### Assumptions that TLC evaluates

The operator modules have no run of their own. The MC module of a run extends them, and
its assumptions compare them with the cases of the repository's tests and with
reference definitions, over all small inputs:

| MC module | what it assumes |
|---|---|
| `MCReviewStore` | `FuzzAgreesWithAnki`, `MinimumAgreesWithAnki`: `Scheduler` on the numbers of `fuzz_test.go`; `OnlyKnownOutcomesAreTaken`, `ColumnsAreRead`: `ReviewMessages` on all enum numbers and columns, known or not |
| `MCSessionFlow` | `InterceptorAnswersAsTested`: `RequestErrors` on the cases of the interceptor's tests; `CodesOfTheServer`: the codes that its own errors get |
| `MCAccounts` | `ProfilesTakenAsTested`; `FormSendsWhatIsTaken`: the form's checks and the server's agree on all lengths around the limits; `NewAccountIsRead` |
| `MCRegistration` | `FirstGoodRowsAreTaken`, `EmptySnapshotIsNone`, `AddedRowsAreFound`: `CatalogSync` on rows that are malformed, doubled, dangling or at the limit |
| `MCRegistrationPage` | `SearchFindsTexts`: for all short texts over letters, a blank and the three characters with a meaning to LIKE, a contest is found just if its folded id or title has the folded query in it; `PatternsAsTested`; `NewestAreFound` |

What the operators do for *every* input is the subject of theorems (section 6), but for
`ContestSearch`, which is recursive.

---

## 5. Fairness

The safety properties need none. On the server, liveness assumes per session:

- **WF of the server's own steps** (`Serve`): a handler that has begun goes on;
  it waits for nothing but the database.
- **SF of the steps that wait for another transaction** (`LockReviewItem`,
  `Insert`, `UpdateReviewItemPausedAt`; `TakeRow`; `InsertAuthIdentity`):
  these are enabled and disabled again by other calls. PostgreSQL queues the
  waiters of a lock and of a transaction and serves them in turn, so one that
  could proceed again and again does in the end.
- **WF of `BreakDeadlock`**: a wait that lasts longer than `deadlock_timeout` makes
  PostgreSQL look for a circle and abort a member of it.

No fairness is given to aborts, to new calls, to the clock, to a change of zone or
to the catalog's sync: the calls end without their help.

In the browser (`FairSpec` of SessionFlow):

- **WF of promises, requests and events**: `getSession`, sign-outs and requests are
  answered, with success or with an error; auth events are delivered; the
  submission of the form is answered; an entry that is pending is fetched by the
  page that shows it.
- **SF of the effects** `StartRedirect`, `RedirectAtOnce`, `RedirectToProfile`, and
  of `FormNavigates`: React runs an effect after every render that changed what it
  tests, and an `await` goes on once its own promise is settled. A refetch or a
  retry may soon disable the step again, so that weak fairness would say nothing.

Users, other tabs and token refreshes need not do anything.

---

## 6. What is proved, and how

All theorems are proved for every value of the constants that satisfies the named
assumptions: any number of sessions, items, requests, identities, problems, any
set of zones and of intervals.

Assumptions, each evaluated by TLC in every run of the module:
`ReviewItemAssumption` (intervals and days are positive, offsets are integers,
`None` is not a value), `ReviewStoreAssumption` (the clock starts before it
stops), `AccountsAssumption` (`None` and `Unset` are not values),
`RegistrationAssumption` (a list may hold a problem), `AuthAssumption` (which user a
session belongs to; the values that stand for nobody are no users),
`NoDataIsNoAccount`, `RetriesAssumption`, `LinksAssumption`, `PagesAssumption` (the
keys of the cache are distinct, the bounds are numbers), `CatalogAssumption` (blank
texts are no identifiers), `ZonesAssumption` (the zones a profile offers without being
asked are known to the server), `ContestSearchAssumption`, `RegistrationPageAssumption`
(the catalog is sequences of contests and problems, and an answer is not the value
that stands for none). `FormConstants` (the
offsets and instants of `ResultForm` are integers) is an assumption of its
theorem.

### ReviewStoreProofs

`TypeOK` alone is not inductive, and neither is any of the other invariants. The
proof is in layers, each using the ones below it:

1. **StoreInv** = `TypeInv` ∧ `LocksExclusive` ∧ `DraftsCurrent` ∧
   `RequestsDistinct`.
   - `TypeInv` strengthens `TypeOK` by what is set at each place.
   - `LocksExclusive`: two sessions never hold one item. From it, the schedule a
     session has locked is still the row's when it commits.
   - `DraftsCurrent`: the schedule and the log a session is about to write are what
     `ScheduleAfter` and `LogOf` make of the *current* row, for an attempt not
     refused *now*; and an answered log is committed. This makes the commit an
     atomic `Record` of the ledger.
   - `RequestsDistinct`: sessions past the INSERT have different requests, none
     of them committed, and committed logs have different requests. This is where
     the wait on the unique index is needed.
2. **RetryInv** adds that a session that has passed the lookup under its lock has
   no log of *its own item* with its request: others may commit the request, but
   only for other items, for want of the lock. Hence `RetryNeverFails`.
3. **HistoryInv** relates rows and logs: for each item, `RowFollowsLogs` with the
   finiteness of its logs that the counting needs, and `LogsFormChain`.
4. **OutOfOrderByLessThanADay** is inductive on top of these: the attempt about to
   be recorded is on no earlier day than `last_reviewed_at`, *both taken in the
   zone the call has read*; two instants of one day are less than a day apart in
   any zone; and by `RowFollowsLogs` no log is later than `last_reviewed_at`.
   `LatestLogIsLastReviewed` follows from `HistoryInv` and the types.

`StoreImplementsLedger` is the refinement: `Init` maps to the ledger's `Init`;
`CommitRecord` to `Record`; `UpdateReviewItemPausedAt` to `SetPausedAt`; `Tick` to
`Tick`; all else leaves `items`, `logs` and `clock` unchanged.

`StoreImplementsService` maps every session to a call of `ReviewService`. A commit is
`ServeRecord` with a new attempt: by `DraftsCurrent` the item is not paused, by
`RequestsDistinct` nobody has its request. A replay is `ServeRecord` with the old one,
a refusal one with none, and that one is allowed to happen because, by `RetryInv`, the
request of the call has no log of its item. The write of a pause is `ServePause`.
`ReviewLedger` and `ReviewService` look at the same steps from two sides: the first
says what becomes of the tables, the second what a client is told.

Theorems: `TypeCorrect`, `RequestsRecordedOnce`, `AnswersAreRecorded`,
`RecordsOnlyWhileActive`, `RetriesNeverFail`, `RowsFollowLogs`, `LogsAreChained`,
`OutOfOrderBounded`, `LatestLogAgrees`, `StoreImplementsLedger`,
`StoreImplementsService`.

Of `ReviewMessages`:

- `OutcomeReachesLabel`: for each result and difficulty the user may pick, by cases, the
  label of the answer says just these.
- `PreviewMatchesRecord`: the sheet finds one preview for its fields, and a record of the
  same outcome under the same conditions sets the date that it shows. A result that is
  not independent has one preview, an independent one a preview per difficulty.
- `StoredLogsReadBack`: `LogOf` of a valid row is a log `RehydrateReviewLog` takes; with
  `StoreInv` that is so of every log in every reachable state.
- `SheetSendsWhatIsTaken`: the sheet's checks, on the view of the present row, imply
  the server's, but for a pause. It needs `RowFollowsLogs` and `LatestLogIsLastReviewed`:
  the sheet compares with the last log, the server with `last_reviewed_at`.

### RegistrationProofs

**RegistrationInv**: the tables are sets of problems, `registered ⊆ catalog`;
`CallInv` for each call (what it has gone past is inserted or registered, what it
has inserted is not both new and another's, past `FindProblems` its list is in the
catalog); and `OpenRows`: rows held by open statements are not registered and not
held twice. `CallInvMonotone` says `CallInv` survives other calls' growth of the
tables, so each action needs a look at one call only.

`OrderedListsNeverDeadlock` is a combinatorial argument, with no invariant beyond
the above: a session that waits for a problem has inserted only problems that
come earlier in its list. In a circle, take the session that waits for the
problem that is *least* in the common order. Some other member of the circle
waits for it, that is for a problem it holds, which is earlier in its list and
so less: a contradiction.

`RegistrationImplementsService`: `CommitRows` is `Serve`, for what the call has inserted
is what was not registered (`OpenRows`), and with what was it is the whole list
(`CallInv`). `FindExisting` is a stutter: the later read finds what the answer says
already, the list without what was inserted, because no other commit takes anything
away. The rest sends a call, ends one, or shows nothing.

Theorems: `TypeCorrect`, `AnswersPartition`, `ItemsAlwaysHaveProblems`,
`ProblemsRegisteredOnce`, `OrderedListsNeverDeadlock`, `RegistrationImplementsService`.

Of `CatalogSync`, for all files and all tables. The lemma `NewRows` says what
`convertSnapshot` and `Normalized` are for: the rows they leave are read back, and no two
have the same key, so that no upsert meets a row twice.

- `CatalogStaysSound`: a sync and an `EnsureProblem` keep the primary and foreign keys and
  leave no row that cannot be read back.
- `SyncRemovesNothing`: every id and pair stays, and the same sync again changes nothing.
- `SyncAndEnsureCommute`: whichever of the two commits first, the tables come out the
  same. So a name from the files is never lost to a URL that is registered meanwhile.

### AccountsProofs

**AccountInv** = `TypeOK` ∧ `OneAccountPerIdentity` ∧ `CallsAgreeOnUser` ∧
`SignInNeverFails` ∧ `IdsDrawnOnce` (ids in use by calls are distinct and, until
committed, not in the table) ∧ `InsertedBeforeCommit` (an identity inserted and
not committed is not in the table, and is inserted by one call only) ∧
`LosersHaveWinners` (a call that has lost finds its identity in the table).

Theorems: `TypeCorrect`, `AccountsAreUnique`, `CallsAgree`, `SignInsSucceed`,
`AccountsImplementDirectory`.

Of `ProfileValues`: `SavedProfileIsComplete` (what the form lets through the server takes;
saved, it is read back, completes the setup and fills the form with what was saved) and
`StoredValuesCanBeSaved` (the form of a stored account may be sent again as it is).

### SessionFlowProofs

**AuthInv** is inductive: `TypeOK` ∧ `CacheBelongsToUser` ∧ `ContextFollowsStorage` ∧

- `LastEventIsStored`: the last event on its way is about the stored session, so
  that delivering all of them ends there;
- `MountIsFirst`: while the `getSession` of the mount may still be applied, no event
  has been delivered – which is what counting the events achieves;
- `UserFollowsStorage`: with no event on its way `previousUser` is the stored user;
- `ContextHasUser`, `NobodyHoldsNothing`: the context and `previousUser` agree, and
  for nobody the cache is empty.

The steps of the pages (`GoTo`, effects, form) touch the entry and its request only
by starting or dropping a fetch, so each needs one lemma for the part of the state
it shares with `AuthContext`. Theorems: `AuthInvariant`, `CacheIsOfItsUser`,
`SignedOutIsEmpty`, `ContextIsStored`, `PageIsOfStoredUser`,
`LoginRemembersItsPage`.

**FlowInv** is about the pages alone and strengthens `FlowTypeOK` by one conjunct: a
form that is not idle has a protected page for its destination. Without it the form
could navigate to no page at all; `Submit` establishes it, because
`SafeRedirectPath` answers a protected page for every address. Theorem:
`FlowTypeCorrect`, which takes `TypeOK` from `AuthInvariant`.

**SignInInv** is what `SignInIsKnown` rests on, the safety part of
`SubmissionReachesDestination`: while a submission awaits its reload and no sign-out has
crossed it, there is a session in the storage, in every event on its way and in what
every reload has read, and the `getSession` of the mount has been overtaken
(`OnlySignedIn`); so nothing is left that could set the context to "unauthenticated".

Of `RequestErrors`, by cases over the sentinels: `HandlerNeedsTrustedToken`,
`OnlyRefusedTokensNeedLogin`, `OnlyTransientErrorsAreRetried`, `RetriesAreTheCodes` (the
kinds of errors in the page models are those of the codes) and `MessagesNameTheRefusal`.

### ReviewPagesProofs

The bounds `MaxPanels`, `MaxCalls`, `MaxIncidents`, `MaxSteps` are constants like the
others: the theorems hold for all of them.

**SheetInv** is about the sheet, the calls and the table:

- `CallsOK`: what a call carries fits its kind, the request of a record is one that a
  sheet was opened with, and the answer of a served record is a log in the table
  under that request;
- `OneAwaited`: at most one call is awaited by the mounted sheet, and then the sheet
  is sending. A sheet that is sent again has given up the call before, which is why
  a late answer cannot confirm another outcome;
- `LogsOpened`: no log has the request of a sheet that is still to be opened, so that
  opening one is a step of `AttemptPanels`;
- `ToggleShown`: of the toggles the mounted list has sent one at most is unanswered,
  and `pending` says so. Leaving the list makes all calls those of no caller.

The refinement is then one lemma per kind of step: a served record with a new log is
`Record`, its answer `Confirm`, a rendering `Open` or a stutter, the rest stutters.

**CacheInv** is about the entries and their requests. An entry is `Fresh` if, unless
a served call whose answer is awaited is about to invalidate it (`NoNews`), its data
are the rows or it is marked, and its request has read nothing older. Data that are
right are no invariant: between the commit on the server and the answer they are
wrong and unmarked, and nothing in the tab can tell. The rows of a call that its
client has given up are excused, and so is a first fetch that is joined; no step
needs any other excuse.

Theorems: `PagesTypeCorrect`, `SettledPagesAreCurrent`, `TogglesOneAtATime`,
`PagesImplementAttempts`.

### RegistrationPageProofs

What is on display depends on the page's state *and* on the entries (the contest on
display is found among those the search shows), and a rendering changes both. So a
step that ends in one is split in the entries it leaves and the rendering of those;
`RenderedEntries` shows that the rendering observes what it has computed: starting
and cancelling fetches changes no data, and the one entry whose being pending counts,
the search, is taken into account beforehand (`again` in `Render`).

**PageInv**: `RequestsOK` (requests belong to what is on display, and `StatusOK` for
the status of each contest: marked and on display it is being fetched or has failed;
its data and what its request has read have what the tab was told, unless it is
marked or joined), `SearchOK` (the search on display has an answer, an error or a
request), `FormOK` (the text whose contests are held has an answer), `TableOK` (what
was told is registered, for no registration is undone).

Theorems: `RegistrationPageTypeCorrect`, `SearchMatchesText`, `RegisteredIsNotOffered`.

### CalendarProofs

`ConversionIsExact`: a wall clock that is shown at some instant is converted to an
instant at which it is shown, whatever the offsets. `RoundTrip`: the conversion
of an instant's wall clock gives it back unless the clock shows it twice.
`AheadTakesTheLater`: if it does, in a zone that is not behind UTC, the *earlier* of
the two comes back as the later one. `SentIsAsShown` carries the first through
the behaviours of the form. All four are linear arithmetic after a split on which
side of the switch the guess lies.

The theorems about `Scheduler` hold for every resolution, every longest interval and
all proposals (`SchedulerConstants` says only that the constants are positive). They
rest on two facts about division: `RoundedAtLeast` (a rounded quotient is at least q
just if the dividend says so) and `FactorChooses` (a factor below one chooses none but
the days of its range). From these, `FuzzBoundsInRange` and `ApplyInRange`, and along
the three passing ratings `PassingChain`.

- `NextIntervalInRange`: an interval is in 1 .. the longest. This is what
  `ReviewItemAssumption` takes for granted of `Intervals`.
- `RatingsKeepTheirOrder`: Hard < Good < Easy, unless Good, or Easy, is at the longest.
- `FuzzNeverShortens`: if the proposed interval, rounded, is not below the previous
  one, the chosen one is not either; if it is longer, so is the chosen one, up to the
  longest. The step that needs an argument is `FuzzReachesWhatRoundingReaches`: only
  if the fuzz reaches up to the previous interval does the code keep it for a bound.
- `FirstEasyIsLongerThanGood`: for a new card, as long as what is proposed for Good is
  below two and a half days.

---

## 7. What the models say about the code

**The instant of a pause can be replaced** (`StorePauseTwice`). The comment on
`Pause` (`review_item.go:239`) says an item that is paused keeps the instant of
its pause. The use case reads the row and writes `paused_at` in a later
statement with no condition on what it read, so of two pauses that both read an
active item the second to write replaces the instant of the first. The API shows
only whether an item is paused, so no client can tell today.

**A page may stay blank after a sign-out** (`SessionGuard`). The frontend's README
(`frontend/README.md:105`) says that when a session is discarded the guard takes the
visitor back to the login page. A refused token is being discarded, the visitor goes
to another protected page, the discarding ends: the redirect finds the address
changed and leaves it alone, but `redirectStartedRef` stays set, and the effect
returns at `AuthBoundary/_.hook.ts:44` from then on. Nobody is signed in and the page
is blank until it is left or loaded again (`Stranded`). `VisitSettles`, checked with
such a link, shows that pages do not stay blank otherwise.

**The context can be left behind the storage.** The comment of `AuthProvider`
(`_.tsx:67`) says that the context is always brought to the newest session. The effect of
the mount counts auth events, so that its own `getSession` cannot undo one.
`reloadSession` (lines 48 to 60) and a sign-out (97 to 104) apply what they have in hand,
whatever event has come in between: a reload reads session one, another tab stores session
two, its event is delivered, the answer of the reload puts session one back. No event is
left to correct it; until the next one the context and the cache are of the session
before. The requests of the page carry the token of the storage all the same
(`SendRequest`), so that data of another user may come into the cache beside theirs.
`overwritten` marks just this, and three
properties are excused by it; the steps are in the model as in the code.

**The default time may be refused as a future one** (`ResultForm`). The comment of
`zonedDateTimeToDate` (`model.ts:85`) says that the offset is right around a switch
too. In a zone ahead of UTC, during the hour before the clock is put back, the
field's own default (now) is sent as the instant one hour ahead, and the server
refuses it. `AheadTakesTheLater` says for which zones; `RoundTrip` that no other
instant is affected.

**"Last log" has two meanings.** `review.proto:99` calls `last_log` the attempt that
was *recorded* last; the query orders by `performed_at` before `created_at`, so it is
the one *performed* last. They differ when two attempts of one day are entered in the
opposite order. `LatestLogIsLastReviewed`, which is proved, shows that the query's
meaning is the one the rest of the program relies on: it agrees with
`last_reviewed_at`, the lower bound `schedule()` applies.

**A saved profile leaves the old zone on the review pages.** Only the account entry
is invalidated (`ProfileForm/_.hook.ts:46`); `ServeProfile` excuses the others.

**A first Easy is longer than a first Good with the present parameters only.** The
comment at `scheduler.go:145` says always. The bound for Easy is taken from the
proposal for Good as it is, the interval of Good from the same proposal rounded, and the
fuzz may take the two to different days: with proposals of four and a half days for
Good and five and a quarter for Easy, and a factor of two fifths, Good and Easy both
become five days. The default parameters propose 2.3065 days for Good, where
`FirstEasyIsLongerThanGood` shows the comment right, and there are no others yet
(`fsrs.go:9`).

**Registrations can deadlock in the database.** Two calls with overlapping lists
in different orders may wait for one another; PostgreSQL aborts one and its
client gets an internal error. Nothing is lost (`EveryCallEnds`,
`AnswerPartitions`), and the client can send the list again.
`OrderedListsNeverDeadlock` proves that lists in one common order – sorted by
problem id, say – rule this out.

---

## 8. What is only model-checked, and what is not modelled

*Only model-checked*:

- `EveryCallEnds` of the three server modules, `VisitSettles`, and of
  `SubmissionReachesDestination` that no submission stays pending: liveness under
  fairness is beyond the proof system's reach.
- `ContestSearch`: matching is recursive, and what a recursive definition computes for
  every text is beyond it too.

Every other property of a passing run is proved as well. That the pages and the server
fit together is shown through `ServerAnswers` and the two services, which are proved
of the one and assumed by the other; the two are not run together.

*Not modelled, and why*; see `components` in `PROJECT.json`:

- FSRS (`fsrs.go`): powers and exponentials of floating-point numbers, which TLA+ has
  none of. `Scheduler` and its theorems take what it proposes for any numbers; that it
  proposes more for a better rating is neither modelled nor assumed. Nor is the seed of
  the fuzz: that a preview and the record after it agree rests on their having the same
  item and count.
- Two syncs of the catalog at once: the sync is a batch that runs one at a time. Two
  might wait for one another's rows, and PostgreSQL would abort one, with nothing lost.
- The download of the catalog's files and the parsing of a problem's URL: no state.
- The cryptography of tokens and the refresh of the key set: `Verify` takes for granted
  whose signature a token has.
- The order and the counts of what the review pages read, and search and filter of the
  list: no state that another step reads.
- Server assembly: wiring, CORS, timeouts.
- A profile that becomes set up during a visit, in `SessionFlow`.
- Rendering, styles, vendored interface components, generated routes and queries.

---

## 9. Plan

Done, in this order: `ReviewItem`, `ReviewLedger`, `ReviewStore` and proofs;
`AccountDirectory`, `Accounts` and proofs; `Registration` and proofs; `QueryCache`,
`AuthContext`, `SessionFlow` and proofs; `AttemptPanels`, `ReviewPages` and proofs;
`RegistrationPage` and proofs; `LocalTime`, `ResultForm` and proofs; `ServerAnswers`,
`ReviewService`, `RegistrationService` and the proofs that the server implements them;
`Scheduler` and proofs; `ReviewMessages`, `RequestErrors`, `ProfileValues`, `CatalogSync`
and proofs; `ContestSearch`.

Left, in order of what it would add:

1. Liveness of the pages: every invalidated entry on display is fetched in the end,
   if requests are answered and the user stays.
2. `AuthContext` over a server that is proved to be `Accounts`, as the review pages are
   over `ReviewService`.
3. The state of the dashboard and of the list that is derived from what they read
   (counts, filter, order), against the rows.
