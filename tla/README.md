# NeedToBuy: specifications, model checking and proofs

TLA+ modules for the core of NeedToBuy: logging in by a code sent by mail, the
sessions that follow, on the server and in the browser, the child profiles behind
them, a child's age bucket, and the catalog with its page. TLC checks small
instances; TLAPS proves the safety properties for every value of the constants.
Paths below are relative to the repository; `auth/` stands for
`backend/internal/auth/`, and so on.

- [The system](#the-system) · [Modules](#modules) · [Runs](#runs) ·
  [Proofs](#proofs) · [Where code and docs disagree](#where-code-and-docs-disagree) ·
  [Not modelled](#not-modelled) · [Plan](#plan)

## The system

A Go server (chi, sqlx, Postgres) and a React page. `net/http` runs every
request in a goroutine of its own. The packages keep no state in memory: all of
it is in Postgres. `auth.Querier` offers single statements and no transaction,
so **each SQL statement is one atomic step, and between two statements of a
request anything may happen**: statements of other requests, a clock tick, the
end of the process. Nearly everything that is hard in this code comes from that.

| component | state | operations | talks to |
|---|---|---|---|
| one-time codes and accounts: `auth/otp.go`, `user.go`, `mailer.go`, half of `handler.go` | tables `otp_codes`, `users` | `RequestOTP` (look at the last code, insert, mail, clean up), `VerifyOTP` (read the code, reject or consume, upsert the account, open a session) | SMTP relay; sessions |
| sessions: `auth/session.go`, other half of `handler.go`, `httpapi/router.go` | table `sessions`; user id in the request context | `createSession`, `Middleware` (lookup, expiry check, renewal), `RequireAuth`, `Logout`, `Me` | every route |
| child profiles: `child/` | table `children` | `Create`, `List`, `Update`, `Delete` | sessions, `agerange` |
| age buckets: `agerange/` | none | `CodeFor`, `IsValid` | child answers, catalog filter |
| catalog: `catalog/` | table `catalog_items`, written by migrations only | `List` | `agerange` |
| session in the browser: `frontend/src/auth`, `AppNav.tsx`, `App.tsx`, `api/client.ts` | React state: session, login stage, email, code | `fetchMe` at start, `handleRequestCode`, `handleVerifyCode`, `handleLogout` | API |
| catalog page: `frontend/src/catalog` | React state: filters, items, error, loading | reload on a filter change | API |
| startup: `cmd/server`, `config`, `db`, `migrations` | schema | migrate, connect, listen | Postgres |
| error envelope: `apierr` | none | formatting | |

What is hard, per component, and what makes it correct:

- **Codes.** Read-then-write races on the cooldown, the attempt counter and
  `consumed_at`; a cleanup that names its row only as "the newest"; a code
  consumed by a login that then fails. Correct: a code is good for one login, a
  bounded number of guesses and a limited time, codes of an email are spaced by
  the cooldown, and nobody gets into an account on a code created for another email.
- **Sessions.** `lookupSession` reads, decides and then renews, so a renewal may
  land after a logout or after a later renewal; errors in it are dropped
  (anonymous request), and so is the error of `Logout`'s delete. Correct: a
  session deleted stays deleted and admits no later request, and an unused one expires.
- **Children.** Ids come from the client. Validation and statement are two steps.
  Correct: nobody but the parent sees or touches a child, a deleted child stays
  deleted, and stored data satisfy what the code that reads them assumes.
- **Age buckets.** Pure, but `time.AddDate` overflows short months.
- **Session in the browser.** The page and the cookie learn who is logged in by
  different answers, each of which may be late, come in another order, or never.
  Correct: the page names nobody the cookie is not a session of, it ends loading, and
  its buttons come back.
- **Catalog page.** Loads for earlier filters are not aborted. Correct: what is
  presented is the listing of the filter on display, whichever answers are late.

`PROJECT.json` lists each hazard at its line with the properties that watch it.

## Modules

```
LoginGate         abstract: what login by one-time code promises
  ^ implemented by
OtpLogin          codes, accounts, opening sessions  <- MCOtpLogin, OtpLoginProofs, LoginGateProofs
  ^ extended by
OtpLimits         what is left of the limits when requests overlap  <- MCOtpLimits, OtpLimitsProofs
SessionGate       abstract: what sessions promise the handlers behind Middleware
  ^ implemented by
Sessions          session rows, Middleware, RequireAuth, Logout   <- MCSessions, SessionsProofs
SessionGate
  ^ used by (INSTANCE)
Children          child profiles over SessionGate's sessions      <- MCChildren, ChildrenProofs
Sessions
  ^ composed with (INSTANCE; its steps are steps of Sessions)
WebSession        the page, the cookie and the calls in flight    <- MCWebSession, WebSessionProofs
AgeGrid           the fixed grid of age buckets
  ^ extended by
AgeRange          the age bucket of a child, day by day           <- MCAgeRange, AgeRangeProofs
CatalogPage       GET /api/catalog and the page that calls it     <- MCCatalogPage, CatalogPageProofs
  ^ implements
CatalogView       abstract: what the page promises its visitor
```

Conventions. `h[r]` (in `Children`: `call[r]`) is the handler of request `r`:
the statement it is about to run and the locals the rest of it needs. `idle`
means the slot is free, so `Requests` is the number of requests *in flight*, not
of requests ever made. Every action carries the name of the Go function whose
statement it is. A statement that writes may fail without effect
(`DatabaseError`) or, the connection or the client being lost, after it (the
disjunct of the action that answers instead of going on). `Crash` loses all
handlers and keeps the tables. In `OtpLogin` a statement may also take effect long
after its handler was answered with an error, or died (`gone`, below); `Sessions` and
`Children` have the effect before the answer or not at all. History fields, which no guard reads, are named
as such where they are declared. Operators named `X_<what is wrong>` are mutants
of `X`, used only to see that the properties notice them.

### LoginGate, OtpLogin and OtpLimits

`LoginGate` is the promise: a code is issued, lives and dies once; a request that
presents it may claim it while it lives; only when the claimed code is dead is an
account made for the email it was issued for, or a session of that account opened.
Issued means created: the INSERT of `createOTP` comes before the mail, and a code whose
mail failed, or was never sent as the server died, is as good as any other until it
is deleted or expires. No property says that a mailbox has received a code.
`OtpLogin` is the code. The mapping: a row of `otp_codes` beyond `last_id` is
`fresh`, a `Dead` one (consumed, deleted, out of attempts, expired) is `dead`, any
other `live`. A handler at `select` presents, one past it with a match holds a claim.
So the SELECT of `verifyOTP` is the moment at which the code must be live
(`Claim`), its UPDATE one of the ways to die (`Die`), and what runs between the
two, or in between `upsertUser` and `createSession`, cannot undo it. `Die` also covers
the clock passing expiries, the cleanup of `RequestOTP`, answers without access
and the crash. `LoginGate` does not say that a code is good for one session, as the
code does not keep that with requests in flight together (`otp_replay`).

| action | code |
|---|---|
| `RequestOTP`, `VerifyOTP` | the handlers up to their first statement: decoding, `normalizeEmail`, 400s |
| `CheckCooldown`, `InsertOTP` | `createOTP`'s SELECT with the age check and `generateCode`; its INSERT |
| `SendOTP` | `SMTPMailer.SendOTP`, success or error |
| `DeleteOTP` | `deleteOTP` |
| `CheckCode` | `verifyOTP`'s SELECT, limit, expiry and hash comparison |
| `RecordFailedAttempt`, `ConsumeOTP` | its two UPDATEs |
| `UpsertUser`, `CreateSession` | `upsertUser`, `createSession` |

`gone` is a handler nobody waits for any more whose statement Postgres still has: the
request's context was cancelled, the connection broke (`Abandon`), or the server died
(`Crash` picks which of the statements under way had been sent). Its action is still
to come, at any later time, after ticks and other requests; then the slot is free.
`database/sql` answers the handler at once in these cases, without knowing.

`OtpLimits` adds one history variable: `crowd[e]`, the most handlers of email `e` that
were ever in flight together (a statement whose handler is gone counts). The server
bounds that by nothing, so what is left of the limits of `otp.go` is stated against
it. With `crowd[e] = 1` each is the limit that the comments promise, in every run in
which the requests of `e` came one after another, whatever those of other emails
did; each handler that overlapped adds at most one.

Abstractions. One clock serves Go's `time.Now()` and Postgres's `now()`; a SELECT
and the clock reading after it are one step, which only narrows the windows
already open between a SELECT and the next write. Where two rows have the same
`created_at` the order by id decides, as in the query. `hashCode` is a pair:
rows are compared with codes of their own email only, so the concatenation
`code + email` cannot mix two up. `email` spellings are model values mapped by
`normalizeEmail`. A DELETE that finds its newest row deleted by an overlapping
DELETE does nothing in Postgres; `DatabaseError` covers that outcome, the
handler answering the same. `UPDATE ... WHERE id`, `attempts + 1` and
`ON CONFLICT DO UPDATE` are atomic under READ COMMITTED. Answer codes are not
recorded. `sessions` only counts rows per user: the module `Sessions` has the rest.

### SessionGate and Sessions

`SessionGate` is the promise: a session opens once, for one user, and closes for
good; a request acts for a user only after a moment of its own at which the
session it presents was open. `Sessions` is the code: `Lookup`, `CheckExpiry`
and `Extend` are the three parts of `lookupSession`, between which anything may
happen, `Logout` is the handler with its delete, `Handle` any other route. The
mapping: a row inserted and still there is `open`, one deleted is `closed`; a request
is `granted` its user from the SELECT on (`h[r].user`), and denied when the
expiry check or the renewal says so. `generateSessionID` draws 256 random bits,
modelled as an id never drawn before. `createSession` and
`CheckExpiry` sample the clock before their statement takes effect. The two
`time.Now()` of `lookupSession` are one reading.

Two things the model shows that no property forbids, as the code promises
nothing about them: `expires_at` may move back when renewals take effect out of
order, and a renewal decided before the moment of expiry revives the session after it.
Both stay within `ExpiryBounded`; that they are the only ways is
`ExpiredStaysExpired`: a session that has expired with no such renewal on its way
stays expired, and nobody else is let in by it.

### Children

Each handler is an `Enter` (user id, validation, 400/401) and one statement. The
sessions in front are `SessionGate`'s, so what is shown here holds of any
implementation of it. Dates are days; `None` in a PATCH is an absent field; id 0
is an id that no row has or that does not parse; a malformed date is treated as
a date after today (both 400), as no property tells them apart. `shown` records
which children each user was ever sent. The share token and the timestamps are left
out; the age code of an answer is `AgeRange`'s.

### AgeRange

The package is pure: `CodeFor(birthDate, asOf)`. The module follows one child
from birth, the answers on successive days being what a parent sees. `FirstOf`
is Go's calendar (days of the Gregorian calendar from the year 0, months counted
from there too); `AddDate` adds months and keeps the day, counting on into the next
month where the day does not exist, as Go does. `Bucket` is the index that
`CodeFor`'s loop stops at: the boundary before the first one after `asOf`,
whatever the order of the later ones. The precondition `asOf >= birthDate` is
`Children`'s `BirthDateNotFuture` (`Init` starts at birth). `asOf` is a day: the
code drops the time. `Due` and `BucketDue` are the reference definition: where the
month lacks the day of birth, the first day after that month.

### CatalogView and CatalogPage

`CatalogView` is the page as if a reload were one step: it is loading, or it says
that it failed, or it shows the listing of the filter it displays. `CatalogPage` is
the code: `Choose` is a change of a filter with the render, cleanup and effect that
follow before anything else is handled; `Settle` is `.then` or `.catch` with
`.finally`; `List` is `Handler.List` with its SELECT, `Failure` its failing and the
network's. A load holds the filter it was made for and the `cancelled` of its closure.
`AfterMount` has the effect run once, or twice as `StrictMode` has it in development.
The catalog is written by migrations only, so an answer is the same at any moment,
and as the SELECT orders by id it is a set. `Accepted` checks the options of the page
(`AGE_GROUPS`, `CATEGORY_OPTIONS`) against `AgeGrid` and `validCategories`, the
same two lists kept on the other side.

The mapping hides `items` while the page loads or reports an error. The code keeps
the items of an earlier filter on display then, without a claim that they are the
answer for the present one; only a page with neither message nor load in flight makes it.

### WebSession

| action | code |
|---|---|
| `Load` | the browser loads the page; `AuthProvider`'s effect calls `me` |
| `Again` | `StrictMode` (`main.tsx:9`) has run that effect a second time: another `me` |
| `Navigate` | `Link` of `AppNav`, the browser's buttons |
| `EditEmail`, `ChangeEmail` | `onChange` of the email field; "Изменить почту" |
| `handleRequestCode`, `handleVerifyCode`, `handleLogout` | the functions of these names up to their `await` |
| `Settle` | the rest of them, and of the effect: `Resolved` is `request` of `client.ts`, `Known` the `setSession` it leads to, `Settled` what becomes of the form |
| `Middleware`, `Login`, `Answer` | the server: `Sessions`' steps up to the handler; `VerifyOTP` opening a session; the answer of `Me`, `RequestOTP`, `VerifyOTP` or `Logout` |
| `SetCookie` | the browser takes the `Set-Cookie` of `setSessionCookie` or `clearSessionCookie`, some time before the promise settles |
| `Lose`, `Crash` | the connection breaks before or after the headers; the server dies |

`Render` is what every change of the session or the path leads to: `LoginRoute`
mounts `LoginPage` only for `session === null`, and unmounting drops its state; a
call made from a `LoginPage` that is gone (`mine`) can still set the session but no
form. `jar` is the cookie with the end of its Max-Age. `route` is `"closed"` until
the first page.

Abstractions. An account is named by its email, normalized: the page shows the
spelling that was typed until it is loaded anew. The code typed, `Secure` and the
texts of errors are left out; whether `VerifyOTP` accepts is either, as `OtpLogin`
decides it. The catalog's calls are left out, they set no session. There is one tab:
no other one sends or replaces the cookie behind the back of the page, which the code
does nothing about.

`Again` is there because the frontend runs in Vite's development server
(`frontend/Dockerfile:10`), where `StrictMode` runs every effect twice, and
`AuthProvider` has no cleanup: `me` is called twice, and either answer may be the last.
A production build never takes the action. The second call is sent while the first is
in flight, as the effect runs twice in one render. When the first is answered
`LoginRoute` and `AppNav` let the user act with the second still in flight.

`smooth` is history: since the page was loaded no two logins and no two logouts have been
in flight together, no login and no logout was sent while a `me` was (`Overlaps`), and no
logout's answer has broken off after its headers. Without it `PageNamesCookie` fails:
a second click on "Выйти" is answered after the next login and clears its cookie; the
second `me`, answered before a logout and delivered after it, names a user whose cookie is
cleared; and a logout that rejects after its `Set-Cookie` leaves the page naming a
user who has no cookie. These are what the code does; nothing in the repository
says otherwise, so they are exceptions here and no findings.

## Runs

| run | shows | instance |
|---|---|---|
| `otp_liveness` | every request is answered or waits at the relay, and one that hangs there keeps no other waiting | 2 requests, 1 email, 2 rows, limit 1, TTL 0, cooldown 1, clock to 1 |
| `otp_limits` | the limits against the requests that overlapped; exact when none did | the same with 3 rows |
| `otp_two_emails` | two emails, first and repeated logins interleaved; sessions accounted for; late statements on dead codes; refinement of `LoginGate` | 2 requests, 2 emails, 2 users, 2 rows, limit 2, TTL 0, cooldown 1, clock to 1 |
| `sessions` | renewal, expiry and logout racing; refinement of `SessionGate`; an expired session stays so | 2 sessions, 2 users, 2 requests, TTL 1, clock to 2 |
| `children` | isolation of two parents, PATCH racing DELETE, validation before midnight and statement after it | 2 sessions, 2 users, 2 requests, 2 rows, clock to 1 |
| `agerange` | no bucket skipped or revisited, none early, at most two days late | 36 birth dates around ends of months, leap days and the year 2100; every day for 12 years and a month |
| `catalog_page` | refinement of `CatalogView`; loading ends | the 18 rows of the migration, 6 filters, 3 loads in flight |
| `web_session` | who the page names against whose cookie it has, under late, lost and reordered answers, reloads, a second `me` and crashes; loading only with `me` in flight, the form disabled exactly while one call of its own is | 2 sessions, 2 emails, 2 calls in flight, the clock standing still |
| `web_liveness` | the page ends loading and the form's button comes back | 1 session, 1 email, 2 calls, TTL 0, clock to 1 |
| `otp_replay`, `otp_cleanup`, `web_cookie` | the disagreements below, each a shortest counterexample | 2 requests of one email, 2 rows, limit 2, TTL 2, cooldown 2, clock to 4; `web_cookie`: 1 of each, TTL 1, clock to 2 |

Bounds. `MaxOtp`, `MaxChild` (ids ever handed out), `MaxTime` (clock) and, in
`OtpLogin`, `Room` (no request that could run out of ids) bound the runs only; they
restrict which requests arrive, never what a handler does. Three rows let an older
code become the newest again after a deletion; two requests suffice for every race
above as each involves one read and one interfering write; TTL and cooldown are
small enough for the clock to pass them, and limits of 1 or 2 small enough to be
reached. Both `crowd = 1` and `crowd = 2` occur in `otp_limits`, and with one request after
another three rows, one of them deleted or consumed, are what its exact half needs. Three loads are one current, one cancelled and one of a page left before.
In `WebSession` `Requests` also bounds the calls in flight: a race has the call that
decides and the one that comes late. Its first instance has no clock, as expiry only
takes cookies away and the properties checked there speak of who is named; the
second has it, with one session, as what must end does so whatever the session is.
The proofs have no such bounds.

Symmetry. Codes, users, requests and sessions are interchangeable, and so are emails
that have one spelling each; the runs without liveness use that. `otp_liveness`,
`catalog_page` and `web_liveness`, which check liveness, do not.

Deadlock is checked in every run but that of `AgeRange`, whose clock stops at
`MaxAge`: a request can always arrive or a handler go on.

Fairness. `FairSpec` has `WF(Handle(r))`: goroutines are scheduled and Postgres
statements return. The relay is excluded: `smtp.SendMail` has no deadline and
`SendOTP` drops its context. So are new requests, errors, crashes and the clock.
`EveryRequestAnswered` therefore excepts a request waiting for the relay.
`CatalogPage` and `WebSession` have weak fairness of the server's answer, of the
headers' arrival and of the promise settling: `fetch` settles in the end, with an
answer or an error, as TCP and the browser's own time limits give up, and React
handles it. The exception is again `requestOtp` at the relay (`AtRelay`):
`SubmittingEnds` excepts a form that waits for it. Nothing makes the user act;
`LoadingEnds` and `ReloadEnds` are about a user who stops reloading or changing
filters, as each of those starts over.

## Proofs

| module | theorem | what |
|---|---|---|
| `OtpLoginProofs` | `TypesHold` | `TypeOK` |
| | `DeadForGood` | `DeadStaysDead` |
| | `SessionsAreEarned` | `SessionsEarned` |
| `OtpLimitsProofs` | `AttemptsLimited`, `LoginsLimited`, `CooldownLimited` | `AttemptsBounded`, `LoginsBounded`, `CooldownBounded` |
| | `LoneCleanup` | `LoneCleanupUndoesOwnInsert` |
| `LoginGateProofs` | `LoginImplementsGate` | `Spec => GateSpec` of `OtpLogin` |
| `SessionsProofs` | `TypesHold`, `RevokedForGood`, `ExpiryLimited` | `TypeOK`, `NoAccessAfterRevocation`, `ExpiryBounded` |
| | `ExpiredForGood` | `ExpiredStaysExpired` |
| | `SessionsImplementGate` | `Spec => GateSpec` |
| `ChildrenProofs` | `TypesHold`, `Isolation`, `SeenOnlyByParent`, `DeletedStaysDeleted`, `BirthDatesPast` | the properties of the run |
| `AgeRangeProofs` | `TypesHold`, `NoneSkipped`, `NeverEarlyHardlyLate` | the properties of the run, for every birth date |
| `CatalogPageProofs` | `TypesHold`, `PageImplementsView` | `TypeOK`; `Spec => ViewSpec` |
| | `NoneRefused` | `NoBadRequest`, for every option of the page: the run, which has 6 filters, does not check it |
| `WebSessionProofs` | `TypesHold`, `ClaimsEarned`, `CookiesNamed`, `LoadingAsksMe`, `SubmitsOnce` | the properties of `web_session` |
| | `ServerRefined` | `Spec => Server!Spec` |
| | `ServerSafe`, `BrowserImplementsGate` | the safety properties of `Sessions` and the refinement of `SessionGate` with the browser around them |

They rest only on the named assumptions on the constants (`NoneAssumption`,
`RequestsAssumption`, `LimitsAssumption`, ...), which TLC evaluates in every run.

The arguments.

- *Bounds under concurrency.* `crowd[e]` bounds every set of handlers of `e` in flight
  (`Crowded`) and only grows. A bound on the effects alone is not inductive. What is:
  attempts already written plus the handlers about to write one more (those in
  `reject` with this row) stay within the bound, as a handler gets there only if it saw
  the counter below the limit. The same shape, "effects so far plus handlers about
  to cause one", gives the sessions per code (a handler past `select` with this
  row, all of whom read it unconsumed) and the codes per cooldown (those in `insert` for
  this email). With a crowd of one the sum collapses to the exact promise.
- *Dead codes.* Case by case over the actions; it needs that only `InsertOTP`
  writes a row as a whole, and only beyond `last_id`.
- *The cleanup, alone.* Rows are inserted in the order of their ids and of
  `created_at`, as the clock does not run back (`RowsInOrder`). As long as handlers of an
  email never overlapped nobody inserts for it between the INSERT of one and its DELETE,
  so no row of the email is newer than its own (`OwnRowNewest`); a statement whose
  handler is gone counts as in flight, so it cannot slip in either.
- *Login refinement.* `GInv` has three parts: the types; a handler past its UPDATE
  leaves its row dead (`SpentInv`: an UPDATE of a deleted row changes nothing, but that
  row is dead as well); the hash of a row is of a code for the email of the row. Lives of codes move one way
  (`LifeMoves`), and every handler keeps what it presents and claims or drops it
  (`KeptOrDropped`) except at the steps LoginGate names: `IssueStep`, `PresentStep`,
  `ClaimStep`, `SignUpStep`, `LoginStep`. All other steps are one `Die` (`DieStep`),
  of no code and no request where nothing is seen of them.
- *Earned sessions.* The user a handler holds in `session` is the account of its
  row's email (`LocalsOK`), and accounts are distinct. `SessionsInv` says it of every
  account: as many sessions as logins with its email's codes, and none before there
  is an account. `CreateSession` adds one to both (`LoginAdded`), no other step to either.
- *Revocation.* `LateInv`: a late request's session has no row now, and rows do not
  come back because `Extend` is an UPDATE and ids are not reused.
- *Expiry.* The renewal a handler holds was computed from a clock not after now.
  Of an expired session: `Extend` needs a handler at `extend`, `CheckExpiry` goes
  there only with an expiry not before its clock, and every expiry read from now on
  is the row's.
- *Refinement.* Each action maps to one of `SessionGate`'s or to a stutter:
  `Lookup` that finds a row is `Grant`, the failures are `Deny`, `Handle` is
  `Answer`, `Logout` is `Close` or, its DELETE having failed, `Answer`.
- *Children.* `GateOK` carries what is needed of the gate (an open session has an
  owner, a grant is that owner); the parent a handler holds is the owner of the
  session it presents, which never changes.
- *Age buckets.* A month has 28 to 31 days (`MonthLength`), so first days of months
  increase (`LaterMonth`). `AddDate` counts the same day of birth from the first of
  the month of every boundary, so the boundaries keep that order, with or without
  overflow (`Ordered`, `EarlierReached`; an induction over the 23 indices, spelled
  out as it is finite). Then `Bucket` is the last boundary reached (`BucketIs`) and
  moves by at most one a day; it differs from the reference by the overflow beyond
  the first day of the next month, at most 31 - 28 - 1 days (`Days`).
- *Catalog page.* At most one load is not cancelled, it is for the filter on display,
  and `loading` says whether there is one: with that, only the current load can
  change what is presented, and a step of any other is a stutter of `CatalogView`.
  `NoneRefused` goes through the options one by one.
- *Claims of the page.* `CallFits` says of each call what its answer will be worth: an
  answer of `me` or `verifyOtp` with status 200 carries an email with a session.
  The server's steps are those of `Sessions` (`ServerSteps`), whose users never change
  (`SameUsers`).
- *Page and cookie.* Needs the invariant `JInv`: while the session is `"loading"` only
  calls of `me` are in flight (`First`); as long as `smooth` holds no cookie is on its way
  while a `me` is waited for, be it the second, so the one it was sent with is the one
  there when it answers (`Tells`); logins are in flight only while nobody is logged in and
  logouts only while somebody is, one at a time and without a `me` (`OneAtATime`), so that
  the last `Set-Cookie` is that of the answer the page acts on.
- *Waiting and submitting.* `KInv` adds to `JInv` that the calls of the form are in
  flight (a form that is left lets go of its calls). What is set in `Load` or by a submit is
  undone by the step that ends the call and by no other.
- *The server under the page.* The browser's steps leave the server's variables
  alone and the others are steps of `Sessions` (`ServerRefined`), so the theorems of
  `SessionsProofs` carry over (`SameSpec`).

Model-checked only: liveness (`EveryRequestAnswered`, `ReloadEnds`, `LoadingEnds`,
`SubmittingEnds`), which rests on fairness, out of the prover's reach (`LoadingAsks`
and `OneSubmission` are the safety half of two of them and are proved); and the
violations, which are counterexamples. Every other property a run checks is proved.

## Where code and docs disagree

| property | says | run |
|---|---|---|
| `SingleUse` | `otp.go:84-85` "marked consumed so it cannot be replayed" | `otp_replay`: the UPDATE does not ask that `consumed_at` still be null |
| `CleanupUndoesOwnInsert` | `otp.go:119-122` "undoes createOTP's insert" | `otp_cleanup`: it deletes the newest row of the email, whoever's |
| `ActiveStaysIn` | design doc `2026-08-20-auth-otp-design.md:47-50`, renewed on every request "so that an active user is not logged out between visits" | `web_cookie`: the renewal moves the row's expiry, but the cookie's Max-Age is set at login only |

The first two need two requests in flight for one email; `LoginsBounded` and
`LoneCleanupUndoesOwnInsert`, with a crowd of one, show that nothing else breaks them.
The same holds of two more promises, which `otp_limits` states in the form that is left: "enforces the resend
cooldown" (`otp.go:55`; `CooldownBounded`) and five wrong attempts per code (the
design doc, line 29; `AttemptsBounded`). Two further texts are kept only in part. A
boundary of an age bucket does shift where `agerange.go:10-12` says that it does
not, by at most two days (`AtMostTwoDaysLate`): born on January 31, one month old on
March 3. A logout whose DELETE fails is answered with 200 and leaves the session
valid until it expires; `SessionGate` allows it.

## Not modelled

Left out for good: the configuration and connection code, golang-migrate (its locking is not this
code's), the format of answers (`apierr`), cookies' attributes other than Max-Age, presentational
components and styles, the admin and moderation slices (docs only, no code).
Beyond the reach of the model: sessions of cascading user deletes (no code
deletes users) and the probability of guessing a code.

## Plan

1. *Done:* `LoginGate`, `OtpLogin`, `OtpLimits`, `SessionGate`, `Sessions`, `Children`, with their proofs.
2. *Done:* `AgeRange` with its proofs.
3. *Done:* `CatalogView`, `CatalogPage`, with their proofs.
4. *Done:* `WebSession` over `Sessions`, with its proofs.
5. Left: the composition of `OtpLogin` and `Sessions`, so that whether `VerifyOTP`
   opens a session in `WebSession` is decided by the code that was created.
