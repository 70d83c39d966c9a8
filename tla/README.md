# Verification of AD Sync Manager

This directory holds TLA+ models of AD Sync Manager (`src/`), the TLC runs that
check them on small instances, and proofs, checked by TLAPS, of what holds for
every instance. It is meant to be read beside the code: `PROJECT.json` maps each
definition to the lines it stands for.

The program is a Go web server. It shows and edits employees kept in an Active
Directory, applies batches of corrections written in Markdown, keeps an audit
trail in a file and a database, watches the directory for changes nobody made
through it, and mirrors employees into SQLite. Requests run on goroutines that
share package-level maps; every LDAP and SQL call may be slow or fail.

## 1. Inventory

| Component | State it keeps | Operations | Talks to |
|---|---|---|---|
| Employee directory (`internal/employee`) | `pkgCache` with a TTL per entry, `listVersion` | list, get, update (look up old values, modify each attribute, audit, invalidate, read back) | Active Directory, audit |
| Active Directory (external) | one entry per employee | search, modify | edited by others too |
| Audit pipeline (`internal/audit`) | a buffered channel, a file, the table `audit_logs` | `Log`, `drain`, `Close`, queries | called by every handler and by the checker |
| Process (`cmd/server/main.go`) | the deferred calls | start, signal, graceful shutdown, exit | closes all of the above |
| Integrity checker (`internal/integrity`) | the lock `running`, `last`, the table `integrity_baseline` | check at each tick, reset, report | Active Directory through the lister, audit |
| Login sessions (`internal/auth`, `middleware/auth.go`, `auth_handler.go`) | the deny-list, the credential cache, the tokens clients hold | login, `RequireAuth`, logout | Active Directory; the employee repository binds with the credential found |
| Markdown correction (`internal/markdown`) | none but a request's own | validate, apply | Active Directory, audit; not the employee cache |
| Synchronisation (`services/sync_service.go`, `repositories`) | table `employees`, `last`, the LDAP connection | run, status | Active Directory over one long-lived connection |
| Notes (`services/note_service.go`, `note_repo.go`) | one JSON file per note | create, update, list, delete | file system |
| Routing and groups (`handlers/router.go`, `rbac.go`, `auth/middleware.go`) | none | match the groups of a token against a configured group, twice and differently | sessions, browser |
| Browser session (`frontend/.../AuthContext.tsx`, `api.ts`, `ProtectedRoute.tsx`, `LoginPage.tsx`) | token in `localStorage` and in the page, user, permissions, spinner | login, load profile, logout, 401 interceptor, navigation | the REST API; other tabs through `localStorage` |

What is hard, and the properties that make each part correct:

* **Cache against directory.** A read and an update are several steps, and the
  invalidation is one of them. Lists and updates must be those of a service
  without a cache (`ImplementsService`), so that no list is older than an update its
  sender may know of; a single read should not be either, and can be
  (`GetServesCommitted`), but only through a read that was under way when the record
  was invalidated, or a failed update (`StaleOnlyIfLate`); and what went wrong must
  not stay (`CacheConverges`).
* **Trail against directory.** A modification can be made and its answer lost.
  Every change the program made is in the trail, but for those that the requests
  of a killed process were about to log, and what the trail reports done was done
  (`TrailMatchesDirectory`). The old value it names was in the directory when the
  request looked, or it is empty (`AuditedOldWasHeld`).
* **Queue and shutdown.** A full buffer drops, a closed channel panics, a logger
  fails, main waits for drain. Nothing accepted is lost, doubled or reordered
  (`ImplementsChannel`, `TrailsInOrder`), what is accepted is offered to both
  loggers (`AcceptedIsOffered`), the process ends (`ShutdownEnds`) and has drained
  the queue (`PipelineInv`, `CloseDrainsWithoutChecker`).
* **Check against reset.** They exclude each other, but each of their calls can
  fail and their contexts can be cancelled. The report speaks of the stored
  baseline (`ReportMatchesBaseline`), no drift is absorbed unseen unless the
  baseline could not be read (`DriftRecordedIfRead`), a reset has reset what it
  could write (`ResetOverwrites`), a success was a match for everybody it could
  read (`SuccessMeansMatch`), and no error keeps the lock (`LockIsReleased`).
* **Sessions.** The maps are keyed by a token that names a second, not a login,
  and are lost on a restart. A logged-out token opens nothing (`LogoutIsFinal`), a
  live session keeps its credential (`LiveSessionHasCredential`), and a request works
  as the service account only when its session has ended or is of an earlier process
  (`ServiceBindHasCause`).
* **Document against directory.** Apply looks a whole document up, then makes its
  modifications one by one, then reports all of them at once. Whatever fails on the
  way, what was made is reported or was cut short by a restart
  (`ModificationsAreReported`), the report is true (`ReportsMatchDirectory`), its old
  values undo it even when an attribute is corrected twice (`OldValuesUndo`), and the
  cache, which nothing invalidates here, is current again in the end
  (`CacheConverges`).
* **Notes against each other.** No lock, no atomic replacement: a damaged file has a
  cause the code cannot rule out (`DamageHasCause`), a listing shows all or fails
  (`ListsAreWhole`), a removed note comes back only through an update that held it
  (`RemovedStaysRemoved`).
* **Syncs against each other.** The table is what the committed runs add up to
  (`TableIsWhole`), an answered sync is visible unless an older one overtook it
  (`AnsweredSyncIsVisible`), the last result is of a run that committed and of none
  known to be outdated (`LastResultIsRecent`).
* **Page against server.** Effects, answers and navigation come in any order. A
  settled page shows the user of its token (`ProfileIsOfToken`) and offers what the
  server serves that user (`OffersAreServed`), its requests act for that user or for
  nobody unless another tab has logged in (`RequestsActForShownUser`), the spinner ends
  (`SpinnerEnds`). That a live session stays is no property of this code: see
  section 3.

The full list of hazards, each at its line, is in `PROJECT.json`.

## 2. Modules

| Module | What it is |
|---|---|
| `ActiveDirectory` | the directory: `ad`, the history `mods` of modifications; a value is named by the modification that stored it |
| `EmployeeService` | abstract specification: a committed listing that only grows, updates that take effect at one moment or not at all, lists that show what was in effect when they were asked for |
| `EmployeeDirectory` | EXTENDS `ActiveDirectory`: the employee handlers, the cache, the version, the update events; refines `EmployeeService` |
| `AuditChannel` | abstract specification: a bounded queue that delivers each accepted event once, in order |
| `AuditPipeline` | `AsyncLogger`, `MultiLogger`, main's shutdown, the goroutines that log; refines `AuditChannel` |
| `IntegrityChecker` | checks, resets, baselines |
| `Sessions` | tokens, deny-list, credential cache |
| `MarkdownCorrection` | EXTENDS `EmployeeDirectory`: validate and apply beside the employee handlers, over one directory and one cache |
| `Notes` | the note files and the handlers that read and write them |
| `EmployeeSync` | EXTENDS `ActiveDirectory`: sync runs, the table and its transactions, the last result |
| `BrowserSession` | one tab of the browser and what surrounds it; the two group checks as operators on DNs |
| `MC...` | the TLC instance of each: symmetry sets and named constants |
| `...Proofs` | the theorems about each |

How state and actions correspond to the code:

* **EmployeeDirectory.** `empCache`, `listCache` are the two families of keys of
  `pkgCache`; `pc`, `target`, `ver`, `got`, `seen`, `todo`, `last` are the locals of
  a handler's goroutine. A step is one call that touches shared state or the
  directory: `ListStart` reads `listVersion`, `ListHit`/`ListMiss` is `Cache.Get`,
  `ListReadEntry` one entry of the paged search, `ListSet` is `Cache.Set`. An update
  is `PutStart`, `PutReadOld`, then for each attribute `PutModifyOK` or
  `PutModifyError` and `PutAudit`, then `PutDelete`, `PutBump`, `PutReread`. `promised`
  is history: what the updates answered so far have stored, by list version. Its last
  entry is the committed listing of `EmployeeService`, and `ServiceOp` is what a client
  may know of its request: an update takes effect in `PutBump`; a reply 500 before it
  is a refusal, one after it leaves an update open that is in effect.
* **AuditPipeline.** `queue` is the channel, `taken` what drain received, `file` and
  `db` the two trails; an event is its number in the order of `Log` calls. `main`
  walks through `shutdown`, `cancel`, `close`, `wait`: `srv.Shutdown`, then the
  deferred `integrityCancel` and `asyncAudit.Close` in the reverse order of their
  `defer` statements. `SendOnClosed` is the panic of a send on a closed channel.
* **IntegrityChecker.** `running` holds the process that holds the mutex. A check or
  a reset is `Begin`, `ListEntry` for each employee, then for each listed employee a
  read of the baseline (`CheckRead`, `ResetRead` or their errors) and `Save`, then
  `CheckEnds` or `ResetEnds`. A hash is named by the content it is of (no collision).
* **Sessions.** A token is the user and the second of its login. Login is
  `LoginAuthenticated` (AuthenticateAD), `LoginSign` (GenerateJWT), `LoginValidate`,
  `LoginStore`, `LoginReply`; a request is `RequestAccepted` (ValidateJWT) and
  `LookupCredential`, then `WorkReply` or the logout's `RevokeToken`,
  `DeleteCredential`, `LogoutReply`.
* **MarkdownCorrection.** A document is a sequence of blocks, a block the three
  fields `parseBlock` extracts. `blocks`, `ops`, `results` are a request's locals. A
  request is `Submit`, for each block `SkipBlock` (parser) or `LookUp`
  (`ValidateOperations`), then `ValidateReply`, or `BeginApply`, for each operation
  `ApplyInvalid`, `ApplyModifies` or `ApplyError`, and `ApplyReply`, which logs the
  event. `DirectoryStep` is any step of the employee handlers. `lost` is history: what
  a restart cut short.
* **Notes.** A file's content is 0 while it is no whole note, and otherwise the body
  written; a larger body is a longer file. `os.WriteFile` is two steps, `Open`
  (create or truncate) and `Write`, so two writers of one file may interleave, and
  the longer text stays visible behind the shorter. `Remove` leaves a writer its open
  file (`WriteGone`). A listing is `List` (ReadDir) and a `ReadNote` per file.
* **EmployeeSync.** A run is `Start`, `FetchEntry` per entry of the paged search,
  `BeginTx`, `UpsertRow` per row into `staged`, `Commit`, `StoreLast`, `Reply`. `tx` is
  the table's write lock; `connected` the connection `NewLDAPClient` opened, which is
  never opened again. `overtaken` is history: unanswered runs after which an older
  one committed; so is `committed`, the runs whose transaction went through.
* **BrowserSession.** `token`, `profile`, `loading` are the state of `AuthProvider`
  (`user` and `perms` are always set together, so `profile` is the user they are of);
  `stored` is `localStorage`. `Effect` is the `useEffect` on the token, `loads` the
  pairs of profile requests it and `login` have sent, `calls` and `logouts` the other
  requests (as sets of tokens: two requests with one token are one). `posts` are the
  POSTs of `/auth/login` under way and `form` what the shown login form waits for; the
  form's `isLoading` is lost when the page goes elsewhere, so a new form can send again
  while an old POST is on its way. `elsewhere` is history: what other tabs have stored.
  An answer is one step: the interceptor, then the code that awaits it.
  `Unload` is the navigation that a 401 begins, `Redirect` that of `ProtectedRoute`.
  `GroupMatches` is the check behind `/me/perms`, `RequireGroup` that of the routes;
  `Offers` is what the Sidebar and the two pages show, `Registered` whether the server
  has the route at all.

## 3. Runs

Runs named "violation" document a disagreement between the code and one of its
own statements; each is a finding in `PROJECT.json`, with the quotation.

| Run | Outcome | Question |
|---|---|---|
| DirectoryLists | pass | are lists and updates those of a service without a cache? |
| DirectoryUpdates | pass | do trail and directory agree under partial failures and a restart, and does the cache recover from everything? |
| DirectoryStaleRead | violation | a slow read refills the cache after an invalidation |
| AuditQueue | pass | is the pipeline a bounded queue, drained at exit, and does the process end? |
| AuditPanic | violation | the checker logs to the closed channel |
| Integrity | pass | exclusion, report, reset and summary, with every failure |
| SessionsSafe | pass | logout is final, live sessions keep their credential and bind with it |
| SessionsNewToken | violation | a fresh token that is already revoked |
| Markdown | pass | are corrections reported truly and so that they can be undone, under every failure, and does the cache recover from them? |
| Notes | pass | what may overlapping writes, deletes, full disks and crashes do to the files and listings? |
| Sync | pass | can overlapping, failing or cut off syncs spoil the table or the last result? |
| Browser | pass | does a page show its own user, act for that user, offer what is served and stop its spinner? |

**Every passing run has all the failures of its module.** A property that a
failure can break says which cases it leaves out, in the property and not by
leaving the failure out of the run: `DriftRecordedIfRead` leaves out employees whose
baseline the reset failed to read, `ResetOverwrites` those whose upsert failed,
`SuccessMeansMatch` both. The modules keep these sets as history variables
(`unread`, `unsaved`; `late` in `EmployeeDirectory`). Whether the checker is enabled
(`AuditPipeline`) and `AutoUpdate` (`IntegrityChecker`) is chosen when the process
starts, so each run has both.

**What the code does that no violating run shows.** Met while modelling, and
described here because the properties above are written around them:

* A reset whose read of a baseline fails takes the employee for a new one and
  overwrites the hash without recording a drift (`checker.go:109`), although Reset
  "records mismatches against the stored baseline, then overwrites every baseline
  entry with the fresh hash" (`checker.go:91-92`). `DriftRecordedIfRead` excepts it.
* A request accepted just before a logout finds no credential and works as the
  service account (`middleware/auth.go:48`), although "every authenticated web
  request binds to AD using the logged-in user's own credentials" (`README.md:185`).
  So does every request after a restart. `ServiceBindHasCause` excepts both.
* A Markdown apply leaves the employee cache as it is: records and lists show the old
  values until they expire (`validator.go:99`).
* Two overlapping updates of one note can leave a file that is no JSON, with no crash:
  the shorter text lies over the longer (`note_repo.go:38`). It fails every listing of
  its employee and every search by identifier that reads it, until it is deleted.
* `LastResult` is called the outcome of the most recent run
  (`domain/interfaces`), but a run that fails records nothing
  (`sync_service.go:33-40`). Rows of employees who are disabled or removed stay in the
  table. Once the LDAP connection is lost, every sync fails until a restart.
* In the browser a late 401, a slow logout or a failed profile request of an old token
  removes the token of a newer login (`api.ts:25`, `AuthContext.tsx:28`, `:68`), and a
  profile request with the session's own token that fails for any reason, a 500 or a
  lost connection, ends a session the server would go on accepting
  (`AuthContext.tsx:27-29`). So no property says that a live session stays;
  `RequestsActForShownUser` says what its requests can be mistaken for.
* A late profile shows another user than the one the requests act for
  (`AuthContext.tsx:25`, `:52`). `ProfileIsOfToken` and `RequestsActForShownUser` except
  it, as `late`.
* `groupMatches` "Accepts a full DN match (case-insensitive) or a CN-only match"
  (`router.go:197`), but never matches a configured bare name, which has no `cn=`; and a
  full DN also matches a group of the same CN elsewhere, which `userInGroup` does not.
  And with `INTEGRITY_ENABLED=false` the integrity routes are not registered
  (`router.go:158`), while the Sidebar offers the page to every administrator, whose
  requests are answered 404. `OffersAreServed` excepts exactly these three cases.
* Two overlapping syncs may commit in either order, and the table then goes back to the
  older values (`sync_service.go:33-42`). `AnsweredSyncIsVisible` excepts the runs so
  overtaken. An update that holds a note writes it back after its deletion
  (`note_service.go:60`), which `RemovedStaysRemoved` excepts.
* Two updates of one attribute can both audit the old value that only the first
  replaced: it is fetched once, on another connection (`handlers.go:143`).
* When a request outlasts the graceful shutdown, `os.Exit(1)` (`main.go:209`) skips
  the deferred `Close`, and what is queued is lost.
* `ResetBaseline` answers `baseline_updated: true` although upserts failed
  (`checker.go:118`), and a check whose context is cancelled skips everybody and logs
  a success for all of them (`checker.go:173`, `:200`).
* A credential is deleted by a lookup after its expiry, which `RequireAuth` prevents
  by refusing the token first (`usercache.go:48`); and a login of the same second can
  store its credential after a logout deleted it. Neither opens anything.

**Bounds.** Two handlers (three for sessions) are enough for every race in the
code, since each is between two operations; sessions have one more so that a
login, a request and a logout of the same second overlap. Two employees let a
listing be half read when an update comes; one suffices where no listing is
involved. `BufSize` 2 with three handler events and two checker events fills
the buffer and overflows it. `TTL` 2 and three instants of the clock give two
logins in one second, two in different ones, and a request at and after the
expiry. Two technicians send a document that corrects an attribute twice, and one
in which an unknown employee and a malformed block come before a good one; a second
employee or a longer document only repeats these pairs. Three note handlers are two
writers and a remover or reader; two notes let a listing be half read; bodies 1 and 2
are a shorter and a longer text. Two sync runners overlap in every order, and a third
run begins when one of them has been answered. In `DirectoryUpdates` two handlers make
two updates and others edit the office, with two modifications in all: an update's
modification, or an edit by others, comes between the other's lookup and its own, and
the old value it audits is then older than the one it replaced. With one restart, what
`TrailMatchesDirectory` allows to be missing is as much as the run can modify, so there
the run decides the part without a restart and the theorem the rest. Two tokens of two
users are an old and a new session. A page sends a request only when it has none under
way (`MaxRequests` 1), and late answers still meet the next login, since the profile
requests of effects and logins are not bounded; each user has one POST under way from
forms that are gone or shown (`MaxSubmits` 1), two users two; no form is sent once the
tokens are used up; reloads are not bounded. `MaxMods`, `MaxPuts`, `MaxEvents`, `MaxRuns`, `MaxViolations`, `MaxTime`,
`MaxRestarts`, `MaxCrashes`, `MaxReports`, `MaxLogins`,
`MaxSubmits`, `MaxRequests` stop counters that the program lets grow; nothing else
does. Symmetry is used only in runs without liveness properties. The integrity
run has one caller of resets: the lock admits one operation at a time, and a
second caller only repeats what the first can do.

**Deadlock.** It is checked everywhere but in the runs of `AuditPipeline`, whose
process ends.

**Fairness.** A request in progress goes on: Go schedules every goroutine, and
each LDAP call ends, in the worst case by `SetTimeout`. A cached entry expires:
time passes and an entry is set again only after a miss. This alone is assumed where
`CacheConverges` is checked. main and drain go on.
The ticker ticks, and an operation that holds the lock goes on. No request, no
signal and no reset is ever assumed to come. In the browser, an effect that is due
runs, and a profile request is answered, in the end with a network error; the user,
the other tabs and the server are obliged to nothing, and `SpinnerEnds` leaves out a
user who reloads without end. `CacheConverges` says "after a
while without edits": the number of modifications is bounded, so edits stop by
themselves.

## 4. Proofs

All theorems hold for every value of the constants the modules' ASSUMEs allow,
any number of handlers, employees, users, events and restarts.

* `EmployeeDirectoryProofs`. `TypeCorrect` first. Then, in this order:
  * *Lists.* `ListServesCommitted` is not inductive: it needs that a page in the cache,
    or half read by a handler, under version v holds at least what was promised at v
    (`ListsKeepPromises`), which needs that the directory itself never holds less than
    any promise (`AdKeepsPromises`), which needs that an update's successful writes are
    in the directory (`UpdatesAreInAd`) and that a later modification is a larger value
    (`AdNewestFirst`). `ListInv` is their conjunction. The key step is `PutBump`: the
    new promise is the old one raised by what this update stored, all of it already in
    the directory, and pages of the new version are read after it.
  * *Refinement.* `Spec => Service!Spec` from `ListInv` and `FailureEnds` (a failed
    modification goes no further than its event and its reply). A step of a handler
    moves the service in one place (`OneMoves`): `ListStart` is Ask, `ListHit` and
    `ListSet` are Show, `PutModifyOK` is Store, `PutBump` is Commit, `PutReread` is
    Acknowledge or LeaveOpen, a failure audited is Refuse, `Crash` is Restart; reads,
    expiry and edits by others do not show.
  * *Records.* `StaleOnlyIfLate` is inductive beside `ListInv` in the form stated: it
    speaks of what the updates past their bump, and those between delete and bump, have
    stored (`Owed`), and of the records that reads are about to put in the cache. Its
    key steps are `PutDelete`, which finds every such read, and `GetRead`, which takes
    its record from a directory that owes nothing.
  * *Trail.* `TrailIsTrue` says that a handler about to audit holds the name of its own
    modification, that every value in the directory is named by the modification that
    stored it, and that old values were held no later than what they replaced. On top of
    it `TrailMatchesDirectory` counts what is missing: a step other than a crash adds
    nothing to `Unaudited`, and a crash at most one modification for each handler that
    was about to audit. The count is about cardinalities, so it needs that there are
    finitely many goroutines (`HandlersAssumption`) and the library's theorems on finite
    sets.
* `AuditPipelineProofs`. `ChannelInv`: the content of the channel, and the order of
  shutdown (`ShutdownOrder`): requests are over before the deferred calls begin, and
  drain ends only with a closed and empty channel. `EventsInOrder`: what waits in
  the channel is younger than all that was written, and the event drain holds is between
  them. `PipelineInv` is both. From it follow
  `NothingLostInChannel`, `NoRequestLogsAfterClose`, `DrainedAtExit`,
  `CloseDrainsWithoutChecker`, `TrailsInOrder`, and the refinement `Spec =>
  Channel!Spec`: `Enqueue` is Accept, `Receive` is Deliver, `CloseChannel` is Seal, all
  else stutters.
* `SessionsProofs`. `SessionsInv` adds to the two properties the order of the steps
  of Logout (revoke, then delete, then reply) and of Login (store, then reply).
  `LogoutIsFinal` and `ServiceBindHasCause` are action properties proved from it.
* `IntegrityCheckerProofs`. `CheckerInv` is inductive: the lock makes every step one of
  the only operation there is, so what a check has found is true of the baseline
  (`FoundIsTrue`), a hash about to be replaced has been recorded or could not be read
  (`DriftIsRecorded`), and employees behind the loop have been overwritten or compared
  (`ResetsOverwrite`, `ChecksCompare`). All four safety properties of the checker follow.
* `MarkdownCorrectionProofs` uses the lemmas of `EmployeeDirectoryProofs`: whatever the
  employee handlers and the others do, modifications are only appended and an
  attribute's value only grows (`DirectoryMoves`). `Settled` says of each request that
  it looks up before it applies, that each result is of the operation in its place, and
  that no old value is younger than what its event replaced. `ModificationsAreReported`
  follows one modification from hand to hand: a step either leaves it with who carries
  it or hands it over to an event, a result, or the history of a restart.
  The composition is proved as well: to the employee handlers a correction is a
  modification behind their back (`CorrectionsOnlyStore`), which their invariants of
  lists, records and trail survive (`HandlersKeepTheirWord`), and so does the refinement
  (`ServiceStandsBesideCorrections`). What does not carry over is the completeness of
  the trail of updates: a correction is named by no update event.
  `ModificationsAreReported` takes its place.
* `NotesProofs`. `NotesInv`: a file with one writer and no trouble has been truncated
  by that writer (`OneCleanWriter`), names in use were handed out, a removed note is
  held only by updates that were under way, a listing has read or has still to read
  what it owes.
* `EmployeeSyncProofs`. `TableInv` (the lock is held by the writer alone, and its
  transaction sees the table with its own rows on top), then `RunsAreTold` (a run under
  way knows only answered runs, and one that stores its result has committed), from which
  `LastResultIsRecent` follows. For
  `AnsweredSyncIsVisible`, the directory only moves forward (`KnowledgeGrows`): it is
  never older than it was when a run began, a later run began no earlier, and what a run
  has read is no older than its beginning.
* `BrowserSessionProofs`. `BrowserInv`: every spinner has a cause, and the profile
  request of the token's effect is under way, or the page shows the token's user, or a
  later one is known to be late; and what is stored is the page's own token, none, or
  one that another tab has put there (`StoredIsOfPage`). Together the last two give
  `RequestsActForShownUser`. `GroupChecksAgree` compares the two group checks for
  every set of groups and every configured name.

**What the proofs changed.** Three attempts failed for a good reason.
`StaleOnlyIfLate` once spoke of the cache alone, and is not inductive so: a read under
way may hold the old record. `TrailMatchesDirectory` spoke of the successes in the trail only, while its
count rests on the events of failures too: where the answer was lost, the modification
they name was made.
`Unreported`, the results a restart cuts short in a document, was bounded by `MaxMods`
instead of by the length of the results, and so missed what a longer document had
done; no instance was large enough to show it.

**Only model-checked.** The liveness properties: `CacheConverges`, `ShutdownEnds`,
`AcceptedIsOffered`, `LockIsReleased`, `SpinnerEnds`. A proof needs ENABLED for the
fairness conditions, which the prover's backends here do not support. Every invariant
and action property of the passing runs, and both refinements, are theorems. (Induction
over data is out of the prover's reach too; no theorem needs it.)

## 5. Not modelled, and why

* LDAP filters, paging and DN syntax; hashing, signing and JSON: they are taken to
  do what they say. Limit, offset and search are one fixed query.
* What a crash between a modification and its audit event loses is lost: the code
  keeps no record from which the event could be made up later.
  `TrailMatchesDirectory` allows one such event per handler and crash, no more.
* Dropped audit events inside `EmployeeDirectory`: there `audit` is what the handlers
  hand to `Log`, and what becomes of it is `AuditPipeline`'s business.
* How a document is cut into lines and blocks: the parser has no state, and a block is
  modelled by the fields it yields.
* `RunNow` and the legacy services are not reachable from the routes. Nor are the
  queries of `employee_repo.go`, and `Authenticate` and `GetEmployee` of
  `ldap_client.go`.
* The audit log's queries change no state. Count and page are two statements
  (`db.go:86-111`), so one page may show a total that is too small.
* Start-up, configuration, the static files, the static layout of the pages and the
  theme: sequential, without shared state. The query cache of the pages
  (`App.tsx:13`) survives a logout and may show the last user's lists for its
  `staleTime`; it belongs to a library that is not part of the repository.
* The components marked `not_modelled` in `PROJECT.json`.

## 6. What could come next

1. `AuditQueries`: the page and the count against a growing table, and the filters on
   times stored as text.
2. The pages' query cache against updates, corrections and logouts.
3. An abstract specification of notes as a map with atomic operations, which the files
   implement as long as no two writers of one note overlap; and one of the syncs as
   atomic runs.
