# CustomWebService in TLA+

CustomWebService lets a user pick public APIs, describes a web service to an
AI, and saves, versions and publishes the generated page. It is one Next.js
process over one SQLite file. This directory specifies the parts of it that
keep state under concurrency and failure, checks them with TLC on small
instances and proves the central results with TLAPS.

## 1. The system

| Component | State | Operations | Interacts with |
|---|---|---|---|
| Generation lock (`lib/ai/generationLock.ts`, `SqliteGenerationLockRepository`) | row per project: `acquired_at`, `heartbeat_at` | acquire (single-statement test-and-set with takeover of stale rows), heartbeat every 30 s, release | generate/regenerate routes, pipeline, project and account deletion |
| Generation request (`api/v1/generate`, `.../regenerate`, `generationPipeline.ts`, `generationSaver.ts`) | local variables, abort timer | charge, look up, lock, stages, save, compensate, prune, report, refund, release | all of the below |
| Daily quota (`rateLimitService.ts`, `SqliteRateLimitRepository`) | row per user and day: `generation_count`, `suggestion_count` | test-and-set charge, compensating decrement | routes, pipeline failure handler |
| Progress tracker (`generationTracker.ts`) and `generate/status` | in-memory LRU of entries per project | start, update, complete, fail, TTL cleanup; poll | pipeline, status route, client |
| Code versions (`SqliteCodeRepository`), rollback route | `generated_codes`, UNIQUE(project, version) | next number, insert, delete by id, prune to the newest K | saver, rollback, status, published site |
| Projects (`projectService.ts`, `SqliteProjectRepository`) | status, slug | create, publish, unpublish, delete (one transaction over codes, APIs, lock row, project) | saver, rollback, published site |
| Stages and quality loop (`generationPipeline.ts`, `qualityLoop.ts`, `stageRunner.ts`, `autoFix.ts`) | best code so far with its scores and QC report | stages with fallback, auto-fix, timed AI retries, adoption | AI provider, browser QC, saver |
| Client generation (`lib/generation`, `stores/generationStore.ts`) | session, status, progress | read SSE, fall back to polling, cancel | generate and status routes |
| Client regeneration (`lib/generation`, `RePromptPanel.tsx`) | panel status, session | prompt, stream, poll, hints | regenerate and status routes |
| Builder page (`(main)/builder/page.tsx` and its stores) | mode, step, selection, answers, requests in flight, timers | choose, describe, suggest, recommend, generate, preview | suggestion routes, both clients |
| Suggestion routes (`api/v1/suggest-*`) | `suggestion_count` of the quota row | charge, look up, ask, refund | builder page, AI provider |
| Publishing dialog and pages (`PublishDialog.tsx`, `ProjectPublishActions.tsx`, `usePublish.ts`) | copy of the project, address typed, verdict shown | check an address, publish, unpublish | projects |
| Accounts and links (`services/authService.ts`, `api/v1/auth`, the pages) | users, hashed tokens | sign up, verify, reset, log in, delete | users, projects |
| Login throttle and administrator's limiter (`lib/auth/rateLimit.ts`, `adminAuth.ts`) | windows per address and account in capped maps | check, count a failure, clear | account routes, admin routes |
| API proxy (`api/v1/proxy`, `proxyCache.ts`, `siteRateLimit.ts`) | response cache, per-site and per-user windows | authorise, throttle, resolve key, fetch, cache | published sites, catalog |
| Catalog (`lib/catalog`, `ensureCatalog.ts`, `seedCatalog.ts`, admin routes) | `is_active` and `verification_status` per API | seed and patch at boot, verify, activate, deactivate | proxy, administrators |
| Rendering QC (`lib/qc`) | browser pool, the viewport of a page under test | acquire, render, check, release, recover | pipeline, quality loop |
| Event bus and audit log (`lib/events`, account and project deletion, `retention.ts`) | `platform_events` | emit, persist, detach, anonymise, expire | every component |
| Backups (`db/sqlite/backup.ts`) | dump files, health of the scheduler | dump, upload, prune, alert | the volume, an off-site store |
| Kill switches (`featureFlags.ts`, `ensureFeatureFlags.ts`) | flag rows, a cache per process | read, switch, seed at boot | generate and sign-up routes |
| Monitoring (`lib/monitoring`), middleware | one window of errors | count, alert, route | routes |
| Prompts, parsers, validators, templates, views | none | text to text | pipeline, browser |

### What is hard about it

* **Await points.** A handler gives other requests a turn whenever it awaits
  something that is not ready. The repositories are asynchronous interfaces
  over better-sqlite3, which is synchronous: a chain of repository calls runs
  in one turn today, and would stop doing so the day the driver is replaced
  (the repositories' interfaces were written for a network database). AI, browser
  and request-body awaits do let others run.
* **Compensation.** The code row and the project's status are two writes
  without a transaction, undone by a best-effort delete. The quota is charged
  first and refunded on six different error paths.
* **A lease.** The lock survives a crash and must therefore expire; an alive
  pipeline must not expire, however late its timer fires and however many
  heartbeat writes fail.
* **Volatile and durable state disagree** after a crash: progress entries are
  gone; lock rows, charges and codes are not.
* **Deletion does not stop pipelines.** A project can be deleted under a
  running generation, which then fails to save or compensates.
* **Midnight** moves the quota's row under a charge.
* **Two clients of one run.** A browser follows a run by a stream and then by
  polling; the run goes on behind the page after the user has left it, and its
  verdict arrives when another run is on display.
* **A pool that must be reset.** A browser crash invalidates pages whose
  permits are still held by the runs that use them.
* **Late answers on a page.** Suggestions, checks of an address and timers of
  an earlier visit answer into the present one; `Promise.race` lets a check that
  lost its race act on a page that other checks measure.
* **Caches beside the truth.** Responses, flags and counters live in the memory
  of a process; keys, flags and accounts change in the database.
* **Seconds between reading and writing.** A verification or an activation of an
  API probes for seconds and writes what it decided on what it read before.
* **Work that outlives its owner.** Background work reports events of an account
  that has been deleted.
* **Boot over live data.** Every deployment seeds, patches and corrects rows that
  operators have changed.

`PROJECT.json` lists each of these hazards at its line.

## 2. The modules

| Module | Models | Uses |
|---|---|---|
| `SingleFlight` | the abstract promise of the generation lock | |
| `VersionHistory` | the abstract promise about a project's versions | |
| `GenerationLock` | the lock: rows, leases, heartbeats, time | implements `SingleFlight` |
| `Generation` | a request's life on the server: quota, lock, save, compensation, rollback, status, tracker | implements `SingleFlight` and `VersionHistory` |
| `Pipeline` | one run of the pipeline: stages, QC, quality loop, timers | gives `Generation` its outcome of the stages |
| `BrowserPool` | the pages the QC renders in | behind `Pipeline`'s QC reports |
| `ClientGeneration` | one generation as the browser follows it: stream, poll loop, status route | relies on the verdicts of `Generation` and the time of `Pipeline` |
| `Quality` | the scores, the fast report and the adoption rule as the code computes them | the loop of `Pipeline` with real scores |
| `DeepQc` | the deep check of a saved page with its races and widths | the checks of `Quality` |
| `Builder` | the builder page between its choices, answers and timers | the runs of `ClientGeneration` and `Regeneration` as single steps |
| `Regeneration` | the panel that changes a finished service | the stream and poll loop of `ClientGeneration` without their clock |
| `Suggestions` | the four suggestion routes and their quota | |
| `Publishing` | projects, addresses, the publish routes, the dialog and the pages | |
| `Accounts` | accounts, mailed links, sessions and the pages that use them | |
| `RateBuckets` | the fixed-window counter all limiters are made of (operators only) | |
| `AuthLimits` | the limiters of the account and administrator routes | `RateBuckets` |
| `Proxy` | the API proxy: limits, key, cache, external call | `RateBuckets` |
| `Catalog` | activation and verification of APIs, and the catalog at boot | |
| `KillSwitch` | the switches and their caches over several processes | |
| `AuditLog` | events, their rows, deletion and retention | |
| `Backups` | dumps, uploads, pruning, alerts | |

The modules compose by assumption: each takes as its environment what another
one shows. `Generation` respects the lock row of a live pipeline because
`GenerationLock` does; its stages end because `Pipeline` does;
`ClientGeneration` gives a pipeline `ServerTime` because `Pipeline`'s
`ReadyInTime` bounds it. The modules named `MC...` add symmetry or assumptions about
the instance; those named `...Proofs` hold the theorems: `ServerProofs` those of
`KillSwitch`, `AuditLog`, `Catalog`, `Suggestions` and `Backups`, `LimitersProofs` those of
`RateBuckets`, `AuthLimits` and `Proxy`, `PagesProofs` those of `Publishing`, `Accounts`,
`Quality`, `DeepQc`, `Builder` and `Regeneration`, `PartsProofs` those of `BrowserPool` and of
the sum of the parts (`MCParts`).

`MCParts` puts fourteen parts into one run of TLC that share no state: the variable `part` names
the one whose steps a behaviour takes, and the others stay as they begin. Every
behaviour of every part is there, and the number of states is the sum of
theirs rather than the product.

### SingleFlight, GenerationLock

`SingleFlight` says that at most one pipeline of an existing project is in
flight. `GenerationLock` is the lock itself, with time.

| TLA+ | Code |
|---|---|
| `age[p]` | `now - heartbeat_at` of the row; `Absent` when there is none |
| `Stale`, `Heartbeat` | `GENERATION_LOCK_STALE_MS` after its correction, `GENERATION_LOCK_HEARTBEAT_MS` |
| `WriteRow` | `acquire`: INSERT ... ON CONFLICT DO UPDATE ... WHERE `heartbeat_at < now - staleMs` |
| `AcquireAndStart`, `AcquireAndThrow`, `Refuse` | the routes from the lock to the stream; a throw in between; 409 |
| `HeartbeatRenews/FindsNoRow/Fails` | the three outcomes of the interval's `tick` |
| `Finish`, `FinishWithoutRelease` | the pipeline's `finally`; the swallowed error of the release |
| `DeleteProject`, `Crash`, `TimePasses` | the deletion transaction, a restart, the clock |

Time is kept as ages, so the state space is finite without a bound on the
clock. `Lateness` is how late the event loop may run a due timer and
`MaxMisses` how many heartbeat writes may fail in a row; what the lock
guarantees depends on both and the assumption is explicit:
`HeartbeatsOutpaceStaleness == (MaxMisses + 1) * (Heartbeat + Lateness) <= Stale`.
With the defaults (30 s, 5 min) it allows eight failed writes in a row at 3 s of
lateness. Outside the assumption a row can be taken from a live pipeline, whose
next heartbeat then renews the thief's row (the update names only the project).

### Generation

One action per awaited step of the routes, the saver and the failure handler
(`Arrive`, `Lookup`, `Acquire`, `StagesSucceed`, `CreateCode`, `UpdateStatus`,
`Compensate`, `PruneOld`, `Complete`, `HandleFailure`, `Release`, and the failure of each),
the rollback route (`UndoFind`, `UndoNumber`, `UndoCreate`, `UndoStatus`,
`UndoFails`), the owner's publish, unpublish and delete, and the environment:
`Crash`, `NextDay`, `Evict`. In it the lock is its guarantee rather than its
clock: a row is respected while the pipeline that wrote it lives (`LiveLock`) and
may be taken over once it does not. `AcquireFails` is always possible too, for a
dead row that is not stale yet and for a database error. `AcquireThenThrow` is a throw
between the lock and the pipeline's own `try`: the row and the tracker entry stay; in the
handler the charge is refunded, in the `start()` of the response stream it is not, which is
the outcome of a refund that fails. The stages are one step with two outcomes. `Yielding` says whether others run between two repository
calls of one turn: FALSE is the code as deployed, TRUE the over-approximation that
would remain true of an asynchronous driver. The variables `delivered`,
`carried`, `lost`, `acked` and `regens` are history: they record what the code
does not, and no guard reads them.

`VersionHistory` is what an owner may rely on: each version reported is newer than
those reported before, and what the project shows is never older than what was
reported. `Generation` maps to it by the newest row of `generated_codes` and `acked`,
of the projects that exist; generations, rollbacks, compensations and pruning are all
`Move`, `Report` or a stutter there. A version that is saved and taken back again before it is
reported may give its number away; one that is reported may not.

Charges are counted per day by `count`; `chargedOn[r]` is the closure
`pendingDecrement`, together with the stub that replaces the service when the
request was not charged. Statuses that no code path sets (`generating`,
`failed`, `deploying`, `deployed`) do not occur. Saving a generation or a
rollback of a published project sets its status to `generated`, which takes the
site offline; the model follows the code.

### Pipeline

A code is known by what the pipeline's decisions read of it: the AI answer it
comes from, how often the auto-fix rewrote it, two scores, whether it has a
functional issue and whether it fails the security validation.

| TLA+ | Code |
|---|---|
| `code`, `report`, `candidate`, `used`, `attempt` | `stageNResult.parsed` and then `state.parsed`, `state.qcReport`, `retryParsed`, `qualityLoopUsed`, the loop's counter |
| `validated` | the code that the saved `validation` is the result of |
| `Stage1Answers` ... `StageFallsBack` | `runStage1` to `runStage3` and the fallback to the previous stage |
| `Iterate`, `RetryAnswers`, `RetryQcReturns`, `Judge` | the quality loop: auto-fix, budget guard, retry, its QC, adoption |
| `Deadline`, `Tick` | the abort timer, the iteration and QC timeouts |

An answer may be any code, a browser check may report anything or nothing, and
no call owes an answer. Abstractions: the feature extraction before Stage 1 is part of
`Stage1Limit`; a page that cannot be assembled is a QC without a report;
`AbortLag` is the back-off sleep of a provider, which does not listen to the abort; and the
auto-fix is assumed not to make safe code unsafe, since its rules delete or replace
text with constants. That is not checked: a token could come together
from the text on both sides of a deletion.

Two behaviours are kept as the code has them and are worth knowing: a retry
*with* a functional issue is adopted over a code without one if a score rises,
and the loop's budget guard counts the next AI call and not the QC after it,
so a run can end one QC check after the budget (`ReadyInTime`).

### BrowserPool

| TLA+ | Code |
|---|---|
| `activePages`, `waitQueue` | the semaphore of `browserPool.ts` |
| `browserInstance`, `launching`, `connected` | `browserInstance`, `browserLaunchPromise`, the Chromium processes alive |
| `Acquire`, `Queue`, `GiveUp`, `Release` | `acquireSemaphore`, its time limit, `releaseSemaphore` |
| `GetBrowser`, `Closed`, `LaunchSucceeds/Fails` | `getBrowser` from the connection check over the reset and the close to the shared launch |
| `OpenSucceeds/Fails`, `ReleasePage` | `getPage`'s context and page, `releasePage` |
| `forgotten`, `leaked` | history: permits held at a reset, permits handed to expired waiters |

A queue entry whose waiter gave up is `Expired`: the code looks for `resolve`
in a queue of wrappers, never finds it, and the entry stays. `SlowClose = FALSE`
assumes that closing a browser that is already disconnected is over before a launch is;
with TRUE `OneBrowser` fails, because the closing call resets
`browserInstance` under the one launched meanwhile. The reset after a crash
forgets permits that are still held, so more pages than the limit may run
until those are returned; `BoundedUntilReset` states the limit up to that point, and
`PermitsAccounted` how far it can be off after it. Shutdown is not modelled.

### ClientGeneration

| TLA+ | Code |
|---|---|
| `status`, `current` | `status` and `runId` of `generationStore` |
| `session`, `aborted` | the run that opened `currentController`; the runs whose local controller is aborted |
| `selected` | whether the context and the APIs are as made in the builder, cleared by a completion, or nothing yet; a run started with a cleared selection is refused at its first request |
| `Start`, `LeaveMode`, `ClearResult` | `handleGenerate` (and retry), `handleResetMode`, "generate anew" |
| `ProjectCreated`, `StreamOpens`, `RequestFails` | the two requests of `runClientGeneration`, which carry no signal |
| `ReadComplete`, `ReadError`, `StreamCut`, `Foreground` | `consumeGenerationStream` and its `visibilitychange` handler |
| `Poll...` | `pollGenerationStatus` |
| `Answer` | the status route: tracker entry, else the database |
| `Server...`, `Evict`, `Crash`, `Disconnect` | the pipeline's outcome, the LRU tracker, a restart, the connection |

Each run creates its own project, so the server's state is per run. Time counts
in polling intervals; a delay takes one and a request any number. The poll loop has
300 attempts at one second and the pipeline 290 s:
`PollingOutlastsServer == ServerTime + 1 < MaxAttempts` is that relation, and the
comment on `maxAttempts` asks for it. An HTTP error or a tracker entry that is gone while the
pipeline works is shown as a failure at once; the code chooses this and no property
speaks against it. A run that is abandoned before its second request
still starts a generation on the server, which the model includes.

Percentages and messages are left out.

### Builder, Regeneration, Suggestions

| TLA+ | Code |
|---|---|
| `visit` | what lies between two returns to the choice of the mode (`handleResetMode`) |
| `calls`, `newest`, `spinner` | requests in flight with their abort signals; the `...ReqIdRef`s; the `is...Loading` flags |
| `suggested`, `recommended`, `lastContext` | `suggestions`, `apiRecommendations`, `lastRecommendedContext` |
| `due`, `PreferenceTimer` | the preference timer, set again by every change of the selection |
| `HandleModeSelect` ... `HandleSelectPopularService` | the page's handlers; the effects they cause are in the same step |
| `SettleAborted`, `SuggestionsArrive`, ... | the continuations of the three requests, late and in any order |
| `PreviewVersion` | the version the preview asks for |
| `panel`, `regenSession`, `cut` | the panel with its `runIdRef`, `regenerationSession`, the aborted controllers |
| `phase`, `events`, `work`, `reported`, `numbers` | `runClientRegeneration`; its response; the pipeline, tracker entry and versions behind it |
| `at`, `charge`, `used` | where a suggestion call is, the day it was charged on, `suggestion_count` |

In `Builder` an answer is known by the visit it was asked for in, which is all
that the properties tell apart; a description by whether it is long enough for the
preferences only (`Brief`) or for a context as well (`Context`). `SettleAborted` may still clear the list
of suggestions: an error answer that is read after the abort does. A regeneration may announce any
version the project has, the first among them, as the status route does for a run whose
tracker entry is gone; the preview may then show an older version than the newest, and
`PreviewExists` says no more than that the version it asks for is there. In `Regeneration` a project has a version
before any run. When the tracker loses the entry of a run at work or failed (a
restart, an eviction), the status route answers "completed" with that older
version and the panel shows success; the model has this behaviour, and
`PanelTellsTheTruth` speaks of the runs whose entry was not lost (`forgot`).
`Suggestions` has the code's asymmetry: `suggest-preferences` answers with a fallback where
the other routes refund.

### Quality, DeepQc

A code is the set of traits the validator's patterns find in it; a page is what a
browser sees of it. `StructuralScore`, `MobileScore`, `HasFunctionalIssue` and the checks compute
what the code computes of them, so a score is reached only by a page that has
it. `Quality` shows a sequence of adoptions, each better by one measure, that
ends with a version worse than one the loop gave up for a retry (see *quality_loop*).
An auto-fix is not compared with the version it replaces, and the text it deletes may be text a
measure counts (`Erasable`), so a fix alone may lower a score; `replaced` therefore records only what was given up
for a retry.

| TLA+ | Code |
|---|---|
| `stage`, `open`, `going` | the step of `runDeepQcInternal`; checks that have not settled or lost; those still running, the late ones of earlier steps among them |
| `width`, `readAt` | the viewport; the widths a check saw while it ran |
| `Settle`, `RunLate`, `DeepTimesOut` | a check within its limit, past it, and the limit of the run |
| `CheckThrows`, `Failed` | a check's own `catch`: it fails at once, and the breakpoints leave the width they had come to |
| `OwnWait` | the least a check sleeps; only what it clicks makes it sleep |
| `codeRow`, `stored` | the code's row and the report `deepQcRunner` stores in its metadata |

### Publishing, Accounts

A handler reads and writes SQLite without waiting, so a call is one step of the
server. What overlaps are the calls, which are sent, handled, answered and lost
apart, and the page's copy of what it asks about.

| TLA+ | Code |
|---|---|
| `row[p]` | status and slug of the project |
| `Assigned`, `FirstSlugs`, `Writable` | `assignUniqueSlug` with its suffixes and time stamps; the two retries of `publish` after a UNIQUE violation |
| `PublishRow/Refused`, `Unpublish`, `Delete`, `CheckSlug`, `SiteOf` | the routes of `projectService`, `slug/check`, `/site/:slug` |
| `page`, `dialog` | `ProjectPublishActions` with the project as loaded; `PublishDialog` with its debounce, abort and verdict; its inputs stay open while a publish is under way |
| `told` | history: the addresses publish has answered with |
| `user`, `token` | `users`, `auth_tokens` (a token is consumed, expired or good) |
| `SignUp`, `RequestReset`, `ResetPassword`, `VerifyEmail`, `Resend`, `DeleteOwnAccount` | `authService` and its routes |
| `form` | the page shown with its link and how far its call is |

Saving a generation or a rollback takes a published project off (`Generated`); its
address stays its own, which `AddressesHold` states. Mail may fail after the
database has been written; the handler then answers with an error for what
the database keeps.

### RateBuckets, AuthLimits, Proxy

`RateBuckets` is the counter: a capped map of windows, swept when it is full,
that refuses a new key for which there is no room instead of dropping a live
one; `Recent` is the history its users keep of what was counted in the last window. `AuthLimits` counts failures of the login by client address and by account in
the map in which the other account routes count their calls. In
`Proxy` a request takes three turns: authorise, charge and look up the API; after
DNS, resolve the key and look in the cache; after the external answer, store it.

| TLA+ | Code |
|---|---|
| `cache`, `Touched`, `Stored` | `ProxyCache`: an LRU with a time to live |
| `CacheKey`, `Identity` | `buildCacheKey`; the fingerprint of the injected key |
| `SiteCharges`, `SiteAdmits` | `siteRateLimit`: the visitor's bucket first, the project's after it |
| `SiteRequest`, `AppRequest`, `LookUpCache`, `BodyArrives`, `Fail` | the route |
| `SaveKey`, `DeleteKey`, `TogglePublished`, `OwnerLeaves`, `ToggleActive`, `Restart` | what the rest of the server does between the turns |

### Catalog, KillSwitch, AuditLog, Backups

| TLA+ | Code |
|---|---|
| `entry`, `bundled` | `api_catalog`; the bundled `apiCatalog.json` |
| `ClassifyResponse`, `SummarizeApi` | `healthCheck.ts`: what a response says, and the worst of an API's endpoints; a 401 or 403 means broken only of an API that needs no key (`NoAuth`) |
| `StartActivation`, `ProbeKey` | the activate route: keys are probed `Samples` times each, then the row is written |
| `StartVerification`, `TakeApi`, `ProbeEndpoint`, `EndVerification` | `verifyRunner`, `Concurrency` APIs at once |
| `ActivationThrows`, `WorkerThrows`, `lost` | an address that cannot be built or a row that cannot be written: the activation ends with what it has written; a verification loses one worker and the others go on |
| `flags`, `fcache` | rows of `feature_flags`; the cache of each process |
| `AskCache`, `AskDatabase`, `AskFails` | `isFeatureEnabled` on its three ways |
| `log`, `Persisted`, `Detached` | `platform_events`; the persister under foreign keys; what deletion does to the rows |
| `file`, `backup` | the dump files; how far each backup is |

An activation that is under way writes `is_active` without reading it again, so it
may switch on an API an operator has switched off meanwhile; `OffStaysOff` speaks of
APIs with no such activation. With as many files kept as dumps overlap
(`SQLITE_BACKUP_RETENTION=1`) pruning may delete the only whole file; the assumption
`Dumps < Retention` excludes it.

## 3. The runs

| Run | Question | Bounds |
|---|---|---|
| `lock` | mutual exclusion, who touches a row, refinement of `SingleFlight`, the row comes free | 1 project, 3 requests, heartbeat 2, lateness 1, one missed beat, staleness 6: the assumption with equality, so that one tick more of debt would break it. Locks of different projects share nothing. |
| `generation_turns` | refinement of `VersionHistory`; requests end | 2 generations, 2 rollbacks, 3 versions, keep 2, repository calls uninterrupted |
| `generation` | acknowledged versions survive, code and status, verdicts, progress displays that have an owner, the books of the quota, under full interleaving | 1 project, 2 generations, 1 rollback, 2 versions, keep 1 (so pruning drops a version while a rollback is under way), limit 1, 2 days: a refund can fall on the day after its charge, and both days can be full |
| `pipeline` | what is saved, with which verdicts, and when; the run ends | two values of every score around its threshold, 2 retries, budget 4 with an abort at 3, iteration 2, QC 1, back-off 2, Stage 1 up to 5: every deadline can pass before, at and after every other |
| `client` | own and real verdicts, patience; no spinner and no poller stays | 2 runs (one abandoned, one on display), 3 attempts, server time 1: the relation of the two with equality, so that a server one interval slower breaks it |
| `parts` | the safety of fourteen parts, below | by part |

The parts of `parts` (1 065 927 distinct states together), their properties and bounds:

| Part | Properties | Bounds |
|---|---|---|
| `BrowserPool` | `PermitsAccounted`, `OneBrowser` | 3 calls on 2 pages, 2 browsers (a crash), 3 queue entries |
| `Proxy` | `AnswersAreCurrent`, `SiteLimitHolds` | 2 requests, 2 visitors, 1 user, 1 site, 1 own key beside the platform's, limits 2/1/1 in maps of 1, window 2, time to live 1, 1 cache entry, clock 2 |
| `AuthLimits` | `GuessesBounded` | 2 addresses, 2 accounts, limits 2 and 1, windows 2 and 1, maps of 2 and 1, clock 3: keys of one map crowd each other out |
| `Publishing` | `AddressesHold`, `VerdictIsOfValue` | 2 projects, 1 call in flight, 1 address to choose, 1 suffix, so that both time stamps are reached; more calls add no order, since the server handles one at a time, and the theorems are for any number |
| `Accounts` | `LatestLinkOnly` | 2 accounts one after the other, 3 links: two of a kind and one of the other |
| `Catalog` | `StatusHasEvidence`, `OffStaysOff` | 2 APIs (2 and 1 endpoints; one keyed and patched, one without a key and corrected), 1 activation, 1 verification, 2 samples, one API at a time, an answer for each way the classification goes |
| `KillSwitch` | `SwitchedOffStops` | 2 flags, 2 processes, a cache for 2 ticks, clock 3 |
| `AuditLog` | `DeletedUsersAreForgotten` | 2 people, 1 project, 3 days, kept for 1: the record of a deletion can expire |
| `Backups` | `WholeBackupRemains` | 5 backups, keep 2, one dump at a time, uploads of any length |
| `Quality` | type | 9 codes, 4 renderings, 2 rounds, strict adoption |
| `DeepQc` | `ReadAtItsWidth` | 2 fixed checks and the three that act, limits 1/1/3, waits 1/0/2: a check can be late by a step |
| `Builder` | `NothingOfAnEarlierVisit`, `SpinnersTellTheTruth`, `PreviewExists` | 2 descriptions (one of them brief), 1 API, 2 visits, 3 calls, 2 generations, 2 versions, at most 3 calls and versions together |
| `Regeneration` | `PanelTellsTheTruth` | 1 project, 2 runs, 3 versions |
| `Suggestions` | `SuggestionsArePaid` | 2 calls, limit 2, 2 days |

Symmetry is used in `generation`, whose properties are invariants, and in `pool_queue`.

`generation_turns` runs with a limit of 0, so that the quota, which has a run of
its own, does not multiply its states: requests are let through uncharged, as for a
user exempt from the limit. `ImplementsHistory` is a property of the deployed driver: with
`Yielding` TRUE, a rollback stalled between reading its number and inserting it
can be overtaken by enough generations that the number is pruned, reported
twice, and reused.

Deadlock is checked in every run but `parts` and those that find a violation in the
pool and in the loop, whose models really stop: a page or a loop that is done, a
clock, a bound on tokens or backups that is reached.

The *violation* runs each check one sentence of the documentation or of a
comment that the code does not keep:

* `daily_limit` - a generation charged before midnight that fails after it is
  refunded to the new day, which then delivers one more than
  `MAX_DAILY_GENERATIONS`.
* `regenerations_allowed` - the regeneration cap compares the version number,
  which generations and rollbacks raise too. It never errs the other way
  (`RegenerationsStayUnderCap`): the cap is never even reached.
* `validation_is_stale` - a partial auto-fix rewrites the code without setting
  `qualityLoopUsed`, so the rewritten code is saved with the validation of the
  code before it (`SavedIsSafe` holds all the same).
* `pool_queue` - a waiter that timed out stays queued and swallows a permit. What
  that comes to is proved (`LeaksStarveThePool`).
* `client_selection` - an abandoned run whose *stream* completes still calls
  `onCompleted` and clears the context and the APIs the user has chosen since;
  aborting the session stops pollers and not the reader of a stream. Nothing else
  does (`SelectionIsTakenByStreams`).
* `quality_loop` - the loop adopts a retry that is better by any one measure, so
  two rounds can return a version that is in no measure better, and in one worse,
  than one it gave up for a retry; a comment and the guide say that the best version is
  returned. One round cannot (`OneRoundReturnsBest`). The run sets `Erasable = {}`, so that
  it is the adoptions alone that lead there, and no auto-fix.

### Fairness

`GenerationLock`: time passes, due timers fire, and a pipeline ends (`Pipeline`
shows that it does). `Generation`: strong fairness of the steps of a request and of a
rollback, and none of the tracker's cleanup, whose time to live begins again with every
update. Strong, because with `Yielding` FALSE
a step waits while another request is in the middle of a turn; the event loop
does not starve a callback that is ready again and again. `Pipeline`: the clock
advances and a call whose deadline has come is given up, which is what its
timers do; no call is assumed to answer. `ClientGeneration`: time passes, a pipeline
gives a verdict or the process dies, and a run's pending request, read or timer settles
in *some* way. For a read this includes that the browser notices a lost
connection: the reader has no timeout of its own. Nowhere is anything assumed to
succeed: a fair request may fail at every step. The run `parts` is of safety only.

## 4. The proofs

All theorems hold for every value of the constants (any number of projects,
requests, rollbacks, days, versions, calls, scores; every limit; both values of
every switch), with the assumptions named in the theorem.

* **Lock.** `HeartbeatDebt` is the inductive invariant: the age of a live
  pipeline's row is at most `misses * Period + since`. Mutual exclusion alone
  is not inductive, since nothing in it says why a row is young. With
  `HeartbeatsOutpaceStaleness` the debt never exceeds `Stale`
  (`DebtWithinStaleness`), so a live row is not acquirable, and
  `MutualExclusionHolds`, `LiveLockIsNotStolen` and `RefinesSingleFlight` follow.
  `Stale` is the corrected value, so a misconfigured window is covered.
  `OnlyTheHolderTouchesTheRow` is read off the same invariant step by step: another
  request cannot acquire, and another run that could renew or release would be a second one.
* **Request.** `WellFormed` (types, and that a request that is under way has a
  project and a number) and `HoldersHold` (the row of an existing project names
  the pipeline that runs on it) give `RefinesSingleFlight` and
  `VerdictIsNeverStale`. `StatusAlwaysHasCode` needs `SettledCode`: every
  project that has left draft has a version that *no pipeline is about to take
  back*; "has a version" is not inductive because a compensation could delete
  the last one. `AcknowledgedAlwaysSurvives` needs the same of every promise
  (`PromisesKept`): a version that was reported, or is about to be, has one at
  least as new that is not about to be taken back; pruning keeps the greatest
  (`GreatestIsKept`) and a compensation takes only its own. `ProgressAlwaysHasOwner`: an entry that says
  "generating" belongs to a live pipeline, or stands beside a row that a throw left behind; a step that neither
  enters nor leaves the pipeline keeps it (`OwnerFrame`), and a release ends the only pipeline at work
  on its project.
* **Versions.** `RefinesVersionHistory` shows that every step is one of `VersionHistory`,
  under `Yielding = FALSE`. It needs `NumbersAreFresh`: the number a request or a rollback is
  about to insert or to report is above all that were reported of its project. A step
  of another run that reports could break it; but whoever numbers or reports is alone between
  two of its repository calls (`AloneInTurn`). This is where the synchronous driver is used,
  and with `Yielding = TRUE` the refinement fails (section 3).
* **Regeneration cap.** Under `Yielding = FALSE` no project is regenerated as often as the cap
  says (`RegensUnderCap`). `RegensAreReported` counts the regenerations against the reported
  versions other than the first: none of them is above the newest (`AcknowledgedSurvives`), and
  each report adds one (`NumbersAreFresh`). `RegensFit` carries what the cap has seen from the check to the report: there is room for one
  more, and the number to come is not 1. Between the two the holder of the lock is alone
  with its project's versions but for rollbacks, and those only raise the number.
* **Quota.** `Accounts` relates a day's counter to its deliveries, flights,
  refunds carried in and losses from both sides; it gives `QuotaAlwaysHolds`
  and `FailuresAreAlwaysFree`. `NothingOwed` (an idle request has no charge) is
  what makes a new charge a new flight. `LimitHoldsWithoutMidnight` says where the finding
  of the run `daily_limit` comes from: while there is one day, no refund is carried
  (`NothingCarried`) and the documented limit holds; on the first of several days it holds
  as well (`FirstDayKeepsItsLimit`).
* **Pipeline.** `Counts` bounds the answers by the step the run is at, which types
  the codes. `Vetted` says that from the validation on, a code that has not been
  adopted from a retry is safe; with the second validation it gives
  `OnlySafeCodeIsSaved` and `FailuresHaveUnsafeCode`. `Timely` gives every awaited
  call a latest start; `RunsAreReadyInTime` follows for all values of the timers.
  `ValidationIsOfSavedAnswer` bounds the finding of the run `validation_is_stale`: the
  validation saved is of the same AI answer, and of the very code when the loop's result was
  used (`Covered`), so that only auto-fixes can come between; without iterations
  nothing does (`ValidationIsOfSavedCodeWithoutLoop`).
* **Pool.** `PermitsAccounted` is inductive only with `QueueWaits` (an entry
  that is not expired names one waiting call, once), so that handing a permit
  over makes exactly one new holder. `NoLostWakeup` and `BoundedUntilReset` come
  from the same invariant, and so does the price of the finding of `pool_queue`
  (`LeaksStarveThePool`): before a reset the leaked permits and the holders share the
  limit, so with as many leaked as there are pages nobody holds one; and that state is
  never left, because only a release lowers the count and only a call with a permit
  notices a crash.
* **Browser.** `OneBrowserAlways` (if not `SlowClose`) needs `SharedInstance`: what
  runs is the shared instance, and nothing runs while one is launched or a dead
  one is closed. `LaunchIsAlwaysAwaited`: the shared launch ends in the step that
  releases its waiters, and a call that joins it awaits it.
* **Client.** `OneSpeaker` needs `SessionInv`: a run that may speak holds the
  session, so whoever begins or aborts a session silences it. `VerdictIsOwn`
  needs that a verdict is shown only of a run that is over. `SuccessIsAlwaysReal`
  needs `Books` (stream and tracker say completed only after the save) and that the
  code of a success is final, which a compensation could otherwise take back.
  `PatienceSuffices` compares a poller's attempts with the age of its pipeline
  (`PaceInv`) and assumes `PollingOutlastsServer`. `AbandonedPollersAreSilent` is an
  action property read off `OneSpeaker`. `SelectionIsTakenByStreams` is the other half of the
  finding of `client_selection`: a poller, and a run that was not aborted, completes only
  what is on display.
* **Quality loop.** A retry is adopted for a gain in one measure, and `Dominates` asks for a
  loss in none, so a retry just adopted is dominated by nothing it replaced
  (`AdoptedIsUndominated`). For one round (`OneRoundReturnsBest`, whatever an auto-fix may erase)
  that is enough: nothing was given up before the retry, and no fix comes after it. Adoption is not
  transitive, which is what `quality_loop` uses.
* **Switches.** `CachesLag`: a cache that does not know of a switch-off yet belongs
  to another process and was filled before it. The property itself speaks only of
  the last request let through and carries nothing forward.
* **Audit log.** `RowsBelong`: a row's payload names nobody but the row's own user,
  and only users who are there. "No row names a deleted user" is not inductive: what a
  deletion makes anonymous is found by the row's column, not by its payload.
  `DeletionsRecorded` carries the day of the record past retention.
* **Catalog.** `CountsAreRows` (an activation has seen as many valid answers in a row as
  it counts) and `OffIsLeftAlone` (no activation is about to come to an API that
  is off) stand behind `StatusAlwaysHasEvidence` and `OffAlwaysStaysOff`.
* **Suggestions.** `SuggestionBooks` bounds a day's row from both sides by what was answered, is
  under way, was taken by refunds of other days and was lost.
* **Limits.** `Counted` ties the calls counted within the last window to a key's bucket: the
  last of them are those in it, the first of which began its window, and the others are
  fewer than the limit, since the call before the window began is too old. That the bucket is
  there at all rests on eviction (`RateBuckets`): a live bucket is dropped for no
  other key, since a full map refuses instead (`Untouched` follows one key through every call for
  another). `GuessesAreBounded` and `SiteLimitAlwaysHolds` are `CountedIsBounded` of their
  keys.
* **Proxy cache.** `ProxyData`: every entry is honest (its value was fetched with the identity
  in its key, and is no older than its time to live), and the identities of a request in flight
  are those of keys that were usable since it was admitted (`Seen`). `AnswersAreAlwaysCurrent`
  follows for hits and for fresh answers alike.
* **Backups.** "A whole file remains" is not inductive: pruning counts broken files too.
  `DumpsAreFew` (whatever is partial after a backup under way is a dump under way, and those are at
  most `Dumps`) and `UploadsAreCovered` (what is being uploaded has a whole file at least as
  new) show that among the newest `Retention` there is one.
* **Deep check.** `WidthIsSeen` and `StageIsIts`: the width changes only under the breakpoints
  check, and no check of an earlier step reports into a later one (`WellRead`); a check that
  failed has read nothing.
* **Builder.** `Spun` (a spinner and the newest call of its kind), `Visited` (calls of an earlier
  visit are aborted), `Fed` (preferences are asked for, or about to be, only while there is
  something to ask about) and `VersionsAreThere` are proved action by action; they give the builder's three invariants.
* **Panel.** `PanelOwnsItsRun` (the panel waits for the run of its session, and no other may
  speak) and `RunBearsFruit`: while the panel waits for a run, whatever tells of a
  completed run of that project tells of a version saved since that run began.
* **Addresses.** `Addresses`: what was told of a project is its own slug, and existing
  projects have different ones. `Checking` ties the call the dialog waits for to the
  address typed in it, which a late verdict needs.
* **Links.** `LiveLinks` and `ResetsUseLinks`: a good reset link is the last one of an
  active account; a reset that succeeded has used its link up, whether or not the page
  knows yet.

* **The parts together.** `PartsAreTyped` proves the types of all fourteen parts about the very
  specification the run `parts` checks: a behaviour of `PartsSpec` whose variable `part` names a
  part is a behaviour of that part (`StepOfPart`), whose own theorem then applies.

The assumptions are those named in the modules: limits are naturals, the
sentinels are none of the ids, requests are not rollbacks, there are finitely many requests,
calls and APIs, fewer dumps overlap than files are kept. One of them is a fact about an
operator rather than a constant: `ReportsAreScored`, that the overall score of the pages
considered is a number from 0 to 100. A weighted mean of scores is, but the sum in it
is a fold of the community modules, which the prover cannot unfold; TLC evaluates it on the
pages of the runs.

Proved and in no run's list, because they are steps on the way to one that is: the types
of the parts one by one, `HeartbeatDebt`, `LiveLockNotStealable`, `FailsOnlyOnUnsafeCode`, `OneSpeaker`,
`AbandonedPollerIsSilent`, `BoundedUntilReset`, `NoLostWakeup`, `LaunchIsAwaited` and
`Generation`'s `ImplementsSingleFlight`. Those that bound a finding from the other side
(`RegenerationsStayUnderCap`, `LimitHoldsWithoutMidnight`, `ValidationIsOfSavedAnswer`,
`SelectionIsTakenByStreams`, `LeaksStarveThePool`, `OneRoundReturnsBest`) are in no run either,
since the run of the finding checks the sentence that fails.

Only model-checked: liveness (`LockComesFree`, `RequestEnds`,
`EndsEventually`, `GenerationEnds`: fairness is out of the prover's reach). Every other
property of a passing run is proved.

## 5. Not modelled, and what is left

Left out for good: prompts, parsers and templates (text to text, no state),
React views that keep no state across calls, the routing of subdomains and response
headers, logging. Monitoring is one counter over a fixed window that is read
and written within one turn; there is nothing to interleave.

Left out so far: the shutdown of the browser pool, the session version in the JWT,
failures of the event table, percentages and messages of a generation's progress.

Left to do, in this order:

1. Shutdown of the pool against calls that wait; session versions against
   password resets.
2. The proofs that go with them.
