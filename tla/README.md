# Verification of "Go get a job ferris"

TLA+ models, TLC runs and TLAPS proofs about the program in `src/`: a Rust crawler, a Go API and
the PostgreSQL schema both write. Paths below are relative to the repository. `PROJECT.json` maps
every definition to the lines it models and lists runs, mutants, findings, hazards and theorems.

## 1. Inventory

The crawler and the API never call each other: PostgreSQL rows are the only interface, so every
interaction of the two is an interleaving of committed transactions. Inside the API, administrators
and clients meet in rows as well, in the images of the external provider (Cloudinary), and in the
cookies of one browser.

| Component | State | Operations | Hard behaviour | What makes it correct | Where |
|---|---|---|---|---|---|
| Crawler process (`crawler/src/main.rs`) | where it is, its connection, sources left in the cycle, the claimed request, its run | poll, claim, start cycle, crawl a source, persist, finalize, recover, complete or fail the request | long crawls between transactions, crash, lost connection, lost commit answer, a `--once` run beside the daemon | a crawl that does not commit changes no job; outcomes are final; requests resolve | `CrawlPipeline` |
| Crawler store (`store.rs`) | `crawl_requests`, `source_crawl_runs`, `job_cache` | the SQL behind the above | compare-and-set on `finished_at`, `FOR UPDATE SKIP LOCKED`, source snapshot lock, `last_seen_at < started_at` | as above, and jobs close only on evidence; a run belongs to one request | `CrawlPipeline`, `CrawlRecords` |
| Lifecycle rule (`reconcile.rs`) | a job's status and missing counter | `reconcile_job` | the program's SQL re-implements it | the SQL amounts to it | `JobLifecycle` |
| Job Links (`job_link.go`, `postgres_job_links.go`) | `job_sources` | create, update, pause, resume, delete | an update or deletion in the middle of a crawl | live jobs lie in the current boundary | `CrawlPipeline` |
| Manual crawl requests (`postgres_crawl_requests.go`) | `crawl_requests` | enqueue | one outstanding request per source | every request is served, then resolves by a run of its own | `CrawlPipeline`, `CrawlRecords` |
| Page crawl (`crawl.rs`, `scope.rs`) | pages visited, a channel of pages, the report | resolve, robots, fetch, collect, report | failing pages, limits, pages lost in the channel | HEALTHY only when everything within the limits was read and authoritative | `CrawlReport` |
| Locations (`location.rs`, `location.go`, `postgres_locations.go`) | `locations`, aliases, `job_cache.location_id` and its owner | create, update, assign, resolve, upsert | crawler and administrator write one column | an administrator's choice is never overwritten | `JobLocations`, `LocationRule` |
| CV scans (`scan_service.go`, `upload.go`, `postgres_scans.go`, `engine.go`) | `scans`, profiles, matches, temporary files, background workers | start, process, complete, fail, clean up, close | API crash, timeout, ambiguous commit, deletion of the CV or of a matched job | every scan ends; files go with their worker | `ScanLifecycle` |
| Matching (`matcher.go`, `extractor.go`, `deepseek.go`) | what one CV has become so far | extract, redact, ask, validate, score, store | rounding, missing fields, two models | a total near its parts, no lower score for more evidence, relevant text kept | `CvMatching` |
| CV history (`client_cv.go`, `postgres_client_cv.go`) | scans, profiles | list, delete | two deletions sharing a profile | no orphan profile | `ScanLifecycle` |
| Home sections (`home_section_service.go`, `postgres_home_sections.go`) | sections, media, clean-up queue, provider images | upsert, media, claim, destroy, complete | leases, outages, commits in doubt, overlapping editors | no reference to a destroyed image, no orphan | `HomeAssets` |
| Promotions (`promotion_service.go`, `postgres_promotions.go`, `promotion_handler.go`) | slides, provider images, browser caches | upsert, delete, list, load | images named by content, two editors, cached answers | no reference to a destroyed image; a URL shows its picture | `PromotionAssets`, `PromotionCache` |
| Cloudinary client (`uploader.go`) | the provider's images | upload, destroy | outages, lost answers | as above | in both of these |
| Client authentication (`client_auth.go`, its handler, middleware and repository) | users, identities, sessions, cookies | log in, `/me`, log out | tabs that share cookies, answers out of order, first login twice | CSRF tokens converge, a dead session stays dead, one user per account | `ClientSessions` |
| Administrator authentication (`admin_auth.go`, its handler, middleware and repository, `cmd/admin`) | accounts, sessions, audit events | create, log in, request, touch, log out | deactivation and revocation racing requests | deactivation holds, dead sessions are never written, the audit is true | `AdminAccess` |
| HTTP API (`httpapi/`) | rate-limiter buckets | routing, limiting | a full bucket map, old clock readings | quota, deserved refusals, running windows spared | limiter: `RateLimiter` |
| Runtime row, settings (`runtime.rs`, `config.rs`, `settings.go`) | one row, one interval | heartbeat, mark, reload | two processes write one row | display only | not modelled |
| Job listing, commands, frontend | none of their own | reads, wiring, presentation | | | not modelled |

`PROJECT.json` lists the hazards of all of these with the properties that would catch them.

## 2. The model

**`CrawlPipeline`** is the crawler processes, the administrator and the four tables.

*Steps.* A committed transaction is one action. Everything the crawler does between transactions
is a boundary at which another process, an administrator or a fault may come. The two places where
one transaction is two steps are those where the difference shows: `BeginPersist` fixes `now()` and
`CommitPersist` decides; `CrawlHealthy` produces observations that are persisted much later. In
between nothing is locked, so an administrator may move, pause or delete the Job Link.

*State.* `sources`, `requests`, `runs` and `jobs` are the tables with the columns the control
depends on (DELETED keeps a deleted row's identity from being reused); `begun` and `asked` are the
next identities. Each process has `pc` (its place in `main.rs`), `conn` (its main connection),
`todo` (the sources `load_active_sources` returned), `task` (source snapshot, request and run) and
`batch` (observations of a healthy crawl).

*Time* is the number of runs begun. A run's `started_at` is its number; `last_seen_at` is `now()`
of the persisting transaction, that is, the number of runs begun at its BEGIN. The only use the code
makes of time is `last_seen_at < started_at`, and numbers order exactly the pairs that clocks do.

*Code to actions.*

| Code | Actions |
|---|---|
| `main` loop, `drain_pending_requests` | `PollBlocked`, `PollEmpty`, `ClaimRequest`, `CycleNotDue`, `StartCycle` |
| `process_one_pending_request` | `ClaimRequest`, `MarkRuntime`, `FailRequest` |
| `run_cycle`, `run_scheduled_cycle` | `StartCycle`, `NextSource`, `CompleteScheduled`, `EndCycle` |
| `run_source` | `BeginRun`, `AttachRequest`, `CrawlHealthy`, `CrawlUnhealthy`, `BeginPersist`, `CommitPersist`, `PersistFails`, and their failures |
| `finalize_run`, `resolve_run_finalization`, `recover_run_finalization` | `FinalizeRun`, `FinalizeRunMissing`, `FinalizeRunAmbiguous`, `RecoverRun`, `RecoverRunMissing`, `RecoverUnreachable` |
| `complete_request` | `CompleteRequest`, `CompleteRequestFails` |
| `JobLinkService`, `PostgresJobLinkRepository` | `CreateJobLink`, `UpdateJobLink`, `PauseJobLink`, `ResumeJobLink`, `DeleteJobLink` |
| `EnqueueCrawlRequest` | `EnqueueCrawlRequest` |
| process death, broken connection | `CrashRestart`, `LoseConnection`, second disjuncts of `CommitPersist` and `FinalizeRunAmbiguous` |

*Abstractions.* Job contents, error codes and page counts are dropped. The three unhealthy statuses
are one, UNHEALTHY. A crawl yields any non-empty set of observed jobs, any of them declared closed:
a HEALTHY report has at least one page and every page is authoritative, which for the JSON-LD
adapter means at least one posting. `PersistFails` stands for every reason the transaction rolls
back, and it may happen for no visible reason. The request status after Enqueue's retries is that
of one atomic call. `DeleteJobLink` is one step: with concurrent writers its statements meet
foreign keys and row locks that either serialise the two or abort one.

**`ScanLifecycle`** is the API process with its CV scans. `r` stands for one upload: its handler, its
temporary file, its `scans` row, its goroutine and the profile that one may insert.

*Steps.* A transaction is one action, because the row locks of `CompleteScan`, `SetStatus` and
`deleteCVScan` serialise them on the scan row; RECEIVED and MATCHING exist only inside one. The
exception is the commit of `CreateScan`: when its answer is lost the server may decide it later
(`LateCommit`, `LateRollback`), and the SELECT that checks it does not wait for it.

*State.* `status`, `profiles`, `matches` and `jobs` are tables, `files` and `aged` the disk, `pc`,
`tries` and `cand` the locals of handler and goroutine, `api` the process: up, closing (the
processing context is cancelled and `Close` waits), closed (`pool.Close`), down. `deleted`, `lost`
and `cut` are history.

| Code | Actions |
|---|---|
| `ScanService.Start`, `saveTemporaryCV` | `SaveTemporaryCV`, `CreateScanFails`, `QueueProcessing` |
| `CreateScanForClient`, `recoverCommittedParsingScan` | `CreateScan`, `CommitAmbiguous`, `RecoverCommittedScan`, `RecoveryFails` |
| `MatchingProcessor.Process` | `LoadScanContext`, `ExtractCVText`, `ParseProfile`, `ListMatchCandidates`, `CompleteScan`, `CompleteScanUnanswered`, `ProcessFails` |
| `processInBackground`, `setFailedStatus`, `SetStatus` | `SetFailed`, `SetFailedErrs`, `SetFailedStalls`, `Cleanup` |
| `recoverTemporaryCVs`, `NewScanService` | `Age`, `RecoverTemporaryCVs`, `Restart` |
| `main` after a signal, `Close` | `BeginClose`, `CloseReturns`, `Exit` |
| `deleteCVScan`, Job Links, the crawler | `DeleteCV`, `DeleteJob`, `JobChanges` |

*Abstractions.* `ProcessFails` is every error of `Process`, its timeout included. All jobs are
in the location of the scan. `Age` is unconstrained: a file may grow old under a goroutine that
still needs it. `os.Remove` may fail. One API process runs at a time.

**`ScanVerdict`** is its abstract specification: NONE, PARSING, then COMPLETED or FAILED, once, until
DELETED for good, with a profile exactly while COMPLETED. **`MCScanLifecycle`** instantiates the
model for TLC.

**`JobLifecycle`** is the abstract specification: `reconcile_job` applied by one healthy crawl to all
jobs of a source at once, plus the two ways an administrator may change jobs. **`CrawlRecords`** is a
second one, for the two other tables: a request is claimed once, names one run of its own Job Link
that no other request names, and is COMPLETED by the outcome of that run alone. It says nothing of
processes, connections or recovery, and it has no step that closes a request whose process is gone
or whose Job Link is paused: those are findings 1 and 3. **`MCCrawlPipeline`**
instantiates the model for TLC and assumes (and lets TLC check) that run identities suffice, so that
no crawler is ever stuck on a bound.

**`CrawlReport`** is one crawl inside `CrawlPipeline`'s `CrawlHealthy` and `CrawlUnhealthy`: from a
Job Link's URL to the report.

| Code | Actions and operators |
|---|---|
| `validate_resolved_host` | `ResolveHost` |
| `fetch_robots_policy` | `FetchRobotsPolicy` |
| `ScopedHttpFetchEngine.fetch`, `SourceScope.allows` | `FetchPage` (`PageServed`, `PageFails`), `CanFetch`, `Allows` |
| `crawl_source` after the crawl, `parse_job_posting_html`, `finalize_crawl_report` | `EndCrawl`, `Received`, `FetchFailed`, `Rejected`, `Authoritative`, `Report` |

Spider is external: it visits, level by level, pages that links lead to, up to the depth and the
limit, and puts them into the channel that the code reads when the crawl is over. Pages are URLs, a page
carries postings that can be used or cannot, and links appear as pages are served.

**`JobLocations`**: the administrator's transactions (`CreateLocation`, `UpdateLocation`,
`AssignJobLocation`), aliases written by an operator (`PointAlias`), deletion of a Job Link
(`DeletePostings`), and the persisting transaction of the crawler, whose statements are steps of
their own under READ COMMITTED: `BeginObservations`, `ResolveLocation`, `UpsertPosting`,
`CommitObservations`, `RollBackObservations`. A row the crawler has written is locked, so an
assignment to it waits. `chosen` and `placed` are history. **`LocationRule`** is its abstract
specification: the `CASE` of the upsert, applied by one crawl in one instant to the rows as they are
then, beside assignments and deletions.

**`CvMatching`** is `MatchingProcessor.Process` on one CV: `ExtractText` (by format, then
`sanitizeCVText`), `ParseWithModel` and `ParseFails` (primary model, then fallback, `Validate`),
`ListMatchCandidates`, `ScoreCandidates`, `CompleteScan` with the constraints the rows meet. A CV is a
sequence of lines of fifteen kinds, a role text a sequence of words, a score a fraction until
`roundScore` makes hundredths of it. `Sanitize` is the program's chain of filters in its order: a name in
the header, labels, addresses, contact data, blank lines, the ends, the limit `MaxLines`. Since `\s`
matches line ends, three patterns also take a pair of lines with at most blank ones between (`Spanned`):
a bare label word ("Portfolio") and a line that starts with a dash, a lone number and a line with a word
of an address, and digits that make a telephone number together; what one filter blanks brings the
lines around it together for the next. **`MCCvMatching`** gives documents, answers and jobs.

**`HomeAssets`**: the images of the Home page. A cell is one row that may hold an image; the queue
holds public IDs to be destroyed, each with an identity and a lease.

| Code | Actions |
|---|---|
| `Upsert`, `CreateMedia` up to the transaction | `UpsertRequest`, `CreateMediaRequest`, `UploadHomeSection`, `UploadFails`, `EnsureStrip` |
| `UpsertHomeSection`, `CreateHomeSectionMedia` | `LockRow`, `ApplyUpsert`, `ApplyInsert`, `CommitWrite` |
| `UpdateHomeSectionMedia`, `DeleteHomeSectionMedia` | `UpdateMedia`, `DeleteMediaRequest` with `CommitWrite` |
| an error, a lost answer, `enqueueCleanup` | `WriteFails`, `CommitUnanswered`, `LateCommit`, `LateRollback`, `EnqueueCleanup`, `EnqueueCleanupFails` |
| the clean-up worker | `ClaimCleanup`, `ClaimUnanswered`, `Destroy`, `DestroyFails`, `CompleteCleanup`, `LeaseExpires` |
| process death | `Crash` |

A transaction is three steps (lock, apply, commit), because its races lie between them: a section
that has no row yet locks nothing. Time is left out of the queue: an entry is due or leased, and a
lease may run out under a busy worker.

**`PromotionAssets`**: `UpsertSlide`, `GetActiveImage`, `UploadPicture`, `PreparationFails`,
`UpsertRow`, `UpsertRowFails`, `DestroyUploaded`, `DestroyPrevious`, `DeleteSlide`. The public ID is slot
and content, so the same picture uploaded again is the same image. **`PromotionCache`** adds a browser:
`ListPromotions`, `LoadImage`.

**`ClientSessions`**: one browser with several tabs that share cookies. A request takes the cookies
along when it is sent, works on the row it has read, and its Set-Cookie takes effect when the answer
arrives.

| Code | Actions |
|---|---|
| `Start`, `Callback` | `Start`, `Callback`, `CallbackFails`, `FindIdentity`, `WriteIdentity`, `CreateSession`, `Landed` |
| `RequireClientSession`, `Me`, `RefreshCSRF` | `SendMe`, `Authenticate`, `Unauthorized`, `Me`, `ReceiveMe` |
| `RequireClientCSRF`, `Logout` | `SendLogout`, `Authenticate`, `CSRFInvalid`, `Logout`, `ReceiveLogout` |
| thirty days | `Expire` |

**`AdminAccess`**: `CreateUser` (the command), `SetActive` (outside the repository), `FindAdmin`,
`ComparePassword`, `CreateAdminSession`, `RecordAudit`, `SendRequest`, `AuthenticateAdmin`,
`TouchAdminSession`, `Serve`, `LogoutAdmin`, `ExpireVisit`. The statements of a request are steps.
`barred` is history: requests that were sent while their account was inactive.

**`RateLimiter`**: `Allow` with its four outcomes (`NewBucket`, `NextWindow`, `Consume`, `Refuse`) and
`Tick`. Points in time are ages in ticks. A request reads the clock before it waits for the mutex,
so its reading may be old when it is used (`Lag`). `grants[k][i]` is the age of the i-th last request
`k` was allowed, `wronged` the peers refused without cause; both are history.

**Proof modules** hold the theorems, one module per component where not said otherwise:
`CrawlPipelineProofs`, `ScanLifecycleProofs`, `ClientSessionsProofs`, `CvMatchingProofs`,
`ImageProofs` (`HomeAssets` and `PromotionAssets`), `AccessProofs` (`AdminAccess` and `RateLimiter`),
`CrawledJobsProofs` (`CrawlReport` and `JobLocations`) and `BackendProofs` (`MCBackend`).

**MC modules.** `MCCrawler` starts one crawler in two settings (below). `MCBackend` puts eight parts
that share no state side by side: a behaviour is one of any of them. `MCProgress` does the same with
three instances and their fairness.

## 3. Properties and runs

| Run | Question | Instance | States |
|---|---|---|---|
| `cycles` | Does the job cache move only as promised, and do requests and runs agree through recovery? | `MCCrawler`, two settings: scheduled cycles of 1 source, 2 jobs, 2 URLs, 4 runs, 1 fault; manual queue of 2 sources, 2 requests, 2 jobs, 2 faults. Every Job Link operation in both | 218 000 |
| `workers` | What survives two crawler processes? | daemon and `--once`, 1 source, 2 jobs, 3 runs, update, delete | 290 000 |
| `scans` | Are rows, profiles and verdicts consistent? | 2 uploads, 1 job, 2 faults, slow shutdowns | 1 370 000 |
| `progress` | Is every manual request taken, does a claimed one resolve, do raw CVs vanish and scans end? | `MCProgress`: 2 sources, 2 requests, 1 fault, delete; 1 source, 2 requests, 1 cycle, every operation; 1 upload, 1 job, 2 faults | 34 000 |
| `images` | Is a queued Home image destroyed in the end? | 1 editor, 1 worker, 1 section, 2 media places, 2 images, 1 slip | 61 000 |
| `backend` | Are the other parts safe? | `MCBackend`: see below | 800 000 |
| `blocked`, `hang`, `stuck`, `close`, `sum`, `cache` | findings, section 5 | the smallest instance that shows each | |

Bounds of the crawler: `MaxRuns` (crawl runs), `MaxRequests`, `MaxCycles` (scheduled cycles),
`MaxFaults` (crashes, lost connections, unreachable recoveries); `AdminOps` selects the
administrator's operations. `MaxSlips` (Home) and `MaxErrors` (promotions) bound crashes and lost
answers. Other constants are sets of actors and data, or the program's own limits made small.

The parts of `backend`: Home images with 2 editors, 1 worker, a section, 2 media places, 2 images, 1 slip;
promotions with 2 editors, 1 slot, 2 pictures, 1 error; a browser of 2 tabs with 2 sessions (one
from before CSRF cookies), 1 Google account, 2 user rows; 7 CVs and a limit of 5 lines, which two of
them exceed with lines matching lives on, 71 answers of a model and 5 jobs that have
and lack every field; 2 administrators' callers, 2 accounts, 2 spellings of an address, 1 session;
2 locations, 2 jobs, 2 texts; 3 peers, limit 2, window 2, 2 buckets, readings 1 tick old; a site of 4
pages, one outside the scope, depth 1, limit 3, a channel of 2.

Why the bounds are enough. Closing a job takes one run that sees it and two that do not; the fourth
run lets a missed job come back or a closed one reappear, and two jobs let one be seen while the
other is missed. Two URLs are one change of boundary and the way back. In the queue, two faults are the lost
commit answer and a failure of the recovery after it. `workers` has three runs: two overlapping and
one after them. In `scans` the two uploads let the goroutine of one hold `Close` up while the handler
of the other goes on, and two faults are the least that strand a scan; uploads share nothing else, so
one is enough for liveness. Races on a cell, a slot, an account or a session are between two
requests; two Home images are one replaced by the other, and a lost answer is one slip. Both settings
of clean-up, an entry that is leased and one that was enqueued again under another identity, occur
with one worker, because its lease may run out under it. Three peers and two buckets fill the map. Four pages
give a start, two pages linked from it, so that the limit of 3 and the channel of 2 are both reached,
and one page that must not be fetched.

`CHECK_DEADLOCK FALSE` is used where the system may stop: all identities of a bounded set are used
up, or the one CV is done. Symmetry is used only in runs without liveness, over sets of actors or
data no definition singles out.

What the properties say:

- `LiveJobsInBoundary`: a job on offer was observed inside its Job Link's current boundary.
- `MissesAreExact` (one crawler): a live job's counter is exactly the number of healthy runs begun
  since it was last seen. `MissesHaveRuns` (several crawlers): the counter never exceeds that number. With two
  crawlers exactness really fails: an older crawl that commits late writes a fresh `last_seen_at`
  over misses a newer run counted.
- `ClosedOnEvidence`: a live job is closed only by a change of URL, by a healthy run that declares
  it closed, or by at least the second healthy run without it.
- `OnlyHealthyRunsTouchJobs`: no failed, rejected or ambiguous crawl changes any job.
- `RefinesLifecycle`: with one crawler, the pipeline implements `JobLifecycle`.
- `RefinesRecords`: requests and runs implement `CrawlRecords`, through every recovery, deletion and
  lost answer; in particular a run's outcome is never rewritten.
- `CompletedHasOutcome`, `ClaimsAreExclusive`: COMPLETED has a finished run of the same source behind
  it, a request has one worker.
- `AbandonmentsCostFaults`: requests that stay RUNNING with nobody to finish them (finding 3) are never
  more than the crashes, broken connections and unreachable recoveries so far: no refusal, deletion or pause in
  mid-crawl strands one.
- `QueueInv` (any number of crawlers), `ScanInv` and `PartsInv` (one invariant per part of `backend`): the
  inductive invariants of section 4, types included, checked so that proof and model agree.
- `HealthyReportsAreComplete`: a HEALTHY report misses nothing within depth and limit, whatever page
  failed, was refused, was lost in the channel or could not be understood.
- `ChosenLocationsStand`: no interleaving of resolution, assignment and upsert loses a chosen or a
  resolved location.
- `RefinesLocationRule`: seen on the committed rows, each transaction of the crawler is one crawl by
  `LocationRule`, with locations that exist, although it resolves and writes job by job while
  administrators assign, rename and deactivate.
- `ProfilesHaveScans`, `MatchesAreAnchored`: no personal data without its scan and no result without
  its profile, its verdict and its jobs, although all of them may be deleted while a goroutine works.
- `StrandedScansHaveCause`: a PARSING scan nobody works on was cut off (the process ended, or the
  commit landed after it had been given up) or failed by the database twice. A silence of five
  seconds counts twice, for it takes both attempts of `setFailedStatus`.
- `RefinesVerdict`: the rows implement `ScanVerdict`.
- `TotalsNearSum`, `MoreEvidenceNeverHurts`, `MatchingTextSurvives`: rounding moves a total by at most two
  hundredths, one more skill never lowers a score, and what is sent to the language model has the
  lines with roles and prose of the CV in their order, but for two exceptions: lines that a pattern takes
  together with the heading or number before them, and the end of a text that reaches the limit.
- `ReferencesAreAlive`, `OrphansHaveCause`, `PublicSectionsHaveImages`: rows and provider agree, and
  the exceptions are exactly: an image enqueued while its own commit was in doubt; a lost call or
  crash, two requests that create one section, an image two media rows share.
- `BrokenSlidesHaveCause`: a slide loses its image only after two overlapping requests on its slot, or
  an error of its upsert.
- `RefreshesConverge`, `DeadSessionsStayDead`, `AccountsAreAnchored`: tabs agree on one token unless a late answer of
  another session replaced the cookie; revoked and expired rows are frozen; one user per account.
- `DeactivationHolds`, `DeadVisitsAreFrozen`: the same for administrators; that the audit trail is true
  (`AuditIsTrue`) is part of their invariant.
- `QuotaHolds`, `RefusalsAreDeserved`, `RunningWindowsAreSpared`: a peer gets at most two quotas in a
  window, nobody is refused too early, the map stays bounded and drops stale windows first.
- `ActiveRequestsAreServed`, `RunningRequestsResolve`, `RawCVsVanish`, `ScansReachVerdict`,
  `QueuedImagesVanish`: liveness. `CloseLeavesTerminalScans`, `TotalsAddUp`, `UrlsShowTheirPicture`: findings.

**Fairness.** `Fairness` of `CrawlPipeline` is weak fairness of each process's `WorkerStep`, except while it waits for a
web site: the crawler is run by a process manager (`crawler/README.md`, "Run continuously"), polls
every five seconds, and a database call answers or its connection breaks. `SitesAnswer` adds that a
crawl comes to an end. The code does not secure that (no request has a timeout), so it is an
assumption of its own: `AnsweredSpec` and `MCProgress` make it, and `hang` shows what
happens without it. No fairness is assumed of administrators or faults, and none of an individual
outcome: a process may go on choosing the failing alternative.

In `ScanLifecycle`, handlers and goroutines go on (database calls answer or break, the LLM call is
bounded by the two minutes of `Process`), shutdown ends, the API is started again when it is down,
files grow old and the ticker ticks. A late commit, a fault, a shutdown and a deletion need not happen.

In `HomeAssets`, a worker goes on with its batch (every call has a deadline) and leases run out:
weak fairness. That an entry is claimed and that the provider destroys it is strong fairness per
image: the claim takes entries in the order in which they are due, and Cloudinary does not refuse one
image for ever while it accepts others. Editors and crashes are not forced.

Every property of a passing run has a mutant: the operator it depends on, changed as a plausible bug
would change it (definitions marked "Mutant" in the module), makes TLC report the violation.

## 4. Proofs

Every safety property a passing run checks, invariant or action property, and all four refinements
are proved for all values of the constants. `S` below is the specification of the component.

None of the properties is inductive alone: each component has an inductive invariant, a conjunction
of named parts that its module defines. The runs check `QueueInv`, `ScanInv` and `PartsInv`; of `SoloInv` and
`AbandonInv` they check the properties that follow. A proof shows that `Init` implies it and
that each action preserves it, one step per action and under it one per part the action disturbs;
the property then is a part of the invariant or follows from it.

### The crawler: `CrawlPipelineProofs`

Assumptions: bounds are naturals (`BoundsAssumption`), NULL is no value (`NoneAssumption`).

| Theorem | Statement |
|---|---|
| `Invariance`, `TypeCorrect` | `S => []PipelineInv`, `S => []TypeOK` |
| `JobsStayInBoundary` | `S => []LiveJobsInBoundary` |
| `ClaimsExclusive` | `S => []ClaimsAreExclusive` |
| `CompletionsHaveOutcomes` | `S => []CompletedHasOutcome` |
| `OutcomesAreFinal` | `S => RunOutcomeIsFinal` |
| `JobsChangeWithTheirRun` | `S => OnlyHealthyRunsTouchJobs` |
| `CountersHaveEvidence` | `S => []MissesHaveRuns` |
| `ClosuresHaveEvidence` | `S => ClosedOnEvidence` |
| `SoloInvariance`, `CountersAreExact` | `S /\ OneProcess => []SoloInv`, `... => []MissesAreExact` |
| `LifecycleRefined` | `S /\ OneProcess => RefinesLifecycle` |
| `QueueInvariance` | `S => []QueueInv` |
| `RecordsRefined` | `S => RefinesRecords` |
| `AbandonmentsHaveCause` | `S => []AbandonmentsCostFaults` |

That a COMPLETED request has a finished run needs to know that a process at `complete` holds a run of its
own source that is finished or deleted (`KnowsItsRows`, part of `TaskOwnsRows`); that this survives
other processes' steps needs identities to be handed out once (`FreshIdentities`) and rows to be
deleted exactly with their source (`RowsFollowSources`); that the boundary holds when a Job Link is
created needs that a new link has no jobs (`NewLinksHaveNoJobs`). `PipelineInv` is their conjunction.

The counting properties compare a job's counter with the number of healthy runs begun after it was
last seen. The step that matters is `CommitPersist`, which makes one run HEALTHY: it joins the set of
exactly those jobs' runs that were last seen before it began, which is the `WHERE last_seen_at < started_at`
of the reconciliation, and a finite set with one more element is one larger. Everything else
leaves these sets alone or shrinks them together with the counters.

Exactness and the refinement hold with the daemon alone (`OneProcess`); with a `--once` run beside it
an older crawl that commits late wipes out misses that a newer one counted, as section 3 says.
`SoloInv` adds why one process is exact: its run, until it resolves, is the last one begun, and every
live job was last seen before it (`CrawlIsTheLast`), so that a commit meets every live job of its source as
an older one. The refinement maps a run's commit to one `HealthyCrawl` of `JobLifecycle`, an
administrator's operation to its counterpart, and every other step to a stutter.

The refinement of `CrawlRecords` holds for any number of processes. It needs what no single statement
checks: `attach_crawl_request_run` compares nothing but the status, so that it names a run of its own comes from
`RunsHaveOneOwner` (the run at `attach` was begun by this process and nobody else holds it, and it is
undecided until its own process finalizes it) and from `RequestsFollowTheirRuns` (the request still names none
at `attach`, and names the process's own run at `complete`). Those two rest on `NamedRunsAreBegun`: a run
that is begun now cannot have been named before. `QueueInv` is `PipelineInv` with these parts. The refinement maps a
step of a process to at most one step of the records, deletion of a Job Link to
`DeleteSource`, and everything between transactions to a stutter.

That abandoned requests are no more than faults is not inductive: a process whose connection is gone still
holds its request and will leave it without another fault. `AbandonInv` counts these too: abandoned
requests and doomed processes together are at most the faults. A step that breaks a connection
makes one more doomed process, a doomed one that gives up moves its request from one count to the other, and a
crash adds at most one request (`WorkerAbandons`); the counting itself is `SumStaysBelow`.

### CV scans: `ScanLifecycleProofs`

Assumption `ScanBounds`: the bound is a natural, the switch a Boolean.

| Theorem | Statement |
|---|---|
| `ScanInvariance` | `S => []ScanInv` |
| `ProfilesStored` | `S => []ProfilesHaveScans` |
| `MatchesAnchored` | `S => []MatchesAreAnchored` |
| `StrandedExplained` | `S => []StrandedScansHaveCause` |
| `VerdictsRefined` | `S => RefinesVerdict` |

`StrandedScansHaveCause` needs what was spent on the way (`CausesFollowCode`: a second attempt means a
failed first), the others that a row is COMPLETED or FAILED only once its goroutine is past
`CompleteScan` and that a late commit meets no row (`RowsFollowCode`). The refinement maps a deleted
scan to DELETED; every action is one step of `ScanVerdict` or leaves scans and profiles alone.

### Matching: `CvMatchingProofs`

Assumption `CvAssumption`: lists in answers and jobs are sets of spellings, finite for jobs, role texts
are sequences of words, minimums are missing or natural numbers, a file is a sequence of lines, limits are
natural. No bound on the CV, the answer, the jobs or the normalization; the limit of the text sent is
`MaxLines`, whatever it is.

| Theorem | Statement |
|---|---|
| `CvInvariance` | `S => []CvInv` |
| `TotalsStayNear` | `S => []TotalsNearSum` |
| `SkillsNeverHurt` | `S => []MoreEvidenceNeverHurts` |
| `RelevantTextSurvives` | `S => []MatchingTextSurvives` |
| `RefusedForTheSum` | `S => []OnlySumsAreRefused`: of the constraints on a score, only the sum ever refuses one (finding 5) |

- *Totals.* A part is a fraction between 0 and its weight; rounding moves it by at most half a hundredth
  (`RoundingIsNear`), seniority is exact, so that parts and total are off by at most five halves in all
  (`ErrorsAddUp`), and two integers that close are at most two apart (`NearEachOther`).
- *Evidence.* One more skill never shrinks the set of normalized keys, so both overlaps grow
  (`OverlapIsShare`), sums of fractions with them (`SumsGrow`), and rounding keeps the order
  (`RoundingGrows`). That the best role is well defined (`RoleIsShare`) needs that a finite non-empty set of
  fractions has a greatest one (`BestExists`), by well-founded induction on its finite subsets.
- *Text.* Each filter is followed alone. Those that leave lines out pick the k-th of what they keep; ranks
  in a finite set of positions are one to one and keep the order (`Ranks`), so a selection that has all evidence
  has it in its order (`SelectionKeeps`, for `CompactBlankLines`, `TrimSpace` and the joining of numbers). A
  name blanked in the header is no evidence and has no text before it (`HeaderIsNoEvidence`); evidence
  that is blanked lies behind a heading or a number in the CV itself, also where earlier filters brought
  the two together (`AnonymousKeeps`). What the cut drops comes after all that is sent
  (`SanitizingKeeps`).

The invariant says besides that what is scored by was validated, and that nothing is scored while the
profile or the candidates may still change (`ScoresAreComputed`).

### What a crawl brings: `CrawledJobsProofs`

Assumptions: the start lies in the scope, limits are naturals, an unusable posting is no identity
(`ReportAssumption`); no location, text or job is NULL (`LocationAssumption`).

| Theorem | Statement |
|---|---|
| `ReportInvariance` | `S => []ReportInv` (`CrawlReport`) |
| `HealthyIsComplete` | `S => []HealthyReportsAreComplete` |
| `HealthyReportsNameJobs` | a HEALTHY report names at least one job, and no unusable one |
| `LocationInvariance` | `S => []LocationInv` (`JobLocations`) |
| `ChoicesStand` | `S => []ChosenLocationsStand` |
| `LocationRuleRefined` | `S => RefinesLocationRule` |

The pages fetched are finitely many (`FetchesAreBounded`), so a report that received as many as were
fetched received all of them. A choice survives because what the crawler has written and not yet committed already
agrees with the row it will replace (`OwnersFollowChoices`): the row is locked, so that no assignment comes between.
`HealthyReportsNameJobs` is what `CrawlHealthy` of `CrawlPipeline` takes for granted when it observes a
non-empty set.

The refinement needs that a row written minutes before the commit is still what the rule makes of the row
as it is committed by then, for some location the registry has (`WritesFollowRule`). So the commit can
pick, for each job it has written, the location it was written with (`CommitIsCrawl`), and be one
`Crawl` of the abstract specification; the registry only grows (`RegistryGrows`).

### Home images: `ImageProofs`

Assumption `HomeAssumption`: cells of the two kinds and images are different things, the image from
before this version is one of them, bounds are naturals.

| Theorem | Statement |
|---|---|
| `HomeInvariance` | `S => []HomeInv` |
| `RowsAreAlive` | `S => []ReferencesAreAlive` |
| `OrphansAreExplained` | `S => []OrphansHaveCause` |
| `SectionsShowImages` | `S => []PublicSectionsHaveImages` |

The invariant says who may have to do with an image. An upload belongs to one request, and until that one
puts it into a row or hands it to the queue no row, no claim and no other request knows it
(`UploadsAreOwned`); an image that does not exist is known to nobody (`UnusedAreUnknown`); what a worker has
claimed is in no row, except for a commit in doubt (`ClaimsAreFree`); what a request replaces is what
the locked row shows (`RequestsAreSound`, `SectionsAreLocked`). Without `SectionsAreLocked` two
requests would replace the same image; without `UploadsAreOwned` a worker could destroy what is about
to be committed.

### Promotion slides: `ImageProofs`

Assumption `PromotionAssumption`: no picture is NULL, the bound is a natural.
`PromotionInvariance` proves `S => []PromoInv`, `SlidesAreServed` `S => []BrokenSlidesHaveCause`. Two
requests on one slot are on record (`OverlapsAreKnown`), and one that is alone finds its image
stored from its upload on until it is done (`LoneRequestsServe`).

### Sessions: `ClientSessionsProofs`, and `AccessProofs` for administrators

Assumptions `SessionAssumption` and `AdminAssumption`: NULL is no value, the session from before the CSRF cookie is one
of the sessions; over-long passwords are passwords, and every spelling of an address has a canonical form.

| Theorem | Statement |
|---|---|
| `SessionInvariance` | `S => []SessionInv` |
| `RefreshesAgree` | `S => []RefreshesConverge` |
| `OneUserPerAccount` | `S => []AccountsAreAnchored` |
| `DeadSessionsStand` | `S => DeadSessionsStayDead` |
| `AdminInvariance` | `S => []AdminInv` |
| `DeactivationIsImmediate` | `S => []DeactivationHolds` |
| `AuditTrailIsTrue` | `S => []AuditIsTrue` |
| `DeadVisitsStand` | `S => DeadVisitsAreFrozen` |

That tabs agree on one token needs to follow it through every place it may be in
(`OneTokenForAll`): the row, the cookie, what a request took along, the hash it has read, what its answer will
set. The token of a session changes at most once, from the one before the CSRF cookie to one derived from
the session, and the derivation is what makes two concurrent refreshes write the same hash. A session whose
redirect has not arrived is known to its login alone (`LandingsAreFresh`). A refused
administrator has come no further than the check that refuses him (`BarredCallersWait`), and who records
a logout has revoked the session (`CallersHaveVisits`).

### Rate limiter: `AccessProofs`

Assumption `LimiterAssumption`: limit, window and bound are positive, readings of the clock are late
by less than a window, the clean-up interval is at most one window.

| Theorem | Statement |
|---|---|
| `LimiterInvariance` | `S => []LimiterInv` |
| `QuotaIsKept` | `S => []QuotaHolds` |
| `NoWrongRefusal` | `S => []RefusalsAreDeserved` |
| `EvictionsSpareRunning` | `S => RunningWindowsAreSpared` |

The requests a bucket counts are younger than its start (`CountsAreGrants`), those it does not count
older, up to `Lag` (`EarlierGrantsPrecede`), and what is a whole quota further back lies at least
`Window - Lag` back (`TwoWindowsApart`). So of any 2 * Limit + 1 requests the oldest is that old.

### The parts side by side: `BackendProofs`

`PartsStand` proves `McSpec => []PartsInv` for the specification the run `backend` checks. A behaviour
of `MCBackend` is, for each part, a behaviour of that part (`PartsRun`): it starts as the part does,
and each step is one of its steps or leaves its variables alone (`PartsStep`). So every theorem about a
part holds of it among the others; its assumptions are those of the parts.

### What stays with TLC

- Liveness (`ActiveRequestsAreServed`, `RunningRequestsResolve`, `RawCVsVanish`, `ScansReachVerdict`,
  `QueuedImagesVanish`): the prover has no rules for fairness and ENABLED.
- The findings: a counterexample is their proof.
- What a recursive function computes for every input, such as `JoinedRoles`: induction over data takes an
  operator as a parameter. The theorems about scores hold for whatever families it leads to.
- That the starting points of `MCCrawler` are states the pipeline reaches, and that the instances in
  `MCProgress` do not disturb each other: they share no variable.

## 5. Findings

1. **A pending request of a paused source blocks the manual requests of every source** (run
   `blocked`). `mark_inactive_crawl_requests` (`crawler/src/store.rs:206-220`) sets `finished_at` and
   leaves `started_at` NULL, which the CHECK in migration 000008, line 30, rejects; the `?` at
   `crawler/src/main.rs:218-220` then returns before anything is claimed, at every poll.
2. **A site that never answers stops the crawler** (run `hang`). The HTTP client of
   `crawler/src/crawl.rs:585-592` has no timeout, and neither has any await on the way up to the
   single main loop; the heartbeat task meanwhile keeps reporting a live crawler.
3. **A request whose crawler died stays RUNNING** (run `stuck`). Nothing takes it over, and the
   unique index makes every later click return that row. The same happens when only the connection
   is lost, because `complete_request` and `fail_crawl_request` use the connection that is gone.
4. **Close does not wait for a scan that is just being created** (run `close`). `main` gives handlers
   ten seconds, an upload may take thirty, and `processingWG.Add` (`scan_service.go:157`) may come
   after `Wait`. The row stays PARSING for ever.
5. **A score whose parts round apart fails the whole scan** (run `sum`). `ScoreCandidate`
   (`matcher.go:38`) rounds parts and total separately; `scan_matches_score_sum_check` (migration
   000001, line 250) demands that they add up, and one such job rolls all results back.
6. **A browser may keep a new picture under an old picture's URL** (run `cache`). The image route
   ignores the hash in the URL and lets its answer be cached for a year (`promotion_handler.go:108`).

Noted without a run of its own:

- A client whose connection breaks at the commit of `CreateScan` may be refused while the row appears a
  moment later (`LateCommit`; `postgres_scans.go:184-185` says that the check tells an unknown
  commit from a failed one).
- When recovery stays unresolved, `crawler/README.md:48-49` says the process exits with an error,
  while `main.rs:72-78` logs the error and goes on.
- Deleting a Job Link during a cycle abandons the rest of that cycle (`main.rs:287`).
- A crawl that reaches depth 3 or 100 pages is HEALTHY without the rest of the site, whose jobs then
  count as missing (the exception in `HealthyReportsAreComplete`). A site with more pages than the
  channel holds is SOURCE_ERROR at every crawl.
- Two requests that both create a Home section: the later upsert replaces an image that neither of
  them enqueues (`raced` in `OrphansHaveCause`). Two media rows that share an old image, deleted
  by two transactions at once, each see the other's row and leave the image behind.
- Deleting a promotion slide never destroys its image.
- Two tabs that start a Google login overwrite each other's state cookie, and the first one fails. A late
  answer to `/me` replaces the CSRF cookie of a session the browser has logged into since (`crossed`).
- A list that is missing in a model's answer passes `Validate` and violates NOT NULL on insert.
- The pattern for telephone numbers redacts year ranges such as "2019 - 2023", and two years on lines of
  their own, for `\s` matches line ends (`deepseek.go:265`). For the same reason a heading "Portfolio" or
  "GitHub" takes the bulleted line behind it along (`deepseek.go:267`), and a lone year a line of prose with
  "road", "ward" or "quan" anywhere in it, such as "forward" (`deepseek.go:268`).
- Of a CV beyond 80 000 runes the end is not sent, and nothing says so (`deepseek.go:280-283`).
- A fixed window lets a client use twice the limit within one window's length (`QuotaHolds`).
- Administrator passwords of 73 bytes or more pass validation and are refused by bcrypt.
- The Go side normalizes location texts by NFD, the Rust side by NFKD: texts with compatibility
  characters get different keys.

## 6. Not modelled

- *Runtime row and settings*: what they show, nothing in the program acts on; the interval only
  decides when a cycle is due, and a cycle of the model is due at any time.
- *Clock skew* between crawler and database (`store.rs:330`): times are orders of events.
- *Lock order and the connection pool*: PostgreSQL aborts one of two deadlocked transactions, which is
  a roll-back the models allow; readers of the Home page that each hold one connection and wait for
  a second one (`postgres_home_sections.go:260`) are below the step of a statement.
- *Enqueue at statement level*: all its statements look at one unique index; a lost race is an error
  to the click, not a state of the queue.
- *Configuration, routing, headers, listings and administration views*: wiring and read-only queries.
- *Frontend*: presentation; the cookies and tokens it holds are in `ClientSessions`.
- *Runes*: the limit of the text sent counts lines, all equally long, so a cut within a line is one at its end.
  A line is of one kind; digits at the ends of a line with words, and up to seven digits that a number of
  more than fifteen leaves over (possibly with a line end), are left out; none of that is evidence.
- *Late effects*: an answer to `/me` that is lost after its CSRF rotation, and a call that the image
  provider carries out after `PromotionAssets` has taken it for failed.
- *External*: HTTP, HTML, DNS, Spider, PDF and DOCX parsing beyond its outcome, the LLM, Google and
  Cloudinary, all modelled by how the code uses them. Field extraction, string normalization, URL
  arithmetic and address ranges are data.

## 7. What could follow

- `Enqueue` statement by statement, and the two deadlocks among the hazards: both need row locks and a
  connection pool below the step of a statement.
- An abstract specification of the clean-up queue of Home images, as `CrawlRecords` is one of the crawl
  queue: an image is handed over once and destroyed after that, or kept by a row.
- `PromotionCache`: which addresses show their picture when no slide is replaced between listing and
  loading.
- Settled attempts in `ScanLifecycle`: a bound on the database calls of one scan.
