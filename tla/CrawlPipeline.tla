---------------------------- MODULE CrawlPipeline ----------------------------
(***************************************************************************)
(* The crawl pipeline of "Go get a job ferris": the Rust crawler process,  *)
(* the administrator's Job Link operations of the Go API, and the tables   *)
(* both write: job_sources, crawl_requests, source_crawl_runs, job_cache.  *)
(*                                                                         *)
(* A committed database transaction is one step.  Everything the crawler   *)
(* does between two transactions is a step boundary: administrators,       *)
(* another crawler process, a crash or a broken connection may come there. *)
(*                                                                         *)
(* Time is the number of crawl runs begun so far.  A run's started_at is   *)
(* its own number, and last_seen_at (now() of the persisting transaction)  *)
(* is the number of runs begun when that transaction began, which is all   *)
(* the comparison last_seen_at < started_at can tell apart.                *)
(***************************************************************************)
EXTENDS Naturals, FiniteSets

CONSTANTS
  Sources,      \* identities of job_sources rows
  Keys,         \* source_job_key values a source can list
  Urls,         \* base URLs an administrator can register
  Workers,      \* crawler processes (the daemon, and a --once run beside it)
  None,         \* SQL NULL
  MaxRuns,      \* bound: crawl runs
  MaxRequests,  \* bound: manual crawl requests
  MaxCycles,    \* bound: scheduled cycles
  MaxFaults,    \* bound: crashes, broken connections, unreachable recoveries
  AdminOps      \* the administrator operations this instance exercises

ASSUME BoundsAssumption ==
  /\ MaxRuns \in Nat /\ MaxRequests \in Nat
  /\ MaxCycles \in Nat /\ MaxFaults \in Nat

RunIds == 1..MaxRuns
ReqIds == 1..MaxRequests

ASSUME NoneAssumption == None \notin Sources \union Urls \union RunIds \union ReqIds

VARIABLES
  sources,   \* job_sources: approval_status and base_url
  requests,  \* crawl_requests
  runs,      \* source_crawl_runs
  jobs,      \* job_cache, by source and source_job_key
  begun,     \* number of runs begun: the clock, and the last run identity
  asked,     \* number of requests inserted: requested_at order
  pc,        \* where each crawler process is in main.rs
  conn,      \* whether its main database connection is alive
  todo,      \* sources of the current cycle still to be crawled
  task,      \* the source snapshot, request and run it is working on
  batch,     \* observations of its last healthy crawl, and its tx begin time
  cycles,    \* scheduled cycles started (bound)
  faults     \* faults injected (bound)

tables == <<sources, requests, runs, jobs, begun, asked>>
locals == <<pc, conn, todo, task, batch>>
vars == <<tables, locals, cycles, faults>>

-----------------------------------------------------------------------------
(* Rows and local records *)

SourceRow == [status : {"NEW", "ACTIVE", "DISABLED", "DELETED"},
              url : Urls \union {None}]
RequestRow == [status : {"NONE", "PENDING", "RUNNING", "COMPLETED", "FAILED", "DELETED"},
               source : Sources \union {None},
               run : RunIds \union {None},
               started : BOOLEAN, finished : BOOLEAN]
\* STARTED is ANOMALY/crawl_started with finished_at NULL; UNHEALTHY stands
\* for SOURCE_ERROR, PARSER_ERROR and ANOMALY.
RunRow == [status : {"NONE", "STARTED", "HEALTHY", "UNHEALTHY", "DELETED"},
           source : Sources \union {None}]
\* url is the base URL whose scope the row's original_url was checked against.
JobRow == [status : {"NONE", "ACTIVE", "VERIFYING", "CLOSED"},
           cycles : 0..2, lastSeen : Nat, url : Urls \union {None}]
Target == [source : Sources, url : Urls]
Task == [source : Sources \union {None}, url : Urls \union {None},
         req : ReqIds \union {None}, run : RunIds \union {None}]
Batch == [seen : SUBSET Keys, closed : SUBSET Keys, at : Nat]
Pc == {"poll", "claimed", "schedule", "cycle", "begin", "attach", "crawl",
       "finalize", "persist", "commit", "recover", "complete", "failing"}

NoRequest == [status |-> "NONE", source |-> None, run |-> None,
              started |-> FALSE, finished |-> FALSE]
NoRun == [status |-> "NONE", source |-> None]
NoJob == [status |-> "NONE", cycles |-> 0, lastSeen |-> 0, url |-> None]
NoTask == [source |-> None, url |-> None, req |-> None, run |-> None]
NoBatch == [seen |-> {}, closed |-> {}, at |-> 0]

Exists(s) == sources[s].status \in {"ACTIVE", "DISABLED"}
Active(s) == sources[s].status = "ACTIVE"
Live(job) == job.status \in {"ACTIVE", "VERIFYING"}

\* job_sources_active_base_url_uidx: a URL belongs to one enabled Job Link.
UrlFree(s, u) ==
  \A t \in Sources \ {s} : Active(t) => sources[t].url # u

-----------------------------------------------------------------------------
(* The request queue: crawler/src/store.rs, crawl_requests constraints *)

Outstanding(s) ==
  {q \in ReqIds : requests[q].status \in {"PENDING", "RUNNING"} /\ requests[q].source = s}

InactivePending ==
  {q \in ReqIds : requests[q].status = "PENDING" /\ ~Active(requests[q].source)}

\* crawl_requests_finished_after_start_check
FinishedAfterStart(rows) == \A q \in ReqIds : rows[q].finished => rows[q].started

\* The UPDATE of mark_inactive_crawl_requests: it leaves started_at alone.
MarkedInactive ==
  [q \in ReqIds |-> IF q \in InactivePending
                    THEN [requests[q] EXCEPT !.status = "FAILED", !.finished = TRUE]
                    ELSE requests[q]]

MarkSucceeds == FinishedAfterStart(MarkedInactive)

\* Mutant: one crawl at a time, so a request left RUNNING blocks the others.
ClaimableOneAtATime ==
  {q \in ReqIds : /\ requests[q].status = "PENDING" /\ Active(requests[q].source)
                  /\ \A p \in ReqIds : requests[p].status # "RUNNING"}

Claimable ==
  {q \in ReqIds : requests[q].status = "PENDING" /\ Active(requests[q].source)}

Oldest(Q) == {q \in Q : \A p \in Q : q <= p}

\* Mutant: the claim only reads the row.
ClaimedRowReadOnly(row) == row

\* claim_next_crawl_request, complete_crawl_request, fail_crawl_request: what
\* each UPDATE writes, under its WHERE on the status.
ClaimedRow(row) == [row EXCEPT !.status = "RUNNING", !.started = TRUE]

\* Mutant: the WHERE names the status the request no longer has.
CompletedRowPending(row, r) ==
  IF row.status = "PENDING"
  THEN [row EXCEPT !.status = "COMPLETED", !.finished = TRUE, !.run = r] ELSE row

CompletedRow(row, r) ==
  IF row.status = "RUNNING"
  THEN [row EXCEPT !.status = "COMPLETED", !.finished = TRUE, !.run = r] ELSE row

FailedRow(row) ==
  IF row.status \in {"PENDING", "RUNNING"}
  THEN [row EXCEPT !.status = "FAILED", !.finished = TRUE] ELSE row

(* Job rows: the two statements of the persisting transaction *)

UpsertJob(closed, url, at) ==
  [status |-> IF closed THEN "CLOSED" ELSE "ACTIVE",
   cycles |-> IF closed THEN 2 ELSE 0,
   lastSeen |-> at, url |-> url]

Upserted(rows, b, url) ==
  [k \in Keys |-> IF k \in b.seen THEN UpsertJob(k \in b.closed, url, b.at) ELSE rows[k]]

\* Mutant: closed at the first miss.
MissedJobHasty(job) == [job EXCEPT !.cycles = 2, !.status = "CLOSED"]

MissedJob(job) ==
  [job EXCEPT !.cycles = IF @ + 1 >= 2 THEN 2 ELSE @ + 1,
              !.status = IF job.cycles + 1 >= 2 THEN "CLOSED" ELSE "VERIFYING"]

\* Mutant: <= for <, so a job seen by this very run counts as missing.
CountsAsMissingInclusive(job, startedAt) == Live(job) /\ job.lastSeen <= startedAt

\* Mutant: no comparison with the start of the run at all.
CountsAsMissingAlways(job, startedAt) == Live(job)

CountsAsMissing(job, startedAt) == Live(job) /\ job.lastSeen < startedAt

Reconciled(rows, startedAt) ==
  [k \in Keys |-> IF CountsAsMissing(rows[k], startedAt) THEN MissedJob(rows[k]) ELSE rows[k]]

\* Mutant: jobs under verification are forgotten.
ClosedByAdminActiveOnly(job) ==
  IF job.status = "ACTIVE" THEN [job EXCEPT !.status = "CLOSED", !.cycles = 2] ELSE job

ClosedByAdmin(job) == IF Live(job) THEN [job EXCEPT !.status = "CLOSED", !.cycles = 2] ELSE job

(* The compare-and-set on source_crawl_runs: WHERE finished_at IS NULL *)
\* Mutant: the update is not conditional on finished_at IS NULL.
CanFinishAgain(r) == runs[r].status \notin {"NONE", "DELETED"}

CanFinish(r) == runs[r].status = "STARTED"
Finished(r, outcome) ==
  IF CanFinish(r) THEN [runs EXCEPT ![r].status = outcome] ELSE runs

-----------------------------------------------------------------------------
(* Administrator: backend/internal/repository/postgres_job_links.go and    *)
(* postgres_crawl_requests.go                                              *)

CreateJobLink(s, u) ==
  /\ sources[s].status = "NEW"
  /\ UrlFree(s, u)
  /\ sources' = [sources EXCEPT ![s] = [status |-> "ACTIVE", url |-> u]]
  /\ UNCHANGED <<requests, runs, jobs, begun, asked, locals, cycles, faults>>

UpdateJobLink(s, u) ==
  /\ "update" \in AdminOps
  /\ Exists(s)
  /\ UrlFree(s, u)
  /\ jobs' = [jobs EXCEPT ![s] = IF sources[s].url = u THEN @
                                 ELSE [k \in Keys |-> ClosedByAdmin(jobs[s][k])]]
  /\ sources' = [sources EXCEPT ![s] = [status |-> "ACTIVE", url |-> u]]
  /\ UNCHANGED <<requests, runs, begun, asked, locals, cycles, faults>>

PauseJobLink(s) ==
  /\ "pause" \in AdminOps
  /\ Active(s)
  /\ sources' = [sources EXCEPT ![s].status = "DISABLED"]
  /\ UNCHANGED <<requests, runs, jobs, begun, asked, locals, cycles, faults>>

ResumeJobLink(s) ==
  /\ "resume" \in AdminOps
  /\ sources[s].status = "DISABLED"
  /\ UrlFree(s, sources[s].url)
  /\ sources' = [sources EXCEPT ![s].status = "ACTIVE"]
  /\ UNCHANGED <<requests, runs, jobs, begun, asked, locals, cycles, faults>>

\* The row goes with its jobs and runs; its requests go by ON DELETE CASCADE.
DeleteJobLink(s) ==
  /\ "delete" \in AdminOps
  /\ Exists(s)
  /\ sources' = [sources EXCEPT ![s].status = "DELETED"]
  /\ jobs' = [jobs EXCEPT ![s] = [k \in Keys |-> NoJob]]
  /\ runs' = [r \in RunIds |-> IF runs[r].source = s
                               THEN [runs[r] EXCEPT !.status = "DELETED"] ELSE runs[r]]
  /\ requests' = [q \in ReqIds |-> IF requests[q].source = s
                                   THEN [requests[q] EXCEPT !.status = "DELETED"]
                                   ELSE requests[q]]
  /\ UNCHANGED <<begun, asked, locals, cycles, faults>>

\* With a request outstanding the call returns that row and inserts nothing.
EnqueueCrawlRequest(s) ==
  /\ asked < MaxRequests
  /\ Active(s)
  /\ Outstanding(s) = {}
  /\ asked' = asked + 1
  /\ requests' = [requests EXCEPT ![asked + 1] =
                    [NoRequest EXCEPT !.status = "PENDING", !.source = s]]
  /\ UNCHANGED <<sources, runs, jobs, begun, locals, cycles, faults>>

-----------------------------------------------------------------------------
(* Crawler main loop: poll the queue, run a cycle when one is due, sleep *)

\* mark_inactive_crawl_requests is rejected by the CHECK: the poll returns Err.
PollBlocked(w) ==
  /\ pc[w] = "poll"
  /\ ~MarkSucceeds
  /\ pc' = [pc EXCEPT ![w] = "schedule"]
  /\ UNCHANGED <<tables, conn, todo, task, batch, cycles, faults>>

PollEmpty(w) ==
  /\ pc[w] = "poll"
  /\ MarkSucceeds
  /\ Claimable = {}
  /\ requests' = MarkedInactive
  /\ pc' = [pc EXCEPT ![w] = "schedule"]
  /\ UNCHANGED <<sources, runs, jobs, begun, asked, conn, todo, task, batch, cycles, faults>>

\* claim_next_crawl_request on a fresh connection: the oldest pending request
\* of an ACTIVE source, with the source snapshot the crawl will use.
ClaimRequest(w) ==
  /\ pc[w] = "poll"
  /\ MarkSucceeds
  /\ \E q \in Oldest(Claimable) :
       /\ requests' = [MarkedInactive EXCEPT ![q] = ClaimedRow(requests[q])]
       /\ task' = [task EXCEPT ![w] = [source |-> requests[q].source,
                                       url |-> sources[requests[q].source].url,
                                       req |-> q, run |-> None]]
  /\ conn' = [conn EXCEPT ![w] = TRUE]
  /\ pc' = [pc EXCEPT ![w] = "claimed"]
  /\ UNCHANGED <<sources, runs, jobs, begun, asked, todo, batch, cycles, faults>>

\* mark_runtime_cycle_started and mark_runtime_source: an error there returns
\* at once, with the request claimed and nobody working on it.
MarkRuntime(w) ==
  /\ pc[w] = "claimed"
  /\ IF conn[w]
     THEN pc' = [pc EXCEPT ![w] = "begin"] /\ UNCHANGED task
     ELSE pc' = [pc EXCEPT ![w] = "schedule"] /\ task' = [task EXCEPT ![w] = NoTask]
  /\ UNCHANGED <<tables, conn, todo, batch, cycles, faults>>

StartCycle(w) ==
  /\ pc[w] = "schedule"
  /\ cycles < MaxCycles
  /\ cycles' = cycles + 1
  /\ conn' = [conn EXCEPT ![w] = TRUE]
  /\ todo' = [todo EXCEPT ![w] = {[source |-> s, url |-> sources[s].url] :
                                   s \in {t \in Sources : Active(t)}}]
  /\ pc' = [pc EXCEPT ![w] = "cycle"]
  /\ UNCHANGED <<tables, task, batch, faults>>

CycleNotDue(w) ==
  /\ pc[w] = "schedule"
  /\ pc' = [pc EXCEPT ![w] = "poll"]
  /\ UNCHANGED <<tables, conn, todo, task, batch, cycles, faults>>

NextSource(w) ==
  /\ pc[w] = "cycle"
  /\ conn[w]
  /\ \E t \in todo[w] :
       /\ todo' = [todo EXCEPT ![w] = @ \ {t}]
       /\ task' = [task EXCEPT ![w] = [source |-> t.source, url |-> t.url,
                                       req |-> None, run |-> None]]
  /\ pc' = [pc EXCEPT ![w] = "begin"]
  /\ UNCHANGED <<tables, conn, batch, cycles, faults>>

\* All sources crawled, or marking the next one failed.
EndCycle(w) ==
  /\ pc[w] = "cycle"
  /\ todo[w] = {} \/ ~conn[w]
  /\ todo' = [todo EXCEPT ![w] = {}]
  /\ conn' = [conn EXCEPT ![w] = FALSE]
  /\ pc' = [pc EXCEPT ![w] = "poll"]
  /\ UNCHANGED <<tables, task, batch, cycles, faults>>

-----------------------------------------------------------------------------
(* run_source: one crawl of one source, step by step *)

\* Mutant: an unresolved outcome passes for a success.
AfterErrorIgnored(w) == "complete"

\* The way out of run_source with an error: a manual request is failed next, a
\* scheduled cycle is abandoned with the sources it still had.
AfterError(w) == IF task[w].req = None THEN "poll" ELSE "failing"

Return(w) ==
  /\ pc' = [pc EXCEPT ![w] = AfterError(w)]
  /\ todo' = [todo EXCEPT ![w] = {}]
  /\ task' = [task EXCEPT ![w] = IF @.req = None THEN NoTask ELSE @]
  /\ conn' = [conn EXCEPT ![w] = @ /\ task[w].req # None]
  /\ UNCHANGED <<tables, batch, cycles>>

Abort(w) == Return(w) /\ UNCHANGED faults

\* Mutant: the identity of the run before this one.
NewRunStale == begun

\* The row begin_crawl_run inserts: RETURNING id, started_at.
NewRun == begun + 1

BeginRun(w) ==
  /\ pc[w] = "begin"
  /\ conn[w]
  /\ Exists(task[w].source)
  /\ begun < MaxRuns
  /\ begun' = begun + 1
  /\ runs' = [runs EXCEPT ![begun + 1] = [status |-> "STARTED", source |-> task[w].source]]
  /\ task' = [task EXCEPT ![w].run = NewRun]
  /\ pc' = [pc EXCEPT ![w] = IF task[w].req = None THEN "crawl" ELSE "attach"]
  /\ UNCHANGED <<sources, requests, jobs, asked, conn, todo, batch, cycles, faults>>

\* The foreign key rejects a run of a deleted source, or the connection is gone.
BeginRunFails(w) ==
  /\ pc[w] = "begin"
  /\ ~conn[w] \/ ~Exists(task[w].source)
  /\ Abort(w)

AttachRequest(w) ==
  /\ pc[w] = "attach"
  /\ conn[w]
  /\ requests' = [requests EXCEPT ![task[w].req].run =
                    IF requests[task[w].req].status = "RUNNING" THEN task[w].run ELSE @]
  /\ pc' = [pc EXCEPT ![w] = "crawl"]
  /\ UNCHANGED <<sources, runs, jobs, begun, asked, conn, todo, task, batch, cycles, faults>>

AttachRequestFails(w) == pc[w] = "attach" /\ ~conn[w] /\ Abort(w)

\* A crawl that is HEALTHY and authoritative.  Every page the JSON-LD adapter
\* calls authoritative lists a posting, so at least one job was observed.
CrawlHealthy(w) ==
  /\ pc[w] = "crawl"
  /\ \E seen \in (SUBSET Keys) \ {{}} : \E closed \in SUBSET seen :
       batch' = [batch EXCEPT ![w] = [seen |-> seen, closed |-> closed, at |-> 0]]
  /\ pc' = [pc EXCEPT ![w] = "persist"]
  /\ UNCHANGED <<tables, conn, todo, task, cycles, faults>>

\* Any other outcome: robots, fetch, parser, scope or authority said no.
CrawlUnhealthy(w) ==
  /\ pc[w] = "crawl"
  /\ pc' = [pc EXCEPT ![w] = "finalize"]
  /\ UNCHANGED <<tables, conn, todo, task, batch, cycles, faults>>

\* finalize_run on the main connection.
FinalizeRun(w) ==
  /\ pc[w] = "finalize"
  /\ conn[w]
  /\ runs[task[w].run].status # "DELETED"
  /\ runs' = Finished(task[w].run, "UNHEALTHY")
  /\ pc' = [pc EXCEPT ![w] = "complete"]
  /\ UNCHANGED <<sources, requests, jobs, begun, asked, conn, todo, task, batch, cycles, faults>>

FinalizeRunMissing(w) ==
  /\ pc[w] = "finalize"
  /\ conn[w]
  /\ runs[task[w].run].status = "DELETED"
  /\ Abort(w)

\* The connection broke before the statement, or took its answer with it.
FinalizeRunAmbiguous(w) ==
  /\ pc[w] = "finalize"
  /\ \/ ~conn[w] /\ UNCHANGED <<runs, conn, faults>>
     \/ /\ conn[w] /\ faults < MaxFaults
        /\ runs' = Finished(task[w].run, "UNHEALTHY")
        /\ conn' = [conn EXCEPT ![w] = FALSE]
        /\ faults' = faults + 1
  /\ pc' = [pc EXCEPT ![w] = "recover"]
  /\ UNCHANGED <<sources, requests, jobs, begun, asked, todo, task, batch, cycles>>

\* BEGIN of the persisting transaction: now() is fixed here, the source row is
\* locked by its first statement and held to the commit.
BeginPersist(w) ==
  /\ pc[w] = "persist"
  /\ conn[w]
  /\ batch' = [batch EXCEPT ![w].at = begun]
  /\ pc' = [pc EXCEPT ![w] = "commit"]
  /\ UNCHANGED <<tables, conn, todo, task, cycles, faults>>

\* Mutant: only the approval status is rechecked.
SnapshotHoldsByStatus(w) == Active(task[w].source)

\* lock_active_source_snapshot
SnapshotHolds(w) ==
  /\ Active(task[w].source)
  /\ sources[task[w].source].url = task[w].url

PersistedJobs(w) ==
  Reconciled(Upserted(jobs[task[w].source], batch[w], task[w].url), task[w].run)

\* Job upserts, missing-job reconciliation and the run's outcome, together.
CommitPersist(w) ==
  /\ pc[w] = "commit"
  /\ conn[w]
  /\ SnapshotHolds(w)
  /\ CanFinish(task[w].run)
  /\ jobs' = [jobs EXCEPT ![task[w].source] = PersistedJobs(w)]
  /\ runs' = Finished(task[w].run, "HEALTHY")
  /\ batch' = [batch EXCEPT ![w] = NoBatch]
  /\ \/ pc' = [pc EXCEPT ![w] = "complete"] /\ UNCHANGED <<conn, faults>>
     \/ /\ faults < MaxFaults                  \* the commit's answer is lost
        /\ faults' = faults + 1
        /\ conn' = [conn EXCEPT ![w] = FALSE]
        /\ pc' = [pc EXCEPT ![w] = "recover"]
  /\ UNCHANGED <<sources, requests, begun, asked, todo, task, cycles>>

\* Mutant: the upserts were not part of the transaction.
RolledBackHalfway(w) ==
  IF Exists(task[w].source)
  THEN [jobs EXCEPT ![task[w].source] = Upserted(@, batch[w], task[w].url)] ELSE jobs

RolledBack(w) == jobs

\* Lost connection, changed snapshot, rejected observation or finished run:
\* the transaction is rolled back.
PersistFails(w) ==
  /\ pc[w] \in {"persist", "commit"}
  /\ jobs' = RolledBack(w)
  /\ batch' = [batch EXCEPT ![w] = NoBatch]
  /\ pc' = [pc EXCEPT ![w] = "recover"]
  /\ UNCHANGED <<sources, requests, runs, begun, asked, conn, todo, task, cycles, faults>>

\* recover_run_finalization, on a connection of its own.
RecoverRun(w) ==
  /\ pc[w] = "recover"
  /\ runs[task[w].run].status # "DELETED"
  /\ runs' = Finished(task[w].run, "UNHEALTHY")
  /\ pc' = [pc EXCEPT ![w] = "complete"]
  /\ UNCHANGED <<sources, requests, jobs, begun, asked, conn, todo, task, batch, cycles, faults>>

RecoverRunMissing(w) ==
  /\ pc[w] = "recover"
  /\ runs[task[w].run].status = "DELETED"
  /\ Abort(w)

\* No database to reconnect to: the outcome stays unresolved.
RecoverUnreachable(w) ==
  /\ pc[w] = "recover"
  /\ faults < MaxFaults
  /\ faults' = faults + 1
  /\ Return(w)

\* complete_request uses the main connection, alive or not.
CompleteRequest(w) ==
  /\ pc[w] = "complete"
  /\ task[w].req # None
  /\ conn[w]
  /\ requests' = [requests EXCEPT ![task[w].req] = CompletedRow(@, task[w].run)]
  /\ pc' = [pc EXCEPT ![w] = "schedule"]
  /\ conn' = [conn EXCEPT ![w] = FALSE]
  /\ task' = [task EXCEPT ![w] = NoTask]
  /\ UNCHANGED <<sources, runs, jobs, begun, asked, todo, batch, cycles, faults>>

CompleteRequestFails(w) ==
  /\ pc[w] = "complete"
  /\ task[w].req # None
  /\ ~conn[w]
  /\ Abort(w)

CompleteScheduled(w) ==
  /\ pc[w] = "complete"
  /\ task[w].req = None
  /\ pc' = [pc EXCEPT ![w] = "cycle"]
  /\ task' = [task EXCEPT ![w] = NoTask]
  /\ UNCHANGED <<tables, conn, todo, batch, cycles, faults>>

\* fail_crawl_request "worker_failed": nothing is written on a dead connection.
FailRequest(w) ==
  /\ pc[w] = "failing"
  /\ requests' = IF conn[w] THEN [requests EXCEPT ![task[w].req] = FailedRow(@)]
                 ELSE requests
  /\ pc' = [pc EXCEPT ![w] = "schedule"]
  /\ conn' = [conn EXCEPT ![w] = FALSE]
  /\ task' = [task EXCEPT ![w] = NoTask]
  /\ UNCHANGED <<sources, runs, jobs, begun, asked, todo, batch, cycles, faults>>

-----------------------------------------------------------------------------
(* Faults *)

LoseConnection(w) ==
  /\ pc[w] \notin {"poll", "schedule"}
  /\ conn[w]
  /\ faults < MaxFaults
  /\ faults' = faults + 1
  /\ conn' = [conn EXCEPT ![w] = FALSE]
  /\ UNCHANGED <<tables, pc, todo, task, batch, cycles>>

\* The process dies and its manager starts it again; an open transaction is
\* rolled back, no other row changes.
CrashRestart(w) ==
  /\ pc[w] \notin {"poll", "schedule"}
  /\ faults < MaxFaults
  /\ faults' = faults + 1
  /\ pc' = [pc EXCEPT ![w] = "poll"]
  /\ conn' = [conn EXCEPT ![w] = FALSE]
  /\ todo' = [todo EXCEPT ![w] = {}]
  /\ task' = [task EXCEPT ![w] = NoTask]
  /\ batch' = [batch EXCEPT ![w] = NoBatch]
  /\ UNCHANGED <<tables, cycles>>

-----------------------------------------------------------------------------
Init ==
  /\ sources = [s \in Sources |-> [status |-> "NEW", url |-> None]]
  /\ requests = [q \in ReqIds |-> NoRequest]
  /\ runs = [r \in RunIds |-> NoRun]
  /\ jobs = [s \in Sources |-> [k \in Keys |-> NoJob]]
  /\ begun = 0
  /\ asked = 0
  /\ pc = [w \in Workers |-> "poll"]
  /\ conn = [w \in Workers |-> FALSE]
  /\ todo = [w \in Workers |-> {}]
  /\ task = [w \in Workers |-> NoTask]
  /\ batch = [w \in Workers |-> NoBatch]
  /\ cycles = 0
  /\ faults = 0

Admin ==
  \E s \in Sources :
    \/ \E u \in Urls : CreateJobLink(s, u) \/ UpdateJobLink(s, u)
    \/ PauseJobLink(s) \/ ResumeJobLink(s) \/ DeleteJobLink(s)
    \/ EnqueueCrawlRequest(s)

Poll(w) == PollBlocked(w) \/ PollEmpty(w) \/ ClaimRequest(w) \/ MarkRuntime(w)

Cycle(w) == StartCycle(w) \/ CycleNotDue(w) \/ NextSource(w) \/ EndCycle(w)

Crawl(w) == BeginRun(w) \/ BeginRunFails(w) \/ AttachRequest(w)
            \/ AttachRequestFails(w) \/ CrawlHealthy(w) \/ CrawlUnhealthy(w)

Persist(w) == BeginPersist(w) \/ CommitPersist(w) \/ PersistFails(w)

Finish(w) == FinalizeRun(w) \/ FinalizeRunMissing(w) \/ FinalizeRunAmbiguous(w)
             \/ RecoverRun(w) \/ RecoverRunMissing(w) \/ RecoverUnreachable(w)
             \/ CompleteRequest(w) \/ CompleteRequestFails(w) \/ CompleteScheduled(w)
             \/ FailRequest(w)

WorkerStep(w) == Poll(w) \/ Cycle(w) \/ Crawl(w) \/ Persist(w) \/ Finish(w)

Fault(w) == LoseConnection(w) \/ CrashRestart(w)

Next == Admin \/ \E w \in Workers : WorkerStep(w) \/ Fault(w)

\* The crawler keeps running (its process manager restarts it), and each database
\* call answers or breaks.  Nothing obliges an administrator or a fault to
\* happen, nor a web site to answer: the page client has no timeout.
Fairness == \A w \in Workers : WF_vars(WorkerStep(w) /\ pc[w] # "crawl")

\* The assumption about the sites the code itself does not secure.
SitesAnswer == \A w \in Workers : WF_vars(CrawlHealthy(w) \/ CrawlUnhealthy(w))

Spec == Init /\ [][Next]_vars
FairSpec == Spec /\ Fairness
AnsweredSpec == FairSpec /\ SitesAnswer

-----------------------------------------------------------------------------
(* Properties *)

\* Every row and every local record has the shape its table or struct gives it.
TypeOK ==
  /\ sources \in [Sources -> SourceRow]
  /\ requests \in [ReqIds -> RequestRow]
  /\ runs \in [RunIds -> RunRow]
  /\ jobs \in [Sources -> [Keys -> JobRow]]
  /\ begun \in 0..MaxRuns
  /\ asked \in 0..MaxRequests
  /\ pc \in [Workers -> Pc]
  /\ conn \in [Workers -> BOOLEAN]
  /\ todo \in [Workers -> SUBSET Target]
  /\ task \in [Workers -> Task]
  /\ batch \in [Workers -> Batch]
  /\ cycles \in 0..MaxCycles
  /\ faults \in 0..MaxFaults

\* A job the product still offers (ACTIVE or VERIFYING) was last observed
\* inside the boundary its Job Link has now: a crawl that loaded the source
\* before an administrator moved it to another URL never leaves a live job of
\* the old one behind, whatever the crawl and the update interleave like
\* (lock_active_source_snapshot in the crawler, closeJobLinkJobs in the API).
LiveJobsInBoundary ==
  \A s \in Sources, k \in Keys : Live(jobs[s][k]) => jobs[s][k].url = sources[s].url

\* Healthy runs of s that began after time t and have committed.
HealthyAfter(s, t) ==
  {r \in RunIds : runs[r].status = "HEALTHY" /\ runs[r].source = s /\ r > t}

\* The missing counter of a live job never runs ahead of the evidence: each
\* unit is a healthy run of the job's source, begun after the job was last seen.
MissesHaveRuns ==
  \A s \in Sources, k \in Keys :
    Live(jobs[s][k]) => jobs[s][k].cycles <= Cardinality(HealthyAfter(s, jobs[s][k].lastSeen))

\* With one crawler process the counter also never falls behind: no healthy run
\* that missed a live job goes uncounted.
MissesAreExact ==
  \A s \in Sources, k \in Keys :
    Live(jobs[s][k]) => jobs[s][k].cycles = Cardinality(HealthyAfter(s, jobs[s][k].lastSeen))

\* A live job is closed only on evidence: its Job Link moved to another URL, or
\* a run that becomes healthy in this very step declared it closed or is at
\* least the second healthy run without it since it was last seen.
ClosedOnEvidence ==
  [][\A s \in Sources, k \in Keys :
       Live(jobs[s][k]) /\ jobs'[s][k].status = "CLOSED" =>
         \/ sources'[s].url # sources[s].url
         \/ /\ HealthyAfter(s, 0)' # HealthyAfter(s, 0)
            /\ \/ \E w \in Workers :
                    pc[w] = "commit" /\ task[w].source = s /\ k \in batch[w].closed
               \/ Cardinality(HealthyAfter(s, jobs[s][k].lastSeen)') >= 2]_vars

\* A crawl touches the job cache only in the step that makes its run HEALTHY: a
\* failed, rejected, interrupted or ambiguous crawl leaves every job as it was.
OnlyHealthyRunsTouchJobs ==
  [][\A s \in Sources :
       jobs'[s] # jobs[s] =>
         \/ HealthyAfter(s, 0)' # HealthyAfter(s, 0)
         \/ sources'[s] # sources[s]]_vars

\* A finished run keeps its outcome until its source is deleted: recovery after
\* a lost commit answer never turns HEALTHY into an anomaly or the reverse.
RunOutcomeIsFinal ==
  [][\A r \in RunIds :
       runs[r].status \in {"HEALTHY", "UNHEALTHY"} =>
         runs'[r].status \in {runs[r].status, "DELETED"}]_vars

\* A request reads COMPLETED only with a finished run of its own source behind
\* it (as long as the source exists), also after lost answers and recoveries.
CompletedHasOutcome ==
  \A q \in ReqIds : requests[q].status = "COMPLETED" =>
    /\ requests[q].run # None
    /\ runs[requests[q].run].status \in {"HEALTHY", "UNHEALTHY"}
    /\ runs[requests[q].run].source = requests[q].source

\* A request a process works on is RUNNING (or went with its source), and no two
\* processes work on the same one.
ClaimsAreExclusive ==
  \A w \in Workers : task[w].req # None =>
    /\ requests[task[w].req].status \in {"RUNNING", "DELETED"}
    /\ \A v \in Workers \ {w} : task[v].req # task[w].req

-----------------------------------------------------------------------------
(* The inductive strengthening behind the theorems of CrawlPipelineProofs *)

\* Identities are handed out in order, once; an identity not handed out yet is
\* nobody's.
FreshIdentities ==
  /\ \A r \in RunIds : /\ runs[r].status = "NONE" <=> r > begun
                       /\ runs[r].status = "NONE" => runs[r].source = None
  /\ \A q \in ReqIds : /\ requests[q].status = "NONE" <=> q > asked
                       /\ requests[q].status = "NONE" => requests[q].source = None

\* Columns NOT NULL and foreign keys: a Job Link has a URL, and a row has a
\* source and is deleted exactly with it.
RowsFollowSources ==
  /\ \A s \in Sources : Exists(s) => sources[s].url \in Urls
  /\ \A r \in RunIds : runs[r].status # "NONE" =>
       /\ runs[r].source \in Sources
       /\ sources[runs[r].source].status = "DELETED" <=> runs[r].status = "DELETED"
  /\ \A q \in ReqIds : requests[q].status # "NONE" =>
       /\ requests[q].source \in Sources
       /\ sources[requests[q].source].status = "DELETED" <=> requests[q].status = "DELETED"

\* What run_source knows at each of its steps.
KnowsItsRows(w) ==
  /\ pc[w] \in {"poll", "schedule", "cycle"} => task[w].req = None
  /\ pc[w] \notin {"poll", "schedule", "cycle"} => task[w].source \in Sources
  /\ pc[w] \in {"claimed", "attach", "failing"} => task[w].req # None
  /\ pc[w] \in {"attach", "crawl", "finalize", "persist", "commit", "recover", "complete"}
       => task[w].run # None
  /\ pc[w] = "complete" => runs[task[w].run].status \in {"HEALTHY", "UNHEALTHY", "DELETED"}
  /\ task[w].run # None =>
       /\ runs[task[w].run].status # "NONE"
       /\ runs[task[w].run].source = task[w].source
  /\ task[w].req # None => requests[task[w].req].source = task[w].source

TaskOwnsRows == \A w \in Workers : KnowsItsRows(w)

\* A Job Link starts with no job, so the URL it is created with fits them all.
NewLinksHaveNoJobs ==
  \A s \in Sources, k \in Keys : sources[s].status = "NEW" => ~Live(jobs[s][k])

\* Each part of the invariant the proofs carry from step to step.
PipelineInv ==
  /\ TypeOK
  /\ NewLinksHaveNoJobs
  /\ LiveJobsInBoundary
  /\ FreshIdentities
  /\ RowsFollowSources
  /\ TaskOwnsRows
  /\ ClaimsAreExclusive
  /\ CompletedHasOutcome

\* What a request carries while it waits and while a process works on it.
RequestsFollowTheirRuns ==
  /\ \A q \in ReqIds : requests[q].status = "PENDING" =>
       ~requests[q].started /\ ~requests[q].finished /\ requests[q].run = None
  /\ \A w \in Workers : task[w].req # None /\ requests[task[w].req].status = "RUNNING" =>
       /\ pc[w] \in {"claimed", "begin", "attach"} => requests[task[w].req].run = None
       /\ pc[w] \notin {"claimed", "begin", "attach", "failing"} =>
            requests[task[w].req].run = task[w].run

\* A run belongs to the one process that began it and to no other request, and it
\* is undecided as long as that process only crawls.
RunsHaveOneOwner ==
  \A w \in Workers : task[w].run # None =>
    /\ \A v \in Workers \ {w} : task[v].run # task[w].run
    /\ \A q \in ReqIds : requests[q].run = task[w].run => task[w].req = q
    /\ pc[w] \in {"attach", "crawl"} => runs[task[w].run].status \in {"STARTED", "DELETED"}

\* Identities of runs are taken from those begun.
NamedRunsAreBegun ==
  /\ \A q \in ReqIds : requests[q].run # None => requests[q].run <= begun
  /\ \A w \in Workers : task[w].run # None => task[w].run <= begun

\* At most one crawl of a Job Link is asked for at a time.
OneOutstanding ==
  \A p, q \in ReqIds :
    /\ requests[p].status \in {"PENDING", "RUNNING"}
    /\ requests[q].status \in {"PENDING", "RUNNING"}
    /\ requests[p].source = requests[q].source
    => p = q

\* What the rows of the queue add to the invariant.
QueueInv ==
  /\ PipelineInv
  /\ RequestsFollowTheirRuns
  /\ NamedRunsAreBegun
  /\ RunsHaveOneOwner
  /\ OneOutstanding

\* Requests left RUNNING with nobody to finish them, and processes that are about
\* to leave theirs: a dead connection writes neither COMPLETED nor FAILED.
Abandoned ==
  {q \in ReqIds : requests[q].status = "RUNNING" /\ \A w \in Workers : task[w].req # q}
Doomed == {w \in Workers : task[w].req # None /\ ~conn[w]}

\* Each request left RUNNING for ever has a crash, a broken connection or an
\* unreachable recovery of its own behind it: no refusal by the database, no
\* deletion or pause in mid-crawl and no other process strands a request.
AbandonmentsCostFaults == Cardinality(Abandoned) <= faults

\* What the proof of it carries from step to step.
AbandonInv ==
  /\ IsFiniteSet(Doomed)
  /\ Cardinality(Abandoned) + Cardinality(Doomed) <= faults

\* The daemon alone: no second process (a --once run) beside it.
OneProcess == \E w \in Workers : Workers = {w}

\* No observation comes from the future.
ObservationsArePast == \A s \in Sources, k \in Keys : jobs[s][k].lastSeen <= begun

\* Until it resolves, the only process's run is the last one begun, every live
\* job was last seen before it, and its transaction observes at that time.
CrawlIsTheLast(w) ==
  /\ pc[w] \in {"attach", "crawl", "persist", "commit"} =>
       /\ task[w].run = begun
       /\ \A s \in Sources, k \in Keys : Live(jobs[s][k]) => jobs[s][k].lastSeen < begun
  /\ pc[w] = "commit" => batch[w].at = begun

\* What one process alone adds to the invariant.
SoloInv ==
  /\ OneProcess
  /\ PipelineInv
  /\ ObservationsArePast
  /\ \A w \in Workers : CrawlIsTheLast(w)
  /\ MissesAreExact

-----------------------------------------------------------------------------
(* Liveness, under AnsweredSpec *)

\* A manual request of a source that stays ACTIVE does not wait for ever.
ActiveRequestsAreServed ==
  \A q \in ReqIds :
    []((requests[q].status = "PENDING" /\ Active(requests[q].source))
        => <>(requests[q].status # "PENDING" \/ ~Active(requests[q].source)))

\* A claimed request resolves: a running crawl ends in COMPLETED or FAILED, or
\* goes with its source.
RunningRequestsResolve ==
  \A q \in ReqIds : requests[q].status = "RUNNING" ~> requests[q].status # "RUNNING"

\* The database statements amount to the pure rule: with one crawler process,
\* every step of the pipeline is, on job statuses and counters, one healthy
\* reconcile_job over all jobs of one source, an administrator's operation on
\* them, or no change at all.
Lifecycle ==
  INSTANCE JobLifecycle WITH
    state <- [s \in Sources |-> [k \in Keys |->
                [status |-> jobs[s][k].status, cycles |-> jobs[s][k].cycles]]]

RefinesLifecycle == Lifecycle!Spec

\* The queue and the run list as their readers see them: whatever the processes,
\* administrators and faults do, every step is a step of CrawlRecords.
Records ==
  INSTANCE CrawlRecords WITH
    Requests <- ReqIds, Runs <- RunIds, run <- runs,
    request <- [q \in ReqIds |-> [status |-> requests[q].status,
                                   source |-> requests[q].source, run |-> requests[q].run]]

RefinesRecords == Records!Spec
=============================================================================
