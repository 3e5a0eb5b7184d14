------------------------- MODULE CrawlPipelineProofs -------------------------
(***************************************************************************)
(* Theorems about CrawlPipeline, for every value of its constants: any     *)
(* number of sources, crawler processes, requests, runs and faults.        *)
(***************************************************************************)
EXTENDS CrawlPipeline, FiniteSetTheorems, TLAPS

-----------------------------------------------------------------------------
(* What the row operators return *)

\* Marking requests inactive writes well-formed rows.
LEMMA MarkedInactiveType ==
  ASSUME TypeOK PROVE MarkedInactive \in [ReqIds -> RequestRow]
BY DEF MarkedInactive, TypeOK, RequestRow

\* A claim writes a well-formed row.
LEMMA ClaimedRowType ==
  ASSUME NEW row \in RequestRow PROVE ClaimedRow(row) \in RequestRow
BY DEF ClaimedRow, RequestRow

\* So does a completion with its run.
LEMMA CompletedRowType ==
  ASSUME NEW row \in RequestRow, NEW r \in RunIds PROVE CompletedRow(row, r) \in RequestRow
BY DEF CompletedRow, RequestRow

\* And a failure.
LEMMA FailedRowType ==
  ASSUME NEW row \in RequestRow PROVE FailedRow(row) \in RequestRow
BY DEF FailedRow, RequestRow

\* The outcome of a run leaves run rows well-formed.
LEMMA FinishedType ==
  ASSUME TypeOK, NEW r \in RunIds, NEW o \in {"HEALTHY", "UNHEALTHY"}
  PROVE  Finished(r, o) \in [RunIds -> RunRow]
BY DEF Finished, CanFinish, TypeOK, RunRow

\* A job written off by the administrator is a well-formed row.
LEMMA ClosedByAdminType ==
  ASSUME NEW job \in JobRow PROVE ClosedByAdmin(job) \in JobRow
<1>1. \A c \in 0..2, st \in {"CLOSED"} : [job EXCEPT !.status = st, !.cycles = c] \in JobRow
  BY DEF JobRow
<1>2. 2 \in 0..2
  OBVIOUS
<1> QED
  BY <1>1, <1>2 DEF ClosedByAdmin

\* A missed job is a well-formed row: the counter stops at two.
LEMMA MissedJobType ==
  ASSUME NEW job \in JobRow PROVE MissedJob(job) \in JobRow
<1>1. (IF job.cycles + 1 >= 2 THEN 2 ELSE job.cycles + 1) \in 0..2
  BY DEF JobRow
<1>2. \A c \in 0..2, st \in {"CLOSED", "VERIFYING"} :
       [job EXCEPT !.cycles = c, !.status = st] \in JobRow
  BY DEF JobRow
<1> QED
  BY <1>1, <1>2 DEF MissedJob

\* What a miss writes, column by column.
LEMMA MissedJobFields ==
  ASSUME NEW job \in JobRow
  PROVE  /\ MissedJob(job).cycles = (IF job.cycles + 1 >= 2 THEN 2 ELSE job.cycles + 1)
         /\ MissedJob(job).status = (IF job.cycles + 1 >= 2 THEN "CLOSED" ELSE "VERIFYING")
         /\ MissedJob(job).lastSeen = job.lastSeen
         /\ MissedJob(job).url = job.url
BY DEF MissedJob, JobRow

\* What an observation writes, column by column.
LEMMA UpsertJobFields ==
  ASSUME NEW at \in Nat, NEW url \in Urls \union {None}
  PROVE  /\ UpsertJob(FALSE, url, at) \in JobRow
         /\ UpsertJob(FALSE, url, at).status = "ACTIVE"
         /\ UpsertJob(FALSE, url, at).cycles = 0
         /\ UpsertJob(FALSE, url, at).lastSeen = at
BY DEF UpsertJob, JobRow

\* The observations of a crawl leave job rows well-formed.
LEMMA UpsertedType ==
  ASSUME NEW rows \in [Keys -> JobRow], NEW b \in Batch, NEW u \in Urls \union {None}
  PROVE  Upserted(rows, b, u) \in [Keys -> JobRow]
<1>1. \A c \in BOOLEAN : UpsertJob(c, u, b.at) \in JobRow
  BY DEF UpsertJob, JobRow, Batch
<1>2. \A k \in Keys : (k \in b.closed) \in BOOLEAN
  OBVIOUS
<1> QED
  BY <1>1, <1>2 DEF Upserted

\* And so does the reconciliation that follows them.
LEMMA ReconciledType ==
  ASSUME NEW rows \in [Keys -> JobRow], NEW t PROVE Reconciled(rows, t) \in [Keys -> JobRow]
BY MissedJobType DEF Reconciled

-----------------------------------------------------------------------------
(* Type correctness *)

\* The empty database and idle processes have the types.
LEMMA InitType == Init => TypeOK
BY BoundsAssumption
   DEF Init, TypeOK, SourceRow, RequestRow, RunRow, JobRow, Target, Task, Batch, Pc,
       NoRequest, NoRun, NoJob, NoTask, NoBatch

\* Job Link operations and clicks keep the types.
LEMMA AdminType == ASSUME PipelineInv, Admin PROVE TypeOK'
<1> USE DEF PipelineInv
<1> PICK s \in Sources :
      \/ \E u \in Urls : CreateJobLink(s, u) \/ UpdateJobLink(s, u)
      \/ PauseJobLink(s) \/ ResumeJobLink(s) \/ DeleteJobLink(s)
      \/ EnqueueCrawlRequest(s)
  BY DEF Admin
<1>1. ASSUME NEW u \in Urls, CreateJobLink(s, u) PROVE TypeOK'
  BY <1>1 DEF CreateJobLink, TypeOK, SourceRow, locals
<1>2. ASSUME NEW u \in Urls, UpdateJobLink(s, u) PROVE TypeOK'
  <2>1. sources' \in [Sources -> SourceRow]
    BY <1>2 DEF UpdateJobLink, TypeOK, SourceRow
  <2>2. [k \in Keys |-> ClosedByAdmin(jobs[s][k])] \in [Keys -> JobRow]
    BY ClosedByAdminType DEF TypeOK
  <2>3. jobs' \in [Sources -> [Keys -> JobRow]]
    BY <1>2, <2>2 DEF UpdateJobLink, TypeOK
  <2> QED
    BY <1>2, <2>1, <2>3 DEF UpdateJobLink, TypeOK, locals
<1>3. CASE PauseJobLink(s)
  BY <1>3 DEF PauseJobLink, TypeOK, SourceRow, locals
<1>4. CASE ResumeJobLink(s)
  BY <1>4 DEF ResumeJobLink, TypeOK, SourceRow, locals
<1>5. CASE DeleteJobLink(s)
  <2>1. sources' \in [Sources -> SourceRow]
    BY <1>5 DEF DeleteJobLink, TypeOK, SourceRow
  <2>2. [k \in Keys |-> NoJob] \in [Keys -> JobRow]
    BY DEF NoJob, JobRow
  <2>3. jobs' \in [Sources -> [Keys -> JobRow]]
    BY <1>5, <2>2 DEF DeleteJobLink, TypeOK
  <2>4. runs' \in [RunIds -> RunRow]
    BY <1>5 DEF DeleteJobLink, TypeOK, RunRow
  <2>5. requests' \in [ReqIds -> RequestRow]
    BY <1>5 DEF DeleteJobLink, TypeOK, RequestRow
  <2> QED
    BY <1>5, <2>1, <2>3, <2>4, <2>5 DEF DeleteJobLink, TypeOK, locals
<1>6. CASE EnqueueCrawlRequest(s)
  <2>1. asked' \in 0..MaxRequests
    BY <1>6, BoundsAssumption DEF EnqueueCrawlRequest, TypeOK
  <2>2. requests' \in [ReqIds -> RequestRow]
    BY <1>6 DEF EnqueueCrawlRequest, TypeOK, RequestRow, NoRequest
  <2> QED
    BY <1>6, <2>1, <2>2 DEF EnqueueCrawlRequest, TypeOK, locals
<1> QED
  BY <1>1, <1>2, <1>3, <1>4, <1>5, <1>6

\* Polling and claiming keep the types.
LEMMA PollType == ASSUME PipelineInv, NEW w \in Workers, Poll(w) PROVE TypeOK'
<1> USE DEF PipelineInv
<1>1. CASE PollBlocked(w)
  BY <1>1 DEF PollBlocked, TypeOK, Pc, tables
<1>2. CASE PollEmpty(w)
  BY <1>2, MarkedInactiveType DEF PollEmpty, TypeOK, Pc
<1>3. CASE ClaimRequest(w)
  <2>1. PICK q \in Oldest(Claimable) :
         /\ requests' = [MarkedInactive EXCEPT ![q] = ClaimedRow(requests[q])]
         /\ task' = [task EXCEPT ![w] = [source |-> requests[q].source,
                                         url |-> sources[requests[q].source].url,
                                         req |-> q, run |-> None]]
    BY <1>3 DEF ClaimRequest
  <2>2. q \in ReqIds /\ requests[q].source \in Sources
    BY DEF Oldest, Claimable, RowsFollowSources
  <2>3. ClaimedRow(requests[q]) \in RequestRow
    BY <2>2, ClaimedRowType DEF TypeOK
  <2>4. requests' \in [ReqIds -> RequestRow]
    BY <2>1, <2>2, <2>3, MarkedInactiveType
  <2>5. task' \in [Workers -> Task]
    BY <2>1, <2>2 DEF TypeOK, Task, SourceRow
  <2> QED
    BY <1>3, <2>4, <2>5 DEF TypeOK, ClaimRequest, Pc
<1>4. CASE MarkRuntime(w)
  <2>1. NoTask \in Task
    BY DEF NoTask, Task
  <2>2. pc' \in [Workers -> Pc] /\ task' \in [Workers -> Task]
    BY <1>4, <2>1 DEF MarkRuntime, TypeOK, Pc
  <2> QED
    BY <1>4, <2>2 DEF MarkRuntime, TypeOK, tables
<1> QED
  BY <1>1, <1>2, <1>3, <1>4 DEF Poll

\* The scheduled cycle keeps the types.
LEMMA CycleType == ASSUME PipelineInv, NEW w \in Workers, Cycle(w) PROVE TypeOK'
<1> USE DEF PipelineInv
<1>1. CASE StartCycle(w)
  <2>1. cycles' \in 0..MaxCycles
    BY <1>1, BoundsAssumption DEF StartCycle, TypeOK
  <2>2. \A s \in Sources : Active(s) => sources[s].url \in Urls
    BY DEF RowsFollowSources, Exists, Active
  <2> QED
    BY <1>1, <2>1, <2>2 DEF StartCycle, TypeOK, Target, Pc, tables
<1>2. CASE CycleNotDue(w)
  BY <1>2 DEF CycleNotDue, TypeOK, Pc, tables
<1>3. CASE NextSource(w)
  BY <1>3 DEF NextSource, TypeOK, Pc, tables, Task, Target
<1>4. CASE EndCycle(w)
  BY <1>4 DEF EndCycle, TypeOK, Pc, tables
<1> QED
  BY <1>1, <1>2, <1>3, <1>4 DEF Cycle

\* The way out of run_source with an error keeps the types.
LEMMA ReturnType ==
  ASSUME PipelineInv, NEW w \in Workers, Return(w), faults' \in 0..MaxFaults
  PROVE  TypeOK'
<1> USE DEF PipelineInv
<1>1. NoTask \in Task
  BY DEF NoTask, Task
<1>2. pc' \in [Workers -> Pc]
  BY DEF Return, AfterError, TypeOK, Pc
<1>3. todo' \in [Workers -> SUBSET Target]
  BY DEF Return, TypeOK
<1>4. task' \in [Workers -> Task]
  BY <1>1 DEF Return, TypeOK
<1>5. conn' \in [Workers -> BOOLEAN]
  BY DEF Return, TypeOK
<1> QED
  BY <1>2, <1>3, <1>4, <1>5 DEF Return, TypeOK, tables

\* With a fault or without.
LEMMA AbortType == ASSUME PipelineInv, NEW w \in Workers, Abort(w) PROVE TypeOK'
BY ReturnType DEF Abort, PipelineInv, TypeOK

\* A crawl, from its run row to its report, keeps the types.
LEMMA CrawlType == ASSUME PipelineInv, NEW w \in Workers, Crawl(w) PROVE TypeOK'
<1> USE DEF PipelineInv
<1>1. CASE BeginRun(w)
  <2>1. begun + 1 \in RunIds
    BY <1>1, BoundsAssumption DEF BeginRun, TypeOK, RunIds
  <2>2. runs' \in [RunIds -> RunRow]
    BY <1>1, <2>1 DEF BeginRun, TypeOK, RunRow, Task
  <2>3. task' \in [Workers -> Task]
    BY <1>1, <2>1 DEF BeginRun, TypeOK, NewRun, Task
  <2>4. pc' \in [Workers -> Pc]
    BY <1>1 DEF BeginRun, TypeOK, Pc
  <2> QED
    BY <1>1, <2>1, <2>2, <2>3, <2>4 DEF BeginRun, TypeOK, RunIds
<1>2. CASE BeginRunFails(w)
  BY <1>2, AbortType DEF BeginRunFails
<1>3. CASE AttachRequest(w)
  <2>1. task[w].run \in RunIds /\ task[w].req \in ReqIds
    BY <1>3, NoneAssumption DEF AttachRequest, TaskOwnsRows, KnowsItsRows, TypeOK, Task
  <2>2. \A row \in RequestRow, r \in RunIds \union {None} : [row EXCEPT !.run = r] \in RequestRow
    BY DEF RequestRow
  <2>3. requests[task[w].req] \in RequestRow /\ requests[task[w].req].run \in RunIds \union {None}
    BY <2>1 DEF TypeOK, RequestRow
  <2>4. requests' \in [ReqIds -> RequestRow]
    BY <1>3, <2>1, <2>2, <2>3 DEF AttachRequest, TypeOK
  <2> QED
    BY <1>3, <2>4 DEF AttachRequest, TypeOK, Pc
<1>4. CASE AttachRequestFails(w)
  BY <1>4, AbortType DEF AttachRequestFails
<1>5. CASE CrawlHealthy(w)
  BY <1>5 DEF CrawlHealthy, TypeOK, Pc, tables, Batch
<1>6. CASE CrawlUnhealthy(w)
  BY <1>6 DEF CrawlUnhealthy, TypeOK, Pc, tables
<1> QED
  BY <1>1, <1>2, <1>3, <1>4, <1>5, <1>6 DEF Crawl

\* The persisting transaction keeps the types.
LEMMA PersistType == ASSUME PipelineInv, NEW w \in Workers, Persist(w) PROVE TypeOK'
<1> USE DEF PipelineInv
<1>1. NoBatch \in Batch
  BY DEF NoBatch, Batch
<1>2. CASE BeginPersist(w)
  <2>1. \A b \in Batch, t \in 0..MaxRuns : [b EXCEPT !.at = t] \in Batch
    BY DEF Batch
  <2>2. batch' \in [Workers -> Batch] /\ pc' \in [Workers -> Pc]
    BY <1>2, <2>1 DEF BeginPersist, TypeOK, Pc
  <2> QED
    BY <1>2, <2>2 DEF BeginPersist, TypeOK, tables
<1>3. CASE CommitPersist(w)
  <2>1. /\ task[w].source \in Sources /\ task[w].run \in RunIds
        /\ task[w].url \in Urls \union {None}
    BY <1>3, NoneAssumption DEF CommitPersist, TaskOwnsRows, KnowsItsRows, TypeOK, Task
  <2>2. jobs[task[w].source] \in [Keys -> JobRow] /\ batch[w] \in Batch
    BY <2>1 DEF TypeOK
  <2>3. PersistedJobs(w) \in [Keys -> JobRow]
    BY <2>1, <2>2, UpsertedType, ReconciledType DEF PersistedJobs
  <2>4. jobs' \in [Sources -> [Keys -> JobRow]]
    BY <1>3, <2>1, <2>3 DEF CommitPersist, TypeOK
  <2>5. runs' \in [RunIds -> RunRow]
    BY <1>3, <2>1, FinishedType DEF CommitPersist
  <2>6. faults' \in 0..MaxFaults
    BY <1>3, BoundsAssumption DEF CommitPersist, TypeOK
  <2>7. pc' \in [Workers -> Pc] /\ conn' \in [Workers -> BOOLEAN]
    BY <1>3 DEF CommitPersist, TypeOK, Pc
  <2>8. batch' \in [Workers -> Batch]
    BY <1>1, <1>3 DEF CommitPersist, TypeOK
  <2> QED
    BY <1>3, <2>4, <2>5, <2>6, <2>7, <2>8 DEF CommitPersist, TypeOK
<1>4. CASE PersistFails(w)
  BY <1>1, <1>4 DEF PersistFails, RolledBack, TypeOK, Pc
<1> QED
  BY <1>2, <1>3, <1>4 DEF Persist

\* Outcomes and the completion of requests keep the types.
LEMMA FinishType == ASSUME PipelineInv, NEW w \in Workers, Finish(w) PROVE TypeOK'
<1> USE DEF PipelineInv
<1> DEFINE r == task[w].run
<1>1. pc[w] \in {"finalize", "recover", "complete"} => r \in RunIds
  BY NoneAssumption DEF TaskOwnsRows, KnowsItsRows, TypeOK, Task
<1>2. NoTask \in Task
  BY DEF NoTask, Task
<1>3. CASE FinalizeRun(w)
  BY <1>1, <1>3, FinishedType DEF FinalizeRun, TypeOK, Pc
<1>4. CASE FinalizeRunMissing(w)
  BY <1>4, AbortType DEF FinalizeRunMissing
<1>5. CASE FinalizeRunAmbiguous(w)
  <2>1. runs' \in [RunIds -> RunRow]
    BY <1>1, <1>5, FinishedType DEF FinalizeRunAmbiguous, TypeOK
  <2>2. faults' \in 0..MaxFaults
    BY <1>5, BoundsAssumption DEF FinalizeRunAmbiguous, TypeOK
  <2>3. pc' \in [Workers -> Pc] /\ conn' \in [Workers -> BOOLEAN]
    BY <1>5 DEF FinalizeRunAmbiguous, TypeOK, Pc
  <2> QED
    BY <1>5, <2>1, <2>2, <2>3 DEF FinalizeRunAmbiguous, TypeOK
<1>6. CASE RecoverRun(w)
  BY <1>1, <1>6, FinishedType DEF RecoverRun, TypeOK, Pc
<1>7. CASE RecoverRunMissing(w)
  BY <1>7, AbortType DEF RecoverRunMissing
<1>8. CASE RecoverUnreachable(w)
  <2>1. faults' \in 0..MaxFaults
    BY <1>8, BoundsAssumption DEF RecoverUnreachable, TypeOK
  <2> QED
    BY <1>8, <2>1, ReturnType DEF RecoverUnreachable
<1>9. CASE CompleteRequest(w)
  <2>1. r \in RunIds /\ task[w].req \in ReqIds
    BY <1>1, <1>9 DEF CompleteRequest, TypeOK, Task
  <2>2. CompletedRow(requests[task[w].req], r) \in RequestRow
    BY <2>1, CompletedRowType DEF TypeOK
  <2>3. requests' \in [ReqIds -> RequestRow]
    BY <1>9, <2>1, <2>2 DEF CompleteRequest, TypeOK
  <2> QED
    BY <1>2, <1>9, <2>3 DEF CompleteRequest, TypeOK, Pc
<1>10. CASE CompleteRequestFails(w)
  BY <1>10, AbortType DEF CompleteRequestFails
<1>11. CASE CompleteScheduled(w)
  BY <1>2, <1>11 DEF CompleteScheduled, TypeOK, Pc, tables
<1>12. CASE FailRequest(w)
  <2>1. task[w].req \in ReqIds
    BY <1>12 DEF FailRequest, TaskOwnsRows, KnowsItsRows, TypeOK, Task
  <2>2. FailedRow(requests[task[w].req]) \in RequestRow
    BY <2>1, FailedRowType DEF TypeOK
  <2>3. requests' \in [ReqIds -> RequestRow]
    BY <1>12, <2>1, <2>2 DEF FailRequest, TypeOK
  <2> QED
    BY <1>2, <1>12, <2>3 DEF FailRequest, TypeOK, Pc
<1> QED
  BY <1>3, <1>4, <1>5, <1>6, <1>7, <1>8, <1>9, <1>10, <1>11, <1>12 DEF Finish

\* Lost connections and crashes keep the types.
LEMMA FaultType == ASSUME PipelineInv, NEW w \in Workers, Fault(w) PROVE TypeOK'
<1> USE DEF PipelineInv
<1>1. CASE LoseConnection(w)
  BY <1>1, BoundsAssumption DEF LoseConnection, TypeOK, tables
<1>2. CASE CrashRestart(w)
  <2>1. NoTask \in Task /\ NoBatch \in Batch
    BY DEF NoTask, Task, NoBatch, Batch
  <2>2. faults' \in 0..MaxFaults /\ pc' \in [Workers -> Pc]
    BY <1>2, BoundsAssumption DEF CrashRestart, TypeOK, Pc
  <2> QED
    BY <1>2, <2>1, <2>2 DEF CrashRestart, TypeOK, tables
<1> QED
  BY <1>1, <1>2 DEF Fault

\* Type correctness, whatever the step.
LEMMA StepType == ASSUME PipelineInv, [Next]_vars PROVE TypeOK'
<1>1. CASE Admin
  BY <1>1, AdminType
<1>2. ASSUME NEW w \in Workers, WorkerStep(w) PROVE TypeOK'
  BY <1>2, PollType, CycleType, CrawlType, PersistType, FinishType DEF WorkerStep
<1>3. ASSUME NEW w \in Workers, Fault(w) PROVE TypeOK'
  BY <1>3, FaultType
<1>4. CASE UNCHANGED vars
  BY <1>4 DEF vars, tables, locals, PipelineInv, TypeOK
<1> QED
  BY <1>1, <1>2, <1>3, <1>4 DEF Next

-----------------------------------------------------------------------------
(* What no step does to a row *)

\* Rows keep their source, are never un-inserted and never come back.
RunsKept ==
  \A r \in RunIds : runs[r].status # "NONE" =>
    /\ runs'[r].source = runs[r].source
    /\ runs'[r].status # "NONE"
    /\ runs'[r].status = "DELETED" <=> runs[r].status = "DELETED"
    /\ runs[r].status \in {"HEALTHY", "UNHEALTHY"} => runs'[r].status = runs[r].status

NoneBegun ==
  \A r \in RunIds :
    /\ runs'[r].status = "NONE" <=> runs[r].status = "NONE"
    /\ runs'[r].source = runs[r].source

RequestsKept ==
  \A q \in ReqIds :
    /\ requests'[q].source = requests[q].source
    /\ requests'[q].status = "NONE" <=> requests[q].status = "NONE"
    /\ requests'[q].status = "DELETED" <=> requests[q].status = "DELETED"

\* The request another process works on stays claimed.
ClaimsKept(w) ==
  \A q \in ReqIds : q # task[w].req /\ requests[q].status \in {"RUNNING", "DELETED"}
                     => requests'[q].status = requests[q].status

OthersKept(w) ==
  \A v \in Workers \ {w} : pc'[v] = pc[v] /\ task'[v] = task[v]

\* Marking requests inactive touches the PENDING ones alone.
LEMMA MarkedInactiveKeeps ==
  ASSUME TypeOK, NEW q \in ReqIds
  PROVE  /\ MarkedInactive[q].source = requests[q].source
         /\ MarkedInactive[q].run = requests[q].run
         /\ requests[q].status # "PENDING" => MarkedInactive[q] = requests[q]
         /\ requests[q].status = "PENDING" => MarkedInactive[q].status \in {"PENDING", "FAILED"}
BY DEF MarkedInactive, InactivePending, TypeOK, RequestRow

\* Writing an outcome keeps every run's identity and decides one run.
LEMMA FinishedKeeps ==
  ASSUME TypeOK, NEW r \in RunIds, NEW o \in {"HEALTHY", "UNHEALTHY"},
         runs' = Finished(r, o)
  PROVE  /\ RunsKept
         /\ NoneBegun
         /\ runs[r].status \notin {"NONE", "DELETED"}
              => runs'[r].status \in {"HEALTHY", "UNHEALTHY"}
BY DEF Finished, CanFinish, RunsKept, NoneBegun, TypeOK, RunRow

\* A crawler process begins runs and decides them, and changes nothing else of them.
LEMMA WorkerKeepsRuns ==
  ASSUME PipelineInv, NEW w \in Workers, WorkerStep(w) \/ Fault(w)
  PROVE  /\ RunsKept
         /\ ~BeginRun(w) => begun' = begun /\ NoneBegun
<1> USE DEF PipelineInv
<1> DEFINE Goal ==
      /\ RunsKept
      /\ ~BeginRun(w) => begun' = begun /\ NoneBegun
<1>1. CASE UNCHANGED <<runs, begun>>
  BY <1>1 DEF RunsKept, NoneBegun
<1>2. CASE BeginRun(w)
  <2>1. begun + 1 \in RunIds /\ runs[begun + 1].status = "NONE"
    BY <1>2, BoundsAssumption DEF BeginRun, TypeOK, RunIds, FreshIdentities
  <2> QED
    BY <1>2, <2>1 DEF BeginRun, RunsKept, TypeOK, RunRow
<1>3. pc[w] \in {"finalize", "commit", "recover"} => task[w].run \in RunIds
  BY NoneAssumption DEF TaskOwnsRows, KnowsItsRows, TypeOK, Task
<1>4. CASE FinalizeRun(w) \/ FinalizeRunAmbiguous(w) \/ RecoverRun(w)
  <2>1. begun' = begun
    BY <1>4 DEF FinalizeRun, FinalizeRunAmbiguous, RecoverRun
  <2>2. \/ runs' = runs
        \/ task[w].run \in RunIds /\ runs' = Finished(task[w].run, "UNHEALTHY")
    BY <1>3, <1>4 DEF FinalizeRun, FinalizeRunAmbiguous, RecoverRun
  <2> QED
    BY <1>1, <2>1, <2>2, FinishedKeeps
<1>5. CASE CommitPersist(w)
  <2>1. begun' = begun /\ task[w].run \in RunIds /\ runs' = Finished(task[w].run, "HEALTHY")
    BY <1>3, <1>5 DEF CommitPersist
  <2> QED
    BY <2>1, FinishedKeeps
<1>6. Abort(w) \/ Return(w) => UNCHANGED <<runs, begun>>
  BY DEF Abort, Return, tables
<1>7. CASE Poll(w)
  BY <1>1, <1>7 DEF Poll, PollBlocked, PollEmpty, ClaimRequest, MarkRuntime, tables
<1>8. CASE Cycle(w)
  BY <1>1, <1>8 DEF Cycle, StartCycle, CycleNotDue, NextSource, EndCycle, tables
<1>9. CASE Crawl(w)
  BY <1>1, <1>2, <1>6, <1>9 DEF Crawl, BeginRunFails, AttachRequest, AttachRequestFails,
     CrawlHealthy, CrawlUnhealthy, tables
<1>10. CASE Persist(w)
  BY <1>1, <1>5, <1>10 DEF Persist, BeginPersist, PersistFails, tables
<1>11. CASE Finish(w)
  BY <1>1, <1>4, <1>6, <1>11 DEF Finish, FinalizeRunMissing, RecoverRunMissing, RecoverUnreachable,
     CompleteRequest, CompleteRequestFails, CompleteScheduled, FailRequest, tables
<1>12. CASE Fault(w)
  BY <1>1, <1>12 DEF Fault, LoseConnection, CrashRestart, tables
<1> QED
  BY <1>7, <1>8, <1>9, <1>10, <1>11, <1>12 DEF WorkerStep

\* A crawler process moves requests forward, and RUNNING ones only if they are its own.
LEMMA WorkerKeepsRequests ==
  ASSUME PipelineInv, NEW w \in Workers, WorkerStep(w) \/ Fault(w)
  PROVE  RequestsKept /\ ClaimsKept(w)
<1> USE DEF PipelineInv
<1>1. CASE requests' = requests
  BY <1>1 DEF RequestsKept, ClaimsKept
<1>2. CASE PollEmpty(w)
  BY <1>2, MarkedInactiveKeeps DEF PollEmpty, RequestsKept, ClaimsKept, TypeOK, RequestRow
<1>3. CASE ClaimRequest(w)
  <2>1. PICK q \in Oldest(Claimable) :
         requests' = [MarkedInactive EXCEPT ![q] = ClaimedRow(requests[q])]
    BY <1>3 DEF ClaimRequest
  <2>2. q \in ReqIds /\ requests[q].status = "PENDING"
    BY DEF Oldest, Claimable
  <2>3. /\ requests'[q].status = "RUNNING" /\ requests'[q].source = requests[q].source
        /\ \A p \in ReqIds \ {q} : requests'[p] = MarkedInactive[p]
    BY <2>1, <2>2, MarkedInactiveType DEF ClaimedRow, TypeOK, RequestRow
  <2> QED
    BY <2>2, <2>3, MarkedInactiveKeeps DEF RequestsKept, ClaimsKept, TypeOK, RequestRow
<1>4. pc[w] \in {"attach", "failing"} => task[w].req \in ReqIds
  BY DEF TaskOwnsRows, KnowsItsRows, TypeOK, Task
<1>5. CASE AttachRequest(w)
  BY <1>4, <1>5 DEF AttachRequest, RequestsKept, ClaimsKept, TypeOK, RequestRow
<1>6. CASE CompleteRequest(w)
  <2>1. task[w].req \in ReqIds
    BY <1>6 DEF CompleteRequest, TypeOK, Task
  <2> QED
    BY <1>6, <2>1 DEF CompleteRequest, CompletedRow, RequestsKept, ClaimsKept, TypeOK, RequestRow
<1>7. CASE FailRequest(w)
  BY <1>4, <1>7 DEF FailRequest, FailedRow, RequestsKept, ClaimsKept, TypeOK, RequestRow
<1>8. Abort(w) \/ Return(w) => requests' = requests
  BY DEF Abort, Return, tables
<1>9. CASE Poll(w)
  BY <1>1, <1>2, <1>3, <1>9 DEF Poll, PollBlocked, MarkRuntime, tables
<1>10. CASE Cycle(w)
  BY <1>1, <1>10 DEF Cycle, StartCycle, CycleNotDue, NextSource, EndCycle, tables
<1>11. CASE Crawl(w)
  BY <1>1, <1>5, <1>8, <1>11 DEF Crawl, BeginRun, BeginRunFails, AttachRequestFails,
     CrawlHealthy, CrawlUnhealthy, tables
<1>12. CASE Persist(w)
  BY <1>1, <1>12 DEF Persist, BeginPersist, CommitPersist, PersistFails, tables
<1>13. CASE Finish(w)
  BY <1>1, <1>6, <1>7, <1>8, <1>13 DEF Finish, FinalizeRun, FinalizeRunMissing,
     FinalizeRunAmbiguous, RecoverRun, RecoverRunMissing, RecoverUnreachable,
     CompleteRequestFails, CompleteScheduled, tables
<1>14. CASE Fault(w)
  BY <1>1, <1>14 DEF Fault, LoseConnection, CrashRestart, tables
<1> QED
  BY <1>9, <1>10, <1>11, <1>12, <1>13, <1>14 DEF WorkerStep

\* A crawler process writes neither Job Links nor another process's memory.
LEMMA WorkerKeepsOthers ==
  ASSUME PipelineInv, NEW w \in Workers, WorkerStep(w) \/ Fault(w)
  PROVE  UNCHANGED <<sources, asked>> /\ OthersKept(w)
<1> USE DEF PipelineInv, TypeOK, OthersKept, tables
<1>1. CASE Poll(w)
  BY <1>1 DEF Poll, PollBlocked, PollEmpty, ClaimRequest, MarkRuntime
<1>2. CASE Cycle(w)
  BY <1>2 DEF Cycle, StartCycle, CycleNotDue, NextSource, EndCycle
<1>3. CASE Crawl(w)
  BY <1>3 DEF Crawl, BeginRun, BeginRunFails, AttachRequest, AttachRequestFails,
     CrawlHealthy, CrawlUnhealthy, Abort, Return
<1>4. CASE Persist(w)
  BY <1>4 DEF Persist, BeginPersist, CommitPersist, PersistFails
<1>5. CASE Finish(w)
  BY <1>5 DEF Finish, FinalizeRun, FinalizeRunMissing, FinalizeRunAmbiguous, RecoverRun,
     RecoverRunMissing, RecoverUnreachable, CompleteRequest, CompleteRequestFails,
     CompleteScheduled, FailRequest, Abort, Return
<1>6. CASE Fault(w)
  BY <1>6 DEF Fault, LoseConnection, CrashRestart
<1> QED
  BY <1>1, <1>2, <1>3, <1>4, <1>5, <1>6 DEF WorkerStep

-----------------------------------------------------------------------------
(* Identities and foreign keys *)

\* A crawler process begins runs under fresh identities and keeps rows with their sources.
LEMMA WorkerKeepsIdentities ==
  ASSUME PipelineInv, NEW w \in Workers, WorkerStep(w) \/ Fault(w)
  PROVE  FreshIdentities' /\ RowsFollowSources'
<1> USE DEF PipelineInv
<1>1. UNCHANGED <<sources, asked>> /\ RequestsKept /\ RunsKept
  BY WorkerKeepsOthers, WorkerKeepsRequests, WorkerKeepsRuns
<1>2. CASE ~BeginRun(w)
  <2>1. begun' = begun /\ NoneBegun
    BY <1>2, WorkerKeepsRuns
  <2> QED
    BY <1>1, <2>1 DEF FreshIdentities, RowsFollowSources, RunsKept, NoneBegun, RequestsKept, Exists
<1>3. CASE BeginRun(w)
  <2>1. begun + 1 \in RunIds /\ runs[begun + 1].status = "NONE"
    BY <1>3, BoundsAssumption DEF BeginRun, TypeOK, RunIds, FreshIdentities
  <2>2. /\ begun' = begun + 1
        /\ runs'[begun + 1] = [status |-> "STARTED", source |-> task[w].source]
        /\ \A r \in RunIds \ {begun + 1} : runs'[r] = runs[r]
    BY <1>3, <2>1 DEF BeginRun, TypeOK
  <2>3. task[w].source \in Sources /\ sources[task[w].source].status # "DELETED"
    BY <1>3 DEF BeginRun, TaskOwnsRows, KnowsItsRows, Exists
  <2>4. \A r \in RunIds : /\ runs'[r].status = "NONE" <=> r > begun'
                          /\ runs'[r].status = "NONE" => runs'[r].source = None
    BY <2>1, <2>2 DEF FreshIdentities, TypeOK, RunIds
  <2>5. \A q \in ReqIds : /\ requests'[q].status = "NONE" <=> q > asked'
                          /\ requests'[q].status = "NONE" => requests'[q].source = None
    BY <1>1 DEF FreshIdentities, RequestsKept
  <2>6. FreshIdentities'
    BY <2>4, <2>5 DEF FreshIdentities
  <2>7. RowsFollowSources'
    BY <1>1, <2>1, <2>2, <2>3 DEF RowsFollowSources, RequestsKept, Exists
  <2> QED
    BY <2>6, <2>7
<1> QED
  BY <1>2, <1>3

\* Job Link operations keep identities fresh and rows with their sources.
LEMMA AdminKeepsIdentities ==
  ASSUME PipelineInv, Admin PROVE FreshIdentities' /\ RowsFollowSources'
<1> USE DEF PipelineInv
<1> PICK s \in Sources :
      \/ \E u \in Urls : CreateJobLink(s, u) \/ UpdateJobLink(s, u)
      \/ PauseJobLink(s) \/ ResumeJobLink(s) \/ DeleteJobLink(s)
      \/ EnqueueCrawlRequest(s)
  BY DEF Admin
<1>1. ASSUME NEW u \in Urls, CreateJobLink(s, u) \/ UpdateJobLink(s, u)
      PROVE  FreshIdentities' /\ RowsFollowSources'
  <2>1. /\ UNCHANGED <<runs, requests, begun, asked>>
        /\ sources[s].status # "DELETED"
        /\ sources' = [sources EXCEPT ![s] = [status |-> "ACTIVE", url |-> u]]
    BY <1>1 DEF CreateJobLink, UpdateJobLink, Exists
  <2> QED
    BY <2>1 DEF FreshIdentities, RowsFollowSources, TypeOK, SourceRow, Exists
<1>2. CASE PauseJobLink(s) \/ ResumeJobLink(s)
  <2>1. /\ UNCHANGED <<runs, requests, begun, asked>>
        /\ Exists(s)
        /\ \E st \in {"ACTIVE", "DISABLED"} : sources' = [sources EXCEPT ![s].status = st]
    BY <1>2 DEF PauseJobLink, ResumeJobLink, Exists, Active
  <2> QED
    BY <2>1 DEF FreshIdentities, RowsFollowSources, TypeOK, SourceRow, Exists
<1>3. CASE DeleteJobLink(s)
  <2>1. FreshIdentities'
    BY <1>3, NoneAssumption DEF DeleteJobLink, FreshIdentities, TypeOK, RunRow, RequestRow
  <2>2. /\ sources'[s].status = "DELETED"
        /\ \A t \in Sources \ {s} : sources'[t] = sources[t]
    BY <1>3 DEF DeleteJobLink, TypeOK, SourceRow
  <2>3. \A r \in RunIds :
         /\ runs'[r].source = runs[r].source
         /\ runs[r].source = s => runs'[r].status = "DELETED"
         /\ runs[r].source # s => runs'[r].status = runs[r].status
    BY <1>3 DEF DeleteJobLink, TypeOK, RunRow
  <2>4. \A q \in ReqIds :
         /\ requests'[q].source = requests[q].source
         /\ requests[q].source = s => requests'[q].status = "DELETED"
         /\ requests[q].source # s => requests'[q].status = requests[q].status
    BY <1>3 DEF DeleteJobLink, TypeOK, RequestRow
  <2>5. RowsFollowSources'
    BY <2>2, <2>3, <2>4 DEF RowsFollowSources, Exists
  <2> QED
    BY <2>1, <2>5
<1>4. CASE EnqueueCrawlRequest(s)
  <2>1. asked + 1 \in ReqIds
    BY <1>4, BoundsAssumption DEF EnqueueCrawlRequest, TypeOK, ReqIds
  <2>2. /\ UNCHANGED <<sources, runs, begun>> /\ asked' = asked + 1
        /\ requests'[asked + 1].status = "PENDING" /\ requests'[asked + 1].source = s
        /\ \A q \in ReqIds \ {asked + 1} : requests'[q] = requests[q]
    BY <1>4, <2>1 DEF EnqueueCrawlRequest, TypeOK, NoRequest
  <2>3. \A q \in ReqIds : /\ requests'[q].status = "NONE" <=> q > asked'
                          /\ requests'[q].status = "NONE" => requests'[q].source = None
    BY <2>1, <2>2 DEF FreshIdentities, TypeOK, ReqIds
  <2>4. sources[s].status = "ACTIVE"
    BY <1>4 DEF EnqueueCrawlRequest, Active
  <2>5. FreshIdentities'
    BY <2>2, <2>3 DEF FreshIdentities
  <2>6. RowsFollowSources'
    BY <2>1, <2>2, <2>4 DEF RowsFollowSources, Exists
  <2> QED
    BY <2>5, <2>6
<1> QED
  BY <1>1, <1>2, <1>3, <1>4

-----------------------------------------------------------------------------
(* What a process knows of the rows it works on *)

\* What one process does leaves the memory of the others true.
LEMMA OthersKnowTheirRows ==
  ASSUME PipelineInv, NEW v \in Workers, RunsKept, RequestsKept,
         pc'[v] = pc[v], task'[v] = task[v]
  PROVE  KnowsItsRows(v)'
<1> USE DEF PipelineInv
<1>1. task[v].run \in RunIds \union {None} /\ task[v].req \in ReqIds \union {None}
  BY DEF TypeOK, Task
<1>2. KnowsItsRows(v) /\ (pc[v] = "complete" => task[v].run # None)
  BY DEF TaskOwnsRows, KnowsItsRows
<1>3. task[v].run # None =>
       /\ runs'[task[v].run].status # "NONE"
       /\ runs'[task[v].run].source = task[v].source
  BY <1>1, <1>2 DEF KnowsItsRows, RunsKept
<1>4. task[v].req # None => requests'[task[v].req].source = task[v].source
  BY <1>1, <1>2 DEF KnowsItsRows, RequestsKept
<1>5. pc[v] = "complete" => runs'[task[v].run].status \in {"HEALTHY", "UNHEALTHY", "DELETED"}
  BY <1>1, <1>2 DEF KnowsItsRows, RunsKept
<1> QED
  BY <1>2, <1>3, <1>4, <1>5 DEF KnowsItsRows

\* A process's own step leaves its memory true to the rows it works on.
LEMMA WorkerKnowsItsRows ==
  ASSUME PipelineInv, NEW w \in Workers, WorkerStep(w) \/ Fault(w)
  PROVE  KnowsItsRows(w)'
<1> USE DEF PipelineInv
<1>1. RunsKept /\ RequestsKept
  BY WorkerKeepsRuns, WorkerKeepsRequests
<1>2. /\ KnowsItsRows(w)
      /\ task[w] \in Task /\ pc[w] \in Pc
      /\ task[w].run \in RunIds \union {None} /\ task[w].req \in ReqIds \union {None}
  BY DEF TaskOwnsRows, TypeOK, Task
<1>3. task[w].run # None =>
       /\ runs'[task[w].run].status # "NONE"
       /\ runs'[task[w].run].source = task[w].source
  BY <1>1, <1>2 DEF KnowsItsRows, RunsKept
<1>4. task[w].req # None => requests'[task[w].req].source = task[w].source
  BY <1>1, <1>2 DEF KnowsItsRows, RequestsKept
<1>5. ASSUME task'[w] = NoTask, pc'[w] \in {"poll", "schedule", "cycle"} PROVE KnowsItsRows(w)'
  BY <1>5 DEF KnowsItsRows, NoTask
\* Most steps only move on along run_source.
<1>6. ASSUME task'[w] = task[w], pc'[w] # "complete",
             pc[w] \in {"poll", "schedule", "cycle"} <=> pc'[w] \in {"poll", "schedule", "cycle"},
             pc'[w] \in {"claimed", "attach", "failing"} => task[w].req # None,
             pc'[w] \in {"attach", "crawl", "finalize", "persist", "commit", "recover"}
               => task[w].run # None
      PROVE  KnowsItsRows(w)'
  BY <1>2, <1>3, <1>4, <1>6 DEF KnowsItsRows
<1>7. ASSUME Return(w), pc[w] \notin {"poll", "schedule", "cycle"} PROVE KnowsItsRows(w)'
  <2>1. CASE task[w].req = None
    <3>1. task'[w] = NoTask /\ pc'[w] = "poll"
      BY <1>7, <2>1 DEF Return, AfterError, TypeOK
    <3> QED
      BY <1>5, <3>1
  <2>2. CASE task[w].req # None
    <3>1. task'[w] = task[w] /\ pc'[w] = "failing"
      BY <1>7, <2>2 DEF Return, AfterError, TypeOK
    <3> QED
      BY <1>6, <1>7, <2>2, <3>1
  <2> QED
    BY <2>1, <2>2
<1>8. CASE Poll(w)
  <2>1. CASE PollBlocked(w) \/ PollEmpty(w)
    BY <1>2, <1>6, <2>1 DEF PollBlocked, PollEmpty, TypeOK, KnowsItsRows
  <2>2. CASE ClaimRequest(w)
    <3>1. PICK q \in Oldest(Claimable) :
           task' = [task EXCEPT ![w] = [source |-> requests[q].source,
                                        url |-> sources[requests[q].source].url,
                                        req |-> q, run |-> None]]
      BY <2>2 DEF ClaimRequest
    <3>2. q \in ReqIds /\ requests[q].source \in Sources /\ q # None
      BY NoneAssumption DEF Oldest, Claimable, RowsFollowSources
    <3>3. /\ task'[w].source = requests[q].source
          /\ task'[w].req = q /\ task'[w].run = None /\ pc'[w] = "claimed"
      BY <2>2, <3>1 DEF ClaimRequest, TypeOK
    <3> QED
      BY <1>1, <3>2, <3>3 DEF KnowsItsRows, RequestsKept
  <2>3. CASE MarkRuntime(w)
    <3>1. CASE conn[w]
      <4>1. task'[w] = task[w] /\ pc[w] = "claimed" /\ pc'[w] = "begin"
        BY <2>3, <3>1 DEF MarkRuntime, TypeOK
      <4> QED
        BY <1>6, <4>1
    <3>2. CASE ~conn[w]
      BY <1>5, <2>3, <3>2 DEF MarkRuntime, TypeOK
    <3> QED
      BY <3>1, <3>2
  <2> QED
    BY <1>8, <2>1, <2>2, <2>3 DEF Poll
<1>9. CASE Cycle(w)
  <2>1. CASE StartCycle(w) \/ CycleNotDue(w) \/ EndCycle(w)
    BY <1>2, <1>6, <2>1 DEF StartCycle, CycleNotDue, EndCycle, TypeOK, KnowsItsRows, tables
  <2>2. CASE NextSource(w)
    <3>1. PICK t \in todo[w] :
           task' = [task EXCEPT ![w] = [source |-> t.source, url |-> t.url,
                                        req |-> None, run |-> None]]
      BY <2>2 DEF NextSource
    <3>2. t.source \in Sources
      BY DEF TypeOK, Target
    <3>3. /\ task'[w].source = t.source
          /\ task'[w].req = None /\ task'[w].run = None /\ pc'[w] = "begin"
      BY <2>2, <3>1 DEF NextSource, TypeOK
    <3> QED
      BY <3>2, <3>3 DEF KnowsItsRows
  <2> QED
    BY <1>9, <2>1, <2>2 DEF Cycle
<1>10. CASE Crawl(w)
  <2>1. CASE BeginRun(w)
    <3>1. begun + 1 \in RunIds
      BY <2>1, BoundsAssumption DEF BeginRun, TypeOK, RunIds
    <3>2. /\ task'[w].source = task[w].source /\ task'[w].req = task[w].req
          /\ task'[w].run = begun + 1
          /\ pc'[w] = IF task[w].req = None THEN "crawl" ELSE "attach"
          /\ pc[w] = "begin"
      BY <2>1, <1>2 DEF BeginRun, NewRun, TypeOK, Task
    <3>3. runs'[begun + 1].status = "STARTED" /\ runs'[begun + 1].source = task[w].source
      BY <2>1, <3>1 DEF BeginRun, TypeOK
    <3>4. begun + 1 # None
      BY <3>1, NoneAssumption
    <3> QED
      BY <1>2, <1>4, <3>2, <3>3, <3>4 DEF KnowsItsRows
  <2>2. CASE BeginRunFails(w) \/ AttachRequestFails(w)
    BY <1>7, <2>2 DEF BeginRunFails, AttachRequestFails, Abort
  <2>3. CASE AttachRequest(w) \/ CrawlHealthy(w) \/ CrawlUnhealthy(w)
    <3>1. /\ task'[w] = task[w] /\ pc[w] \in {"attach", "crawl"}
          /\ pc'[w] \in {"crawl", "persist", "finalize"}
      BY <2>3 DEF AttachRequest, CrawlHealthy, CrawlUnhealthy, TypeOK
    <3> QED
      BY <1>2, <1>6, <3>1 DEF KnowsItsRows
  <2> QED
    BY <1>10, <2>1, <2>2, <2>3 DEF Crawl
\* The steps after which the run is known to be finished.
<1>11. ASSUME task'[w] = task[w], pc[w] \in {"finalize", "commit", "recover"}, pc'[w] = "complete",
              runs[task[w].run].status # "DELETED",
              \E o \in {"HEALTHY", "UNHEALTHY"} : runs' = Finished(task[w].run, o)
       PROVE  KnowsItsRows(w)'
  <2>1. task[w].run \in RunIds /\ runs[task[w].run].status # "NONE"
    BY <1>2, <1>11 DEF KnowsItsRows
  <2>2. runs'[task[w].run].status \in {"HEALTHY", "UNHEALTHY"}
    BY <1>11, <2>1, FinishedKeeps
  <2> QED
    BY <1>2, <1>3, <1>4, <1>11, <2>1, <2>2 DEF KnowsItsRows
<1>12. CASE Persist(w)
  <2>1. CASE BeginPersist(w) \/ PersistFails(w)
    <3>1. /\ task'[w] = task[w] /\ pc[w] \in {"persist", "commit"}
          /\ pc'[w] \in {"commit", "recover"}
      BY <2>1 DEF BeginPersist, PersistFails, TypeOK
    <3> QED
      BY <1>2, <1>6, <3>1 DEF KnowsItsRows
  <2>2. CASE CommitPersist(w)
    <3>1. /\ task'[w] = task[w] /\ pc[w] = "commit" /\ pc'[w] \in {"complete", "recover"}
          /\ runs[task[w].run].status # "DELETED"
          /\ runs' = Finished(task[w].run, "HEALTHY")
      BY <2>2 DEF CommitPersist, CanFinish, TypeOK
    <3> QED
      BY <1>2, <1>6, <1>11, <3>1 DEF KnowsItsRows
  <2> QED
    BY <1>12, <2>1, <2>2 DEF Persist
<1>13. CASE Finish(w)
  <2>1. CASE FinalizeRun(w) \/ RecoverRun(w)
    <3>1. /\ task'[w] = task[w] /\ pc[w] \in {"finalize", "recover"} /\ pc'[w] = "complete"
          /\ runs[task[w].run].status # "DELETED"
          /\ runs' = Finished(task[w].run, "UNHEALTHY")
      BY <2>1 DEF FinalizeRun, RecoverRun, TypeOK
    <3> QED
      BY <1>11, <3>1
  <2>2. CASE \/ FinalizeRunMissing(w) \/ RecoverRunMissing(w) \/ RecoverUnreachable(w)
             \/ CompleteRequestFails(w)
    <3>1. Return(w) /\ pc[w] \notin {"poll", "schedule", "cycle"}
      BY <2>2 DEF FinalizeRunMissing, RecoverRunMissing, RecoverUnreachable,
         CompleteRequestFails, Abort
    <3> QED
      BY <1>7, <3>1
  <2>3. CASE FinalizeRunAmbiguous(w)
    <3>1. task'[w] = task[w] /\ pc[w] = "finalize" /\ pc'[w] = "recover"
      BY <2>3 DEF FinalizeRunAmbiguous, TypeOK
    <3> QED
      BY <1>2, <1>6, <3>1 DEF KnowsItsRows
  <2>4. CASE CompleteRequest(w) \/ CompleteScheduled(w) \/ FailRequest(w)
    <3>1. task'[w] = NoTask /\ pc'[w] \in {"schedule", "cycle"}
      BY <2>4 DEF CompleteRequest, CompleteScheduled, FailRequest, TypeOK
    <3> QED
      BY <1>5, <3>1
  <2> QED
    BY <1>13, <2>1, <2>2, <2>3, <2>4 DEF Finish
<1>14. CASE Fault(w)
  <2>1. CASE LoseConnection(w)
    BY <1>1, <2>1, OthersKnowTheirRows DEF LoseConnection
  <2>2. CASE CrashRestart(w)
    BY <1>5, <2>2 DEF CrashRestart, TypeOK
  <2> QED
    BY <1>14, <2>1, <2>2 DEF Fault
<1> QED
  BY <1>8, <1>9, <1>10, <1>12, <1>13, <1>14 DEF WorkerStep

\* Rows that only go from what they are to DELETED are as well known as before.
LEMMA AdminKeepsRows ==
  ASSUME PipelineInv, Admin
  PROVE  /\ UNCHANGED <<pc, task>>
         /\ \A r \in RunIds :
              /\ runs'[r].source = runs[r].source
              /\ \/ runs'[r].status = runs[r].status
                 \/ /\ runs[r].status # "NONE" /\ runs'[r].status = "DELETED"
                    /\ sources'[runs[r].source].status = "DELETED"
         /\ \A q \in ReqIds :
              requests[q].status # "NONE" =>
                /\ requests'[q].source = requests[q].source
                /\ \/ requests'[q] = requests[q]
                   \/ requests'[q].status = "DELETED"
         /\ \A q \in ReqIds :
              requests[q].status = "NONE" => requests'[q].status \in {"NONE", "PENDING"}
<1> USE DEF PipelineInv
<1> DEFINE Goal ==
      /\ UNCHANGED <<pc, task>>
      /\ \A r \in RunIds :
           /\ runs'[r].source = runs[r].source
           /\ \/ runs'[r].status = runs[r].status
              \/ /\ runs[r].status # "NONE" /\ runs'[r].status = "DELETED"
                 /\ sources'[runs[r].source].status = "DELETED"
      /\ \A q \in ReqIds :
           requests[q].status # "NONE" =>
             /\ requests'[q].source = requests[q].source
             /\ \/ requests'[q] = requests[q]
                \/ requests'[q].status = "DELETED"
      /\ \A q \in ReqIds :
           requests[q].status = "NONE" => requests'[q].status \in {"NONE", "PENDING"}
<1> PICK s \in Sources :
      \/ \E u \in Urls : CreateJobLink(s, u) \/ UpdateJobLink(s, u)
      \/ PauseJobLink(s) \/ ResumeJobLink(s) \/ DeleteJobLink(s)
      \/ EnqueueCrawlRequest(s)
  BY DEF Admin
<1>1. ASSUME UNCHANGED <<pc, task, runs, requests>> PROVE Goal
  BY <1>1
<1>2. ASSUME NEW u \in Urls, CreateJobLink(s, u) \/ UpdateJobLink(s, u) PROVE Goal
  BY <1>1, <1>2 DEF CreateJobLink, UpdateJobLink, locals
<1>3. CASE PauseJobLink(s) \/ ResumeJobLink(s)
  BY <1>1, <1>3 DEF PauseJobLink, ResumeJobLink, locals
<1>4. CASE DeleteJobLink(s)
  <2>1. UNCHANGED <<pc, task>> /\ sources'[s].status = "DELETED"
    BY <1>4 DEF DeleteJobLink, locals, TypeOK, SourceRow
  <2>2. ASSUME NEW r \in RunIds
        PROVE  /\ runs'[r].source = runs[r].source
               /\ runs[r].source # s => runs'[r] = runs[r]
               /\ runs[r].source = s => runs'[r].status = "DELETED"
    BY <1>4 DEF DeleteJobLink, TypeOK, RunRow
  <2>3. ASSUME NEW r \in RunIds PROVE runs[r].source = s => runs[r].status # "NONE"
    BY NoneAssumption DEF FreshIdentities
  <2>4. ASSUME NEW q \in ReqIds
        PROVE  /\ requests'[q].source = requests[q].source
               /\ requests[q].source # s => requests'[q] = requests[q]
               /\ requests[q].source = s => requests'[q].status = "DELETED"
    BY <1>4 DEF DeleteJobLink, TypeOK, RequestRow
  <2>5. ASSUME NEW q \in ReqIds PROVE requests[q].source = s => requests[q].status # "NONE"
    BY NoneAssumption DEF FreshIdentities
  <2> QED
    BY <2>1, <2>2, <2>3, <2>4, <2>5
<1>5. CASE EnqueueCrawlRequest(s)
  <2>1. asked + 1 \in ReqIds /\ requests[asked + 1].status = "NONE"
    BY <1>5, BoundsAssumption DEF EnqueueCrawlRequest, TypeOK, ReqIds, FreshIdentities
  <2>2. /\ UNCHANGED <<pc, task, runs>>
        /\ requests'[asked + 1].status = "PENDING"
        /\ \A q \in ReqIds \ {asked + 1} : requests'[q] = requests[q]
    BY <1>5, <2>1 DEF EnqueueCrawlRequest, locals, TypeOK, NoRequest
  <2> QED
    BY <2>1, <2>2
<1> QED
  BY <1>2, <1>3, <1>4, <1>5

\* Job Link operations, deletions included, leave every process's memory true.
LEMMA AdminKnowsRows ==
  ASSUME PipelineInv, Admin PROVE TaskOwnsRows'
<1> USE DEF PipelineInv
<1> SUFFICES ASSUME NEW v \in Workers PROVE KnowsItsRows(v)'
  BY DEF TaskOwnsRows
<1>1. /\ pc' = pc /\ task' = task /\ KnowsItsRows(v)
      /\ task[v].run \in RunIds \union {None} /\ task[v].req \in ReqIds \union {None}
  BY AdminKeepsRows DEF TaskOwnsRows, TypeOK, Task
<1>2. pc[v] \notin {"poll", "schedule", "cycle"} => task[v].source # None
  BY <1>1, NoneAssumption DEF KnowsItsRows
<1>3. task[v].run # None =>
       /\ runs'[task[v].run].status # "NONE"
       /\ runs'[task[v].run].source = task[v].source
  BY <1>1, AdminKeepsRows DEF KnowsItsRows
<1>4. task[v].req # None => requests[task[v].req].status # "NONE"
  BY <1>1 DEF ClaimsAreExclusive
<1>5. task[v].req # None => requests'[task[v].req].source = task[v].source
  BY <1>1, <1>4, AdminKeepsRows DEF KnowsItsRows
<1>6. pc[v] = "complete" => runs'[task[v].run].status \in {"HEALTHY", "UNHEALTHY", "DELETED"}
  BY <1>1, AdminKeepsRows DEF KnowsItsRows
<1> QED
  BY <1>1, <1>3, <1>5, <1>6 DEF KnowsItsRows

-----------------------------------------------------------------------------
(* Claims, and the outcome behind a completed request *)

\* Job Link operations keep claims exclusive and completions with their runs.
LEMMA AdminKeepsClaims ==
  ASSUME PipelineInv, Admin PROVE ClaimsAreExclusive' /\ CompletedHasOutcome'
<1> USE DEF PipelineInv
<1>1. ClaimsAreExclusive'
  <2>1. \A v \in Workers : task[v].req \in ReqIds \union {None}
    BY DEF TypeOK, Task
  <2> QED
    BY <2>1, AdminKeepsRows DEF ClaimsAreExclusive
<1>2. CompletedHasOutcome'
  <2> SUFFICES ASSUME NEW q \in ReqIds, requests'[q].status = "COMPLETED"
               PROVE  /\ requests'[q].run # None
                      /\ runs'[requests'[q].run].status \in {"HEALTHY", "UNHEALTHY"}
                      /\ runs'[requests'[q].run].source = requests'[q].source
    BY DEF CompletedHasOutcome
  <2>1. requests'[q] = requests[q] /\ requests[q].status = "COMPLETED"
    BY AdminKeepsRows
  <2> DEFINE r == requests[q].run
  <2>2. /\ r \in RunIds /\ r # None /\ runs[r].status \in {"HEALTHY", "UNHEALTHY"}
        /\ runs[r].source = requests[q].source
    BY <2>1 DEF CompletedHasOutcome, TypeOK, RequestRow
  <2>3. sources'[requests'[q].source].status # "DELETED"
    BY <2>1, AdminKeepsIdentities DEF RowsFollowSources
  <2> QED
    BY <2>1, <2>2, <2>3, AdminKeepsRows
<1> QED
  BY <1>1, <1>2

\* No step of a process makes two of them work on one request.
LEMMA WorkerKeepsClaims ==
  ASSUME PipelineInv, NEW w \in Workers, WorkerStep(w) \/ Fault(w)
  PROVE  ClaimsAreExclusive'
<1> USE DEF PipelineInv
<1>1. /\ \A v \in Workers : task[v].req \in ReqIds \union {None}
      /\ OthersKept(w) /\ ClaimsKept(w)
  BY WorkerKeepsOthers, WorkerKeepsRequests DEF TypeOK, Task
\* Another process keeps its claim.
<1>2. ASSUME NEW v \in Workers \ {w}, task[v].req # None
      PROVE  requests'[task'[v].req].status \in {"RUNNING", "DELETED"} /\ task'[v] = task[v]
  BY <1>1, <1>2 DEF ClaimsAreExclusive, OthersKept, ClaimsKept
<1>3. ASSUME task'[w].req = None PROVE ClaimsAreExclusive'
  BY <1>1, <1>2, <1>3 DEF ClaimsAreExclusive, OthersKept
<1>4. ASSUME task'[w].req = task[w].req, task[w].req # None,
             requests'[task[w].req].status = requests[task[w].req].status
      PROVE  ClaimsAreExclusive'
  BY <1>1, <1>2, <1>4 DEF ClaimsAreExclusive, OthersKept
<1>5. CASE ClaimRequest(w)
  <2>1. PICK q \in Oldest(Claimable) :
         /\ requests' = [MarkedInactive EXCEPT ![q] = ClaimedRow(requests[q])]
         /\ task' = [task EXCEPT ![w] = [source |-> requests[q].source,
                                         url |-> sources[requests[q].source].url,
                                         req |-> q, run |-> None]]
    BY <1>5 DEF ClaimRequest
  <2>2. q \in ReqIds /\ requests[q].status = "PENDING" /\ task'[w].req = q
    BY <2>1 DEF Oldest, Claimable, TypeOK
  <2>3. requests'[q].status = "RUNNING"
    BY <2>1, <2>2, MarkedInactiveType DEF ClaimedRow, TypeOK, RequestRow
  <2>4. \A v \in Workers \ {w} : task'[v].req # q
    BY <1>1, <2>2, NoneAssumption DEF ClaimsAreExclusive, OthersKept
  <2> QED
    BY <1>1, <1>2, <2>2, <2>3, <2>4 DEF ClaimsAreExclusive, OthersKept
<1>6. CASE task'[w].req = task[w].req /\ requests' = requests
  BY <1>3, <1>4, <1>6
<1>7. CASE AttachRequest(w)
  <2>1. task[w].req \in ReqIds /\ task[w].req # None
    BY <1>7, NoneAssumption DEF AttachRequest, TaskOwnsRows, KnowsItsRows, TypeOK, Task
  <2>2. requests'[task[w].req].status = requests[task[w].req].status /\ task' = task
    BY <1>7, <2>1 DEF AttachRequest, TypeOK, RequestRow
  <2> QED
    BY <1>4, <2>1, <2>2
<1>8. CASE Abort(w) \/ Return(w)
  <2>1. requests' = requests /\ (task'[w] = task[w] \/ task'[w] = NoTask)
    BY <1>8 DEF Abort, Return, tables, TypeOK
  <2> QED
    BY <1>3, <1>6, <2>1 DEF NoTask
<1>9. CASE PollEmpty(w)
  BY <1>3, <1>9 DEF PollEmpty, TaskOwnsRows, KnowsItsRows
<1>10. CASE Poll(w)
  BY <1>3, <1>5, <1>6, <1>9, <1>10 DEF Poll, PollBlocked, MarkRuntime, NoTask, tables, TypeOK
<1>11. CASE Cycle(w)
  BY <1>3, <1>6, <1>11 DEF Cycle, StartCycle, CycleNotDue, NextSource, EndCycle, tables, TypeOK
<1>12. CASE Crawl(w)
  <2>1. CASE BeginRun(w)
    BY <1>6, <2>1 DEF BeginRun, TypeOK, Task
  <2> QED
    BY <1>6, <1>7, <1>8, <1>12, <2>1 DEF Crawl, BeginRunFails, AttachRequestFails,
       CrawlHealthy, CrawlUnhealthy, tables
<1>13. CASE Persist(w)
  BY <1>6, <1>13 DEF Persist, BeginPersist, CommitPersist, PersistFails, tables
<1>14. CASE Finish(w)
  <2>1. CASE CompleteRequest(w) \/ CompleteScheduled(w) \/ FailRequest(w)
    BY <1>3, <2>1 DEF CompleteRequest, CompleteScheduled, FailRequest, NoTask, TypeOK
  <2> QED
    BY <1>6, <1>8, <1>14, <2>1 DEF Finish, FinalizeRun, FinalizeRunMissing,
       FinalizeRunAmbiguous, RecoverRun, RecoverRunMissing, RecoverUnreachable, CompleteRequestFails
<1>15. CASE Fault(w)
  BY <1>3, <1>6, <1>15 DEF Fault, LoseConnection, CrashRestart, NoTask, tables, TypeOK
<1> QED
  BY <1>10, <1>11, <1>12, <1>13, <1>14, <1>15 DEF WorkerStep

\* No step of a process completes a request without its finished run.
LEMMA WorkerKeepsOutcomes ==
  ASSUME PipelineInv, NEW w \in Workers, WorkerStep(w) \/ Fault(w)
  PROVE  CompletedHasOutcome'
<1> USE DEF PipelineInv
<1>1. RunsKept /\ RequestsKept
  BY WorkerKeepsRuns, WorkerKeepsRequests
<1> SUFFICES ASSUME NEW q \in ReqIds, requests'[q].status = "COMPLETED"
             PROVE  /\ requests'[q].run # None
                    /\ runs'[requests'[q].run].status \in {"HEALTHY", "UNHEALTHY"}
                    /\ runs'[requests'[q].run].source = requests'[q].source
  BY DEF CompletedHasOutcome
\* A request that was COMPLETED already.
<1>2. ASSUME requests[q].status = "COMPLETED", requests'[q].run = requests[q].run
      PROVE  /\ requests'[q].run # None
             /\ runs'[requests'[q].run].status \in {"HEALTHY", "UNHEALTHY"}
             /\ runs'[requests'[q].run].source = requests'[q].source
  <2>1. /\ requests[q].run \in RunIds /\ requests[q].run # None
        /\ runs[requests[q].run].status \in {"HEALTHY", "UNHEALTHY"}
        /\ runs[requests[q].run].source = requests[q].source
    BY <1>2 DEF CompletedHasOutcome, TypeOK, RequestRow
  <2> QED
    BY <1>1, <1>2, <2>1 DEF RunsKept, RequestsKept
<1>3. CASE requests' = requests
  BY <1>2, <1>3
<1>4. CASE PollEmpty(w)
  BY <1>2, <1>4, MarkedInactiveKeeps DEF PollEmpty
<1>5. CASE ClaimRequest(w)
  <2>1. PICK p \in Oldest(Claimable) :
         requests' = [MarkedInactive EXCEPT ![p] = ClaimedRow(requests[p])]
    BY <1>5 DEF ClaimRequest
  <2>2. p \in ReqIds
    BY DEF Oldest, Claimable
  <2>3. p # q
    BY <2>1, <2>2, MarkedInactiveType DEF ClaimedRow, TypeOK, RequestRow
  <2>4. requests'[q] = MarkedInactive[q]
    BY <2>1, <2>3, MarkedInactiveType
  <2> QED
    BY <1>2, <2>4, MarkedInactiveKeeps
<1>6. pc[w] \in {"attach", "failing"} => task[w].req \in ReqIds
  BY DEF TaskOwnsRows, KnowsItsRows, TypeOK, Task
<1>7. CASE AttachRequest(w)
  BY <1>2, <1>6, <1>7 DEF AttachRequest, TypeOK, RequestRow
<1>8. CASE CompleteRequest(w)
  <2>1. /\ task[w].req \in ReqIds /\ task[w].run \in RunIds /\ task[w].run # None
        /\ runs[task[w].run].status \in {"HEALTHY", "UNHEALTHY", "DELETED"}
        /\ runs[task[w].run].source = task[w].source
        /\ requests[task[w].req].source = task[w].source
    BY <1>8, NoneAssumption DEF CompleteRequest, TaskOwnsRows, KnowsItsRows, TypeOK, Task
  <2>2. requests' = [requests EXCEPT ![task[w].req]
                       = CompletedRow(requests[task[w].req], task[w].run)]
    BY <1>8 DEF CompleteRequest
  <2>3. CASE q # task[w].req \/ requests[q].status # "RUNNING"
    BY <1>2, <2>1, <2>2, <2>3 DEF CompletedRow, TypeOK
  <2>4. CASE q = task[w].req /\ requests[q].status = "RUNNING"
    <3>1. requests'[q].run = task[w].run /\ requests'[q].source = task[w].source
      BY <2>1, <2>2, <2>4 DEF CompletedRow, TypeOK, RequestRow
    <3>2. runs[task[w].run].status # "DELETED"
      BY <2>1, <2>4 DEF RowsFollowSources
    <3> QED
      BY <1>1, <2>1, <3>1, <3>2 DEF RunsKept
  <2> QED
    BY <2>3, <2>4
<1>9. CASE FailRequest(w)
  BY <1>2, <1>6, <1>9 DEF FailRequest, FailedRow, TypeOK, RequestRow
<1>10. Abort(w) \/ Return(w) => requests' = requests
  BY DEF Abort, Return, tables
<1>11. CASE Poll(w)
  BY <1>3, <1>4, <1>5, <1>11 DEF Poll, PollBlocked, MarkRuntime, tables
<1>12. CASE Cycle(w)
  BY <1>3, <1>12 DEF Cycle, StartCycle, CycleNotDue, NextSource, EndCycle, tables
<1>13. CASE Crawl(w)
  BY <1>3, <1>7, <1>10, <1>13 DEF Crawl, BeginRun, BeginRunFails, AttachRequestFails,
     CrawlHealthy, CrawlUnhealthy, tables
<1>14. CASE Persist(w)
  BY <1>3, <1>14 DEF Persist, BeginPersist, CommitPersist, PersistFails, tables
<1>15. CASE Finish(w)
  BY <1>3, <1>8, <1>9, <1>10, <1>15 DEF Finish, FinalizeRun, FinalizeRunMissing,
     FinalizeRunAmbiguous, RecoverRun, RecoverRunMissing, RecoverUnreachable,
     CompleteRequestFails, CompleteScheduled, tables
<1>16. CASE Fault(w)
  BY <1>3, <1>16 DEF Fault, LoseConnection, CrashRestart, tables
<1> QED
  BY <1>11, <1>12, <1>13, <1>14, <1>15, <1>16 DEF WorkerStep

-----------------------------------------------------------------------------
(* Jobs stay in the boundary of their Job Link *)

\* A missed job keeps its URL, and only live jobs are missed.
LEMMA ReconciledKeepsUrl ==
  ASSUME NEW rows \in [Keys -> JobRow], NEW t, NEW k \in Keys
  PROVE  /\ Reconciled(rows, t)[k].url = rows[k].url
         /\ Live(Reconciled(rows, t)[k]) => Live(rows[k])
BY DEF Reconciled, CountsAsMissing, MissedJob, JobRow

\* The committed transaction writes only jobs of the boundary it locked.
LEMMA CommitKeepsBoundary ==
  ASSUME PipelineInv, NEW w \in Workers, CommitPersist(w)
  PROVE  NewLinksHaveNoJobs' /\ LiveJobsInBoundary'
<1> USE DEF PipelineInv
<1> DEFINE s == task[w].source
           before == Upserted(jobs[s], batch[w], task[w].url)
<1>1. s \in Sources /\ sources[s].status = "ACTIVE" /\ sources[s].url = task[w].url
  BY DEF CommitPersist, SnapshotHolds, Active, TaskOwnsRows, KnowsItsRows
<1>2. /\ sources' = sources
      /\ jobs' = [jobs EXCEPT ![s] = Reconciled(before, task[w].run)]
  BY DEF CommitPersist, PersistedJobs
<1>3. before \in [Keys -> JobRow]
  <2>1. jobs[s] \in [Keys -> JobRow] /\ batch[w] \in Batch /\ task[w].url \in Urls \union {None}
    BY <1>1 DEF TypeOK, Task
  <2> QED
    BY <2>1, UpsertedType
<1>4. \A k \in Keys : Live(before[k]) => before[k].url = sources[s].url
  BY <1>1 DEF Upserted, UpsertJob, LiveJobsInBoundary
<1>5. \A k \in Keys : Live(jobs'[s][k]) => jobs'[s][k].url = sources[s].url
  <2>1. jobs'[s] = Reconciled(before, task[w].run)
    BY <1>1, <1>2 DEF TypeOK
  <2> TAKE k \in Keys
  <2> HIDE DEF before
  <2>2. /\ Reconciled(before, task[w].run)[k].url = before[k].url
        /\ Live(Reconciled(before, task[w].run)[k]) => Live(before[k])
    BY <1>3, ReconciledKeepsUrl
  <2> QED
    BY <1>4, <2>1, <2>2
<1>6. \A t \in Sources \ {s} : jobs'[t] = jobs[t]
  BY <1>2 DEF TypeOK
<1> QED
  BY <1>1, <1>2, <1>5, <1>6 DEF NewLinksHaveNoJobs, LiveJobsInBoundary

\* Only a committed transaction of the crawler writes job rows.
LEMMA WorkerKeepsJobs ==
  ASSUME NEW w \in Workers, WorkerStep(w) \/ Fault(w), ~CommitPersist(w)
  PROVE  jobs' = jobs
<1>1. Abort(w) \/ Return(w) => jobs' = jobs
  BY DEF Abort, Return, tables
<1>2. CASE Poll(w)
  BY <1>2 DEF Poll, PollBlocked, PollEmpty, ClaimRequest, MarkRuntime, tables
<1>3. CASE Cycle(w)
  BY <1>3 DEF Cycle, StartCycle, CycleNotDue, NextSource, EndCycle, tables
<1>4. CASE Crawl(w)
  BY <1>1, <1>4 DEF Crawl, BeginRun, BeginRunFails, AttachRequest, AttachRequestFails,
     CrawlHealthy, CrawlUnhealthy, tables
<1>5. CASE Persist(w)
  BY <1>5 DEF Persist, BeginPersist, PersistFails, RolledBack, tables
<1>6. CASE Finish(w)
  BY <1>1, <1>6 DEF Finish, FinalizeRun, FinalizeRunMissing, FinalizeRunAmbiguous, RecoverRun,
     RecoverRunMissing, RecoverUnreachable, CompleteRequest, CompleteRequestFails,
     CompleteScheduled, FailRequest, tables
<1>7. CASE Fault(w)
  BY <1>7 DEF Fault, LoseConnection, CrashRestart, tables
<1> QED
  BY <1>2, <1>3, <1>4, <1>5, <1>6, <1>7 DEF WorkerStep

\* Moving or deleting a boundary writes off its live jobs in the same transaction.
LEMMA AdminKeepsBoundary ==
  ASSUME PipelineInv, Admin PROVE NewLinksHaveNoJobs' /\ LiveJobsInBoundary'
<1> USE DEF PipelineInv
<1> PICK s \in Sources :
      \/ \E u \in Urls : CreateJobLink(s, u) \/ UpdateJobLink(s, u)
      \/ PauseJobLink(s) \/ ResumeJobLink(s) \/ DeleteJobLink(s)
      \/ EnqueueCrawlRequest(s)
  BY DEF Admin
<1>1. ASSUME NEW u \in Urls, CreateJobLink(s, u)
      PROVE  NewLinksHaveNoJobs' /\ LiveJobsInBoundary'
  <2>1. /\ jobs' = jobs /\ sources[s].status = "NEW"
        /\ \A t \in Sources \ {s} : sources'[t] = sources[t]
        /\ sources'[s].status = "ACTIVE"
    BY <1>1 DEF CreateJobLink, TypeOK
  <2> QED
    BY <2>1 DEF NewLinksHaveNoJobs, LiveJobsInBoundary
<1>2. ASSUME NEW u \in Urls, UpdateJobLink(s, u)
      PROVE  NewLinksHaveNoJobs' /\ LiveJobsInBoundary'
  <2>1. /\ \A t \in Sources \ {s} : sources'[t] = sources[t] /\ jobs'[t] = jobs[t]
        /\ sources'[s].status = "ACTIVE" /\ sources'[s].url = u
    BY <1>2 DEF UpdateJobLink, TypeOK
  <2>2. CASE sources[s].url = u
    <3>1. jobs'[s] = jobs[s]
      BY <1>2, <2>2 DEF UpdateJobLink, TypeOK
    <3> QED
      BY <2>1, <2>2, <3>1 DEF NewLinksHaveNoJobs, LiveJobsInBoundary
  <2>3. CASE sources[s].url # u
    <3>1. \A k \in Keys : ~Live(jobs'[s][k])
      <4>1. \A k \in Keys : jobs'[s][k] = ClosedByAdmin(jobs[s][k])
        BY <1>2, <2>3 DEF UpdateJobLink, TypeOK
      <4>2. \A job \in JobRow : ~Live(ClosedByAdmin(job))
        BY DEF ClosedByAdmin, Live, JobRow
      <4> QED
        BY <4>1, <4>2 DEF TypeOK
    <3> QED
      BY <2>1, <3>1 DEF NewLinksHaveNoJobs, LiveJobsInBoundary
  <2> QED
    BY <2>2, <2>3
<1>3. CASE PauseJobLink(s) \/ ResumeJobLink(s)
  <2>1. /\ jobs' = jobs
        /\ \A t \in Sources \ {s} : sources'[t] = sources[t]
        /\ sources'[s].status # "NEW" /\ sources'[s].url = sources[s].url
    BY <1>3 DEF PauseJobLink, ResumeJobLink, TypeOK, SourceRow
  <2> QED
    BY <2>1 DEF NewLinksHaveNoJobs, LiveJobsInBoundary
<1>4. CASE DeleteJobLink(s)
  <2>1. \A k \in Keys : ~Live(jobs'[s][k])
    BY <1>4 DEF DeleteJobLink, TypeOK, NoJob, Live
  <2>2. \A t \in Sources \ {s} : sources'[t] = sources[t] /\ jobs'[t] = jobs[t]
    BY <1>4 DEF DeleteJobLink, TypeOK
  <2> QED
    BY <2>1, <2>2 DEF NewLinksHaveNoJobs, LiveJobsInBoundary
<1>5. CASE EnqueueCrawlRequest(s)
  BY <1>5 DEF EnqueueCrawlRequest, NewLinksHaveNoJobs, LiveJobsInBoundary
<1> QED
  BY <1>1, <1>2, <1>3, <1>4, <1>5

-----------------------------------------------------------------------------
(* The invariant, and what follows from it *)

\* And it holds at the start.
LEMMA InitPipelineInv == Init => PipelineInv
<1> SUFFICES ASSUME Init PROVE PipelineInv
  OBVIOUS
<1>1. TypeOK
  BY InitType
<1>2. FreshIdentities /\ RowsFollowSources
  BY DEF Init, NoRun, NoRequest, FreshIdentities, RowsFollowSources, RunIds, ReqIds, Exists
<1>3. TaskOwnsRows /\ ClaimsAreExclusive
  BY DEF Init, NoTask, TaskOwnsRows, KnowsItsRows, ClaimsAreExclusive
<1>4. CompletedHasOutcome
  BY DEF Init, NoRequest, CompletedHasOutcome
<1>5. NewLinksHaveNoJobs /\ LiveJobsInBoundary
  BY DEF Init, NoJob, Live, NewLinksHaveNoJobs, LiveJobsInBoundary
<1> QED
  BY <1>1, <1>2, <1>3, <1>4, <1>5 DEF PipelineInv

\* PipelineInv is inductive.
LEMMA StepPipelineInv == PipelineInv /\ [Next]_vars => PipelineInv'
<1> SUFFICES ASSUME PipelineInv, [Next]_vars PROVE PipelineInv'
  OBVIOUS
<1>1. TypeOK'
  BY StepType
<1>2. CASE Admin
  BY <1>1, <1>2, AdminKeepsIdentities, AdminKnowsRows, AdminKeepsClaims, AdminKeepsBoundary
     DEF PipelineInv
<1>3. ASSUME NEW w \in Workers, WorkerStep(w) \/ Fault(w) PROVE PipelineInv'
  <2>1. FreshIdentities' /\ RowsFollowSources'
    BY <1>3, WorkerKeepsIdentities
  <2>2. TaskOwnsRows'
    <3> SUFFICES ASSUME NEW v \in Workers PROVE KnowsItsRows(v)'
      BY DEF TaskOwnsRows
    <3>1. CASE v = w
      BY <1>3, <3>1, WorkerKnowsItsRows
    <3>2. CASE v # w
      <4>1. RunsKept /\ RequestsKept /\ pc'[v] = pc[v] /\ task'[v] = task[v]
        BY <1>3, <3>2, WorkerKeepsOthers, WorkerKeepsRuns, WorkerKeepsRequests DEF OthersKept
      <4> QED
        BY <4>1, OthersKnowTheirRows
    <3> QED
      BY <3>1, <3>2
  <2>3. ClaimsAreExclusive' /\ CompletedHasOutcome'
    BY <1>3, WorkerKeepsClaims, WorkerKeepsOutcomes
  <2>4. NewLinksHaveNoJobs' /\ LiveJobsInBoundary'
    <3>1. CASE CommitPersist(w)
      BY <3>1, CommitKeepsBoundary
    <3>2. CASE ~CommitPersist(w)
      <4>1. jobs' = jobs /\ sources' = sources
        BY <1>3, <3>2, WorkerKeepsJobs, WorkerKeepsOthers
      <4> QED
        BY <4>1 DEF PipelineInv, NewLinksHaveNoJobs, LiveJobsInBoundary
    <3> QED
      BY <3>1, <3>2
  <2> QED
    BY <1>1, <2>1, <2>2, <2>3, <2>4 DEF PipelineInv
<1>4. CASE UNCHANGED vars
  BY <1>1, <1>4 DEF PipelineInv, vars, tables, locals, FreshIdentities, RowsFollowSources, Exists,
     TaskOwnsRows, KnowsItsRows, ClaimsAreExclusive, CompletedHasOutcome,
     NewLinksHaveNoJobs, LiveJobsInBoundary
<1> QED
  BY <1>2, <1>3, <1>4 DEF Next

\* The whole inductive invariant: identities, foreign keys and what each crawler
\* process knows of its rows, whatever administrators, faults and other
\* processes do in between.
THEOREM Invariance == Spec => []PipelineInv
BY InitPipelineInv, StepPipelineInv, PTL DEF Spec

\* Every row and record keeps the shape its table or struct gives it.
THEOREM TypeCorrect == Spec => []TypeOK
<1>1. PipelineInv => TypeOK
  BY DEF PipelineInv
<1> QED
  BY <1>1, Invariance, PTL

\* No live job of a boundary its Job Link has left, for any number of crawler
\* processes and administrators (lock_active_source_snapshot, closeJobLinkJobs).
THEOREM JobsStayInBoundary == Spec => []LiveJobsInBoundary
<1>1. PipelineInv => LiveJobsInBoundary
  BY DEF PipelineInv
<1> QED
  BY <1>1, Invariance, PTL

\* Two crawler processes never work on the same request, and a request one works
\* on is RUNNING until it resolves or goes with its source
\* (claim_next_crawl_request, FOR UPDATE SKIP LOCKED).
THEOREM ClaimsExclusive == Spec => []ClaimsAreExclusive
<1>1. PipelineInv => ClaimsAreExclusive
  BY DEF PipelineInv
<1> QED
  BY <1>1, Invariance, PTL

\* COMPLETED is backed by a finished run of the request's own source, through
\* lost answers, recoveries, deletions and crashes (run_source, complete_request).
THEOREM CompletionsHaveOutcomes == Spec => []CompletedHasOutcome
<1>1. PipelineInv => CompletedHasOutcome
  BY DEF PipelineInv
<1> QED
  BY <1>1, Invariance, PTL

\* Recovery, a second process and a lost answer never change a run's outcome
\* (the compare-and-set of finish_crawl_run_if_unfinished).
THEOREM OutcomesAreFinal == Spec => RunOutcomeIsFinal
<1> DEFINE Final == \A r \in RunIds :
                      runs[r].status \in {"HEALTHY", "UNHEALTHY"} =>
                        runs'[r].status \in {runs[r].status, "DELETED"}
<1>1. ASSUME PipelineInv, [Next]_vars PROVE Final
  <2>1. CASE Admin
    BY <1>1, <2>1, AdminKeepsRows
  <2>2. ASSUME NEW w \in Workers, WorkerStep(w) \/ Fault(w) PROVE Final
    BY <1>1, <2>2, WorkerKeepsRuns DEF RunsKept
  <2>3. CASE UNCHANGED vars
    BY <2>3 DEF vars, tables
  <2> QED
    BY <1>1, <2>1, <2>2, <2>3 DEF Next
<1> QED
  BY <1>1, Invariance, PTL DEF Spec, RunOutcomeIsFinal

\* A crawl changes jobs only in the step that makes its run HEALTHY; every other
\* change of a job is an administrator's, with the Job Link's row.
THEOREM JobsChangeWithTheirRun == Spec => OnlyHealthyRunsTouchJobs
<1> DEFINE Touch == \A s \in Sources :
                      jobs'[s] # jobs[s] =>
                        \/ HealthyAfter(s, 0)' # HealthyAfter(s, 0)
                        \/ sources'[s] # sources[s]
<1>1. ASSUME PipelineInv, [Next]_vars PROVE Touch
  <2> USE <1>1 DEF PipelineInv
  <2>1. ASSUME NEW w \in Workers, CommitPersist(w) PROVE Touch
    <3>1. task[w].run \in RunIds /\ task[w].source \in Sources
      BY <2>1, NoneAssumption DEF CommitPersist, TaskOwnsRows, KnowsItsRows, TypeOK, Task
    <3>2. PICK r \in RunIds, s \in Sources : r = task[w].run /\ s = task[w].source
      BY <3>1
    <3>3. /\ runs[r].source = s /\ runs[r].status = "STARTED"
          /\ runs'[r].source = s /\ runs'[r].status = "HEALTHY"
      BY <2>1, <3>2, NoneAssumption
      DEF CommitPersist, Finished, CanFinish, TaskOwnsRows, KnowsItsRows, TypeOK, RunRow
    <3>4. r > 0
      BY <3>2 DEF RunIds
    <3>5. r \in HealthyAfter(s, 0)' /\ r \notin HealthyAfter(s, 0)
      BY <3>3, <3>4 DEF HealthyAfter
    <3>6. \A t \in Sources \ {s} : jobs'[t] = jobs[t]
      BY <2>1, <3>2 DEF CommitPersist, TypeOK
    <3> QED
      BY <3>5, <3>6
  <2>2. ASSUME NEW w \in Workers, WorkerStep(w) \/ Fault(w) PROVE Touch
    BY <2>1, <2>2, WorkerKeepsJobs
  <2>3. CASE Admin
    <3> PICK s \in Sources :
          \/ \E u \in Urls : CreateJobLink(s, u) \/ UpdateJobLink(s, u)
          \/ PauseJobLink(s) \/ ResumeJobLink(s) \/ DeleteJobLink(s)
          \/ EnqueueCrawlRequest(s)
      BY <2>3 DEF Admin
    <3>1. \/ jobs' = jobs
          \/ \E u \in Urls : UpdateJobLink(s, u)
          \/ DeleteJobLink(s)
      BY DEF CreateJobLink, PauseJobLink, ResumeJobLink, EnqueueCrawlRequest
    <3>2. ASSUME NEW u \in Urls, UpdateJobLink(s, u) PROVE Touch
      BY <3>2 DEF UpdateJobLink, TypeOK
    <3>3. CASE DeleteJobLink(s)
      <4>1. sources[s].status # "DELETED" /\ sources'[s].status = "DELETED"
        BY <3>3 DEF DeleteJobLink, Exists, TypeOK, SourceRow
      <4>2. \A t \in Sources \ {s} : jobs'[t] = jobs[t]
        BY <3>3 DEF DeleteJobLink, TypeOK
      <4> QED
        BY <4>1, <4>2
    <3> QED
      BY <3>1, <3>2, <3>3
  <2>4. CASE UNCHANGED vars
    BY <2>4 DEF vars, tables
  <2> QED
    BY <2>2, <2>3, <2>4 DEF Next
<1> QED
  BY <1>1, Invariance, PTL DEF Spec, OnlyHealthyRunsTouchJobs

-----------------------------------------------------------------------------
(* Healthy runs: what each step adds to them, and what it does to jobs *)

\* HealthyAfter, of any contents of source_crawl_runs.
HealthyIn(rows, s, t) ==
  {r \in RunIds : rows[r].status = "HEALTHY" /\ rows[r].source = s /\ r > t}

\* One run of the source that turns healthy after t makes exactly one more.
LEMMA OneMoreHealthy ==
  ASSUME NEW before, NEW after, NEW s, NEW t, NEW r \in RunIds, r > t,
         before[r].status # "HEALTHY",
         after[r].status = "HEALTHY", after[r].source = s,
         \A q \in RunIds \ {r} : after[q] = before[q]
  PROVE  /\ Cardinality(HealthyIn(before, s, t)) \in Nat
         /\ Cardinality(HealthyIn(after, s, t)) = Cardinality(HealthyIn(before, s, t)) + 1
<1>1. IsFiniteSet(RunIds)
  BY FS_Interval, BoundsAssumption DEF RunIds
<1>2. IsFiniteSet(HealthyIn(before, s, t))
  BY <1>1, FS_Subset DEF HealthyIn
<1>3. HealthyIn(after, s, t) = HealthyIn(before, s, t) \union {r}
  BY DEF HealthyIn
<1>4. r \notin HealthyIn(before, s, t)
  BY DEF HealthyIn
<1> QED
  BY <1>2, <1>3, <1>4, FS_AddElement, FS_CardinalityType

\* Only a committed persisting transaction makes a run HEALTHY.
LEMMA WorkerKeepsHealthy ==
  ASSUME PipelineInv, NEW w \in Workers, WorkerStep(w) \/ Fault(w), ~CommitPersist(w),
         NEW r \in RunIds
  PROVE  /\ runs'[r].status = "HEALTHY" <=> runs[r].status = "HEALTHY"
         /\ runs'[r].status = "HEALTHY" => runs'[r].source = runs[r].source
<1> USE DEF PipelineInv
<1> DEFINE Goal == /\ runs'[r].status = "HEALTHY" <=> runs[r].status = "HEALTHY"
                   /\ runs'[r].status = "HEALTHY" => runs'[r].source = runs[r].source
<1>1. CASE UNCHANGED runs
  BY <1>1
<1>2. CASE BeginRun(w)
  <2>1. begun + 1 \in RunIds /\ runs[begun + 1].status = "NONE"
    BY <1>2, BoundsAssumption DEF BeginRun, TypeOK, RunIds, FreshIdentities
  <2> QED
    BY <1>2, <2>1 DEF BeginRun, TypeOK, RunRow
<1>3. CASE FinalizeRun(w) \/ FinalizeRunAmbiguous(w) \/ RecoverRun(w)
  <2>1. runs' = runs \/ runs' = Finished(task[w].run, "UNHEALTHY")
    BY <1>3 DEF FinalizeRun, FinalizeRunAmbiguous, RecoverRun
  <2>2. task[w].run \in RunIds
    BY <1>3, NoneAssumption DEF TaskOwnsRows, KnowsItsRows, TypeOK, Task, FinalizeRun,
       FinalizeRunAmbiguous, RecoverRun
  <2> QED
    BY <1>1, <2>1, <2>2 DEF Finished, CanFinish, TypeOK, RunRow
<1>4. Abort(w) \/ Return(w) => UNCHANGED runs
  BY DEF Abort, Return, tables
<1>5. CASE Poll(w)
  BY <1>1, <1>5 DEF Poll, PollBlocked, PollEmpty, ClaimRequest, MarkRuntime, tables
<1>6. CASE Cycle(w)
  BY <1>1, <1>6 DEF Cycle, StartCycle, CycleNotDue, NextSource, EndCycle, tables
<1>7. CASE Crawl(w)
  BY <1>1, <1>2, <1>4, <1>7 DEF Crawl, BeginRunFails, AttachRequest, AttachRequestFails,
     CrawlHealthy, CrawlUnhealthy, tables
<1>8. CASE Persist(w)
  BY <1>1, <1>8 DEF Persist, BeginPersist, PersistFails, tables
<1>9. CASE Finish(w)
  BY <1>1, <1>3, <1>4, <1>9 DEF Finish, FinalizeRunMissing, RecoverRunMissing,
     RecoverUnreachable, CompleteRequest, CompleteRequestFails, CompleteScheduled, FailRequest,
     tables
<1>10. CASE Fault(w)
  BY <1>1, <1>10 DEF Fault, LoseConnection, CrashRestart, tables
<1> QED
  BY <1>5, <1>6, <1>7, <1>8, <1>9, <1>10 DEF WorkerStep

\* A step that leaves the job cache and the healthy runs as they are.
QuietStep ==
  /\ jobs' = jobs
  /\ \A r \in RunIds :
       /\ runs'[r].status = "HEALTHY" <=> runs[r].status = "HEALTHY"
       /\ runs'[r].status = "HEALTHY" => runs'[r].source = runs[r].source

\* The four ways a step can go, seen from the job cache and the healthy runs.
LEMMA StepShape ==
  ASSUME PipelineInv, [Next]_vars
  PROVE  \/ QuietStep
         \/ \E w \in Workers : CommitPersist(w)
         \/ \E s \in Sources, u \in Urls : UpdateJobLink(s, u) /\ sources[s].url # u
         \/ \E s \in Sources : DeleteJobLink(s)
<1> USE DEF PipelineInv
<1>1. CASE UNCHANGED vars
  BY <1>1 DEF vars, tables, QuietStep
<1>2. ASSUME NEW w \in Workers, WorkerStep(w) \/ Fault(w), ~CommitPersist(w) PROVE QuietStep
  BY <1>2, WorkerKeepsJobs, WorkerKeepsHealthy DEF QuietStep
<1>3. ASSUME NEW s \in Sources, NEW u \in Urls, UpdateJobLink(s, u), sources[s].url = u
      PROVE  QuietStep
  BY <1>3 DEF UpdateJobLink, QuietStep, TypeOK
<1>4. ASSUME NEW s \in Sources, NEW u \in Urls,
             CreateJobLink(s, u) \/ PauseJobLink(s) \/ ResumeJobLink(s) \/ EnqueueCrawlRequest(s)
      PROVE  QuietStep
  BY <1>4 DEF CreateJobLink, PauseJobLink, ResumeJobLink, EnqueueCrawlRequest, QuietStep
<1>5. ASSUME NEW s \in Sources,
             PauseJobLink(s) \/ ResumeJobLink(s) \/ EnqueueCrawlRequest(s)
      PROVE  QuietStep
  BY <1>5 DEF PauseJobLink, ResumeJobLink, EnqueueCrawlRequest, QuietStep
<1> QED
  BY <1>1, <1>2, <1>3, <1>4, <1>5 DEF Next, Admin

\* A committed transaction makes one run healthy, its own, started and unfinished.
LEMMA CommitRun ==
  ASSUME PipelineInv, NEW w \in Workers, CommitPersist(w)
  PROVE  /\ task[w].source \in Sources /\ task[w].run \in RunIds /\ batch[w] \in Batch
         /\ runs[task[w].run].status = "STARTED"
         /\ runs'[task[w].run].status = "HEALTHY"
         /\ runs'[task[w].run].source = task[w].source
         /\ \A q \in RunIds \ {task[w].run} : runs'[q] = runs[q]
<1> USE DEF PipelineInv
<1>1. /\ task[w].source \in Sources /\ task[w].run \in RunIds /\ batch[w] \in Batch
      /\ runs[task[w].run].status = "STARTED"
  BY NoneAssumption DEF CommitPersist, CanFinish, TaskOwnsRows, KnowsItsRows, TypeOK, Task
<1>2. runs[task[w].run].source = task[w].source /\ runs[task[w].run] \in RunRow
  BY <1>1, NoneAssumption DEF CommitPersist, TaskOwnsRows, KnowsItsRows, TypeOK
<1>3. runs' = [runs EXCEPT ![task[w].run].status = "HEALTHY"]
  BY <1>1 DEF CommitPersist, Finished, CanFinish
<1> QED
  BY <1>1, <1>2, <1>3 DEF TypeOK, RunRow

\* What a committed transaction writes: its run turns healthy, and of its source
\* a job is one observed now, one missed once more, or as it was.
LEMMA CommitShape ==
  ASSUME PipelineInv, NEW w \in Workers, CommitPersist(w), NEW k \in Keys
  PROVE  LET s == task[w].source
             r == task[w].run
             b == batch[w]
         IN /\ \A t \in Sources \ {s} : jobs'[t] = jobs[t]
            /\ k \in b.seen /\ k \in b.closed => jobs'[s][k] = UpsertJob(TRUE, task[w].url, b.at)
            /\ k \in b.seen /\ k \notin b.closed =>
                 jobs'[s][k] = IF b.at < r
                               THEN MissedJob(UpsertJob(FALSE, task[w].url, b.at))
                               ELSE UpsertJob(FALSE, task[w].url, b.at)
            /\ k \notin b.seen =>
                 jobs'[s][k] = IF Live(jobs[s][k]) /\ jobs[s][k].lastSeen < r
                               THEN MissedJob(jobs[s][k]) ELSE jobs[s][k]
<1> USE DEF PipelineInv
<1> DEFINE s == task[w].source
           r == task[w].run
           b == batch[w]
           before == Upserted(jobs[s], b, task[w].url)
<1>1. s \in Sources
  BY CommitRun
<1>4. /\ jobs'[s] = Reconciled(before, r)
      /\ \A t \in Sources \ {s} : jobs'[t] = jobs[t]
  BY <1>1 DEF CommitPersist, PersistedJobs, TypeOK
<1>5. jobs'[s][k] = IF CountsAsMissing(before[k], r) THEN MissedJob(before[k]) ELSE before[k]
  BY <1>4 DEF Reconciled
<1>6. before[k] = IF k \in b.seen THEN UpsertJob(k \in b.closed, task[w].url, b.at)
                  ELSE jobs[s][k]
  BY DEF Upserted
<1>7. k \in b.seen /\ k \in b.closed => jobs'[s][k] = UpsertJob(TRUE, task[w].url, b.at)
  <2> SUFFICES ASSUME k \in b.seen, k \in b.closed
               PROVE  jobs'[s][k] = UpsertJob(TRUE, task[w].url, b.at)
    OBVIOUS
  <2>1. before[k] = UpsertJob(TRUE, task[w].url, b.at)
    BY <1>6 DEF UpsertJob
  <2>2. ~CountsAsMissing(before[k], r)
    BY <2>1 DEF CountsAsMissing, Live, UpsertJob
  <2> QED
    BY <1>5, <2>1, <2>2
<1>8. k \in b.seen /\ k \notin b.closed =>
        jobs'[s][k] = IF b.at < r THEN MissedJob(UpsertJob(FALSE, task[w].url, b.at))
                      ELSE UpsertJob(FALSE, task[w].url, b.at)
  <2> SUFFICES ASSUME k \in b.seen, k \notin b.closed
               PROVE  jobs'[s][k] = IF b.at < r THEN MissedJob(UpsertJob(FALSE, task[w].url, b.at))
                                    ELSE UpsertJob(FALSE, task[w].url, b.at)
    OBVIOUS
  <2>1. before[k] = UpsertJob(FALSE, task[w].url, b.at)
    BY <1>6 DEF UpsertJob
  <2>2. CountsAsMissing(before[k], r) <=> b.at < r
    BY <2>1 DEF CountsAsMissing, Live, UpsertJob
  <2> QED
    BY <1>5, <2>1, <2>2
<1>9. k \notin b.seen =>
        jobs'[s][k] = IF Live(jobs[s][k]) /\ jobs[s][k].lastSeen < r
                      THEN MissedJob(jobs[s][k]) ELSE jobs[s][k]
  BY <1>5, <1>6 DEF CountsAsMissing
<1> QED
  BY <1>4, <1>7, <1>8, <1>9

\* A run that turns healthy when a job is missed makes the evidence for the miss.
LEMMA CommitCounts ==
  ASSUME PipelineInv, NEW w \in Workers, CommitPersist(w), NEW t
  PROVE  /\ task[w].run > t =>
              /\ Cardinality(HealthyIn(runs, task[w].source, t)) \in Nat
              /\ Cardinality(HealthyIn(runs', task[w].source, t))
                   = Cardinality(HealthyIn(runs, task[w].source, t)) + 1
         /\ ~(task[w].run > t) => HealthyIn(runs', task[w].source, t)
                                   = HealthyIn(runs, task[w].source, t)
         /\ \A s \in Sources \ {task[w].source} : HealthyIn(runs', s, t) = HealthyIn(runs, s, t)
<1> DEFINE r == task[w].run
<1>1. /\ r \in RunIds /\ runs[r].status = "STARTED"
      /\ runs'[r].status = "HEALTHY" /\ runs'[r].source = task[w].source
      /\ \A q \in RunIds \ {r} : runs'[q] = runs[q]
  BY CommitRun
<1>5. runs[r].source = task[w].source
  BY <1>1, NoneAssumption DEF PipelineInv, TaskOwnsRows, KnowsItsRows, TypeOK, CommitPersist
<1>2. ASSUME r > t
      PROVE  /\ Cardinality(HealthyIn(runs, task[w].source, t)) \in Nat
             /\ Cardinality(HealthyIn(runs', task[w].source, t))
                  = Cardinality(HealthyIn(runs, task[w].source, t)) + 1
  <2> HIDE DEF r
  <2> QED
    BY <1>1, <1>2, OneMoreHealthy
<1>3. ~(r > t) => HealthyIn(runs', task[w].source, t) = HealthyIn(runs, task[w].source, t)
  BY <1>1 DEF HealthyIn
<1>4. \A s \in Sources \ {task[w].source} : HealthyIn(runs', s, t) = HealthyIn(runs, s, t)
  BY <1>1, <1>5 DEF HealthyIn
<1> QED
  BY <1>2, <1>3, <1>4

\* What no healthy run has to do with: a step that keeps a job or writes it off.
LEMMA QuietCounts ==
  ASSUME PipelineInv, QuietStep, NEW s \in Sources, NEW t
  PROVE  HealthyIn(runs', s, t) = HealthyIn(runs, s, t)
BY DEF QuietStep, HealthyIn

\* An administrator's operation on another Job Link leaves a source's jobs and
\* runs alone, and on its own leaves it no live job.
LEMMA AdminWritesOff ==
  ASSUME PipelineInv, NEW s \in Sources,
         \/ DeleteJobLink(s)
         \/ \E u \in Urls : UpdateJobLink(s, u) /\ sources[s].url # u
  PROVE  /\ \A k \in Keys : ~Live(jobs'[s][k])
         /\ \A t \in Sources \ {s} : jobs'[t] = jobs[t]
         /\ \A n : \A t \in Sources \ {s} : HealthyIn(runs', t, n) = HealthyIn(runs, t, n)
<1> USE DEF PipelineInv
<1>1. CASE DeleteJobLink(s)
  <2>1. /\ \A k \in Keys : jobs'[s][k] = NoJob
        /\ \A t \in Sources \ {s} : jobs'[t] = jobs[t]
    BY <1>1 DEF DeleteJobLink, TypeOK
  <2>2. \A r \in RunIds : runs'[r] = IF runs[r].source = s
                                     THEN [runs[r] EXCEPT !.status = "DELETED"] ELSE runs[r]
    BY <1>1 DEF DeleteJobLink
  <2>3. \A r \in RunIds : runs'[r].source = runs[r].source
                          /\ (runs[r].source # s => runs'[r] = runs[r])
    BY <2>2 DEF TypeOK, RunRow
  <2> QED
    BY <2>1, <2>3 DEF NoJob, Live, HealthyIn
<1>2. ASSUME NEW u \in Urls, UpdateJobLink(s, u), sources[s].url # u
      PROVE  /\ \A k \in Keys : ~Live(jobs'[s][k])
             /\ \A t \in Sources \ {s} : jobs'[t] = jobs[t]
             /\ runs' = runs
  <2>1. /\ \A k \in Keys : jobs'[s][k] = ClosedByAdmin(jobs[s][k])
        /\ \A t \in Sources \ {s} : jobs'[t] = jobs[t]
        /\ runs' = runs
    BY <1>2 DEF UpdateJobLink, TypeOK
  <2>2. \A job \in JobRow : ~Live(ClosedByAdmin(job))
    BY DEF ClosedByAdmin, Live, JobRow
  <2> QED
    BY <2>1, <2>2 DEF TypeOK
<1> QED
  BY <1>1, <1>2

\* The evidence behind the missing counters survives every step.
LEMMA StepMisses ==
  ASSUME PipelineInv, MissesHaveRuns, [Next]_vars PROVE MissesHaveRuns'
<1> USE DEF PipelineInv
<1> SUFFICES ASSUME NEW s \in Sources, NEW k \in Keys, Live(jobs'[s][k])
             PROVE  jobs'[s][k].cycles <= Cardinality(HealthyIn(runs', s, jobs'[s][k].lastSeen))
  BY DEF MissesHaveRuns, HealthyAfter, HealthyIn
<1> DEFINE old == jobs[s][k]
           new == jobs'[s][k]
<1>1. Live(old) => old.cycles <= Cardinality(HealthyIn(runs, s, old.lastSeen))
  BY DEF MissesHaveRuns, HealthyAfter, HealthyIn
<1>2. new = old /\ HealthyIn(runs', s, old.lastSeen) = HealthyIn(runs, s, old.lastSeen)
        => new.cycles <= Cardinality(HealthyIn(runs', s, new.lastSeen))
  BY <1>1
<1>3. CASE QuietStep
  BY <1>2, <1>3, QuietCounts DEF QuietStep
<1>4. ASSUME NEW a \in Sources,
             \/ DeleteJobLink(a)
             \/ \E u \in Urls : UpdateJobLink(a, u) /\ sources[a].url # u
      PROVE  new.cycles <= Cardinality(HealthyIn(runs', s, new.lastSeen))
  BY <1>2, <1>4, AdminWritesOff
<1>5. ASSUME NEW w \in Workers, CommitPersist(w), s # task[w].source
      PROVE  new.cycles <= Cardinality(HealthyIn(runs', s, new.lastSeen))
  <2>1. jobs'[s] = jobs[s]
    BY <1>5, CommitShape
  <2>2. HealthyIn(runs', s, old.lastSeen) = HealthyIn(runs, s, old.lastSeen)
    BY <1>5, CommitCounts
  <2> QED
    BY <1>2, <2>1, <2>2
<1>6. ASSUME NEW w \in Workers, CommitPersist(w), s = task[w].source
      PROVE  new.cycles <= Cardinality(HealthyIn(runs', s, new.lastSeen))
  <2> DEFINE r == task[w].run
             up == UpsertJob(FALSE, task[w].url, batch[w].at)
  <2>1. /\ k \in batch[w].seen /\ k \in batch[w].closed =>
             new = UpsertJob(TRUE, task[w].url, batch[w].at)
        /\ k \in batch[w].seen /\ k \notin batch[w].closed =>
             new = IF batch[w].at < r THEN MissedJob(up) ELSE up
        /\ k \notin batch[w].seen =>
             new = IF Live(old) /\ old.lastSeen < r THEN MissedJob(old) ELSE old
        /\ r \in RunIds /\ batch[w] \in Batch
    BY <1>6, CommitRun, CommitShape
  <2>2. r \in Nat /\ batch[w].at \in Nat /\ old \in JobRow
    BY <2>1 DEF RunIds, Batch, TypeOK
  <2>3. ASSUME NEW t PROVE Cardinality(HealthyIn(runs', s, t)) \in Nat
    <3>1. IsFiniteSet(RunIds)
      BY FS_Interval, BoundsAssumption DEF RunIds
    <3>2. IsFiniteSet(HealthyIn(runs', s, t))
      BY <3>1, FS_Subset DEF HealthyIn
    <3> QED
      BY <3>2, FS_CardinalityType
  <2>4. k \notin batch[w].seen \/ k \notin batch[w].closed
    BY <2>1 DEF UpsertJob, Live
  <2>5. CASE k \in batch[w].seen /\ ~(batch[w].at < r)
    BY <2>1, <2>3, <2>4, <2>5 DEF UpsertJob
  <2>6. CASE k \in batch[w].seen /\ batch[w].at < r
    <3>1. new.cycles = 1 /\ new.lastSeen = batch[w].at
      <4>1. new = MissedJob(up)
        BY <2>1, <2>4, <2>6
      <4>2. task[w].url \in Urls \union {None}
        BY DEF TypeOK, Task
      <4>3. up \in JobRow /\ up.cycles = 0 /\ up.lastSeen = batch[w].at
        BY <2>2, <4>2, UpsertJobFields
      <4>4. MissedJob(up).cycles = 1 /\ MissedJob(up).lastSeen = batch[w].at
        <5> HIDE DEF up
        <5> QED
          BY <4>3, MissedJobFields
      <4> QED
        BY <4>1, <4>4
    <3>2. r > batch[w].at
      BY <2>2, <2>6
    <3>3. /\ Cardinality(HealthyIn(runs, s, batch[w].at)) \in Nat
          /\ Cardinality(HealthyIn(runs', s, batch[w].at))
               = Cardinality(HealthyIn(runs, s, batch[w].at)) + 1
      BY <1>6, <3>2, CommitCounts
    <3> QED
      BY <3>1, <3>3
  <2>7. CASE k \notin batch[w].seen /\ Live(old) /\ old.lastSeen < r
    <3>1. new = MissedJob(old)
      BY <2>1, <2>7
    <3>2. new.cycles <= old.cycles + 1 /\ new.lastSeen = old.lastSeen
      BY <2>2, <3>1 DEF MissedJob, JobRow
    <3>3. r > old.lastSeen /\ old.cycles \in Nat
      BY <2>2, <2>7 DEF JobRow
    <3>4. /\ Cardinality(HealthyIn(runs, s, old.lastSeen)) \in Nat
          /\ Cardinality(HealthyIn(runs', s, old.lastSeen))
               = Cardinality(HealthyIn(runs, s, old.lastSeen)) + 1
      BY <1>6, <3>3, CommitCounts
    <3>5. new.cycles \in Nat
      BY <2>2, <3>1 DEF MissedJob, JobRow
    <3> QED
      BY <1>1, <2>7, <3>2, <3>3, <3>4, <3>5
  <2>8. CASE k \notin batch[w].seen /\ ~(Live(old) /\ old.lastSeen < r)
    <3>1. new = old /\ Live(old)
      BY <2>1, <2>8
    <3>2. ~(r > old.lastSeen)
      BY <2>2, <2>8, <3>1 DEF JobRow
    <3> QED
      BY <1>2, <1>6, <3>1, <3>2, CommitCounts
  <2> QED
    BY <2>5, <2>6, <2>7, <2>8
<1> QED
  BY <1>3, <1>4, <1>5, <1>6, StepShape

\* Every unit of a live job's missing counter is a healthy run without the job,
\* for any number of crawler processes, crashes, lost answers and administrators
\* (the reconciliation statement and its WHERE last_seen_at < started_at).
THEOREM CountersHaveEvidence == Spec => []MissesHaveRuns
<1>1. Init => MissesHaveRuns
  BY DEF Init, NoJob, Live, MissesHaveRuns
<1>2. PipelineInv /\ MissesHaveRuns /\ [Next]_vars => MissesHaveRuns'
  BY StepMisses
<1> QED
  BY <1>1, <1>2, Invariance, PTL DEF Spec

\* A live job is written off only by an administrator's change of its Job Link,
\* or by a healthy run that declares it closed or is the second one to miss it.
THEOREM ClosuresHaveEvidence == Spec => ClosedOnEvidence
<1> DEFINE Evidence ==
      \A s \in Sources, k \in Keys :
        Live(jobs[s][k]) /\ jobs'[s][k].status = "CLOSED" =>
          \/ sources'[s].url # sources[s].url
          \/ /\ HealthyAfter(s, 0)' # HealthyAfter(s, 0)
             /\ \/ \E w \in Workers :
                     pc[w] = "commit" /\ task[w].source = s /\ k \in batch[w].closed
                \/ Cardinality(HealthyAfter(s, jobs[s][k].lastSeen)') >= 2
<1>1. ASSUME PipelineInv, MissesHaveRuns, [Next]_vars PROVE Evidence
  <2> USE <1>1 DEF PipelineInv
  <2> SUFFICES ASSUME NEW s \in Sources, NEW k \in Keys,
                      Live(jobs[s][k]), jobs'[s][k].status = "CLOSED"
               PROVE  \/ sources'[s].url # sources[s].url
                      \/ /\ HealthyAfter(s, 0)' # HealthyAfter(s, 0)
                         /\ \/ \E w \in Workers :
                                 pc[w] = "commit" /\ task[w].source = s /\ k \in batch[w].closed
                            \/ Cardinality(HealthyAfter(s, jobs[s][k].lastSeen)') >= 2
    OBVIOUS
  <2> DEFINE old == jobs[s][k]
  <2>1. jobs'[s] # jobs[s]
    BY DEF Live
  <2>2. ~QuietStep
    BY <2>1 DEF QuietStep
  <2>3. ASSUME NEW a \in Sources, NEW u \in Urls, UpdateJobLink(a, u), sources[a].url # u
        PROVE  sources'[s].url # sources[s].url
    <3>1. a = s
      BY <2>1, <2>3 DEF UpdateJobLink, TypeOK
    <3> QED
      BY <2>3, <3>1 DEF UpdateJobLink, TypeOK
  <2>4. ASSUME NEW a \in Sources, DeleteJobLink(a) PROVE FALSE
    BY <2>1, <2>4 DEF DeleteJobLink, TypeOK, NoJob
  <2>5. ASSUME NEW w \in Workers, CommitPersist(w)
        PROVE  /\ HealthyAfter(s, 0)' # HealthyAfter(s, 0)
               /\ \/ pc[w] = "commit" /\ task[w].source = s /\ k \in batch[w].closed
                  \/ Cardinality(HealthyAfter(s, old.lastSeen)') >= 2
    <3> DEFINE r == task[w].run
               up == UpsertJob(FALSE, task[w].url, batch[w].at)
    <3>1. s = task[w].source
      BY <2>1, <2>5, CommitShape
    <3>2. /\ r \in RunIds /\ batch[w] \in Batch /\ runs[r].status = "STARTED"
          /\ runs'[r].status = "HEALTHY" /\ runs'[r].source = s
      BY <2>5, <3>1, CommitRun
    <3>3. HealthyAfter(s, 0)' # HealthyAfter(s, 0)
      BY <3>2 DEF HealthyAfter, RunIds
    <3>4. pc[w] = "commit"
      BY <2>5 DEF CommitPersist
    <3>5. CASE k \in batch[w].closed /\ k \in batch[w].seen
      BY <3>1, <3>3, <3>4, <3>5
    <3>6. CASE k \notin batch[w].closed /\ k \in batch[w].seen
      <4>1. jobs'[s][k] = up \/ jobs'[s][k] = MissedJob(up)
        BY <2>5, <3>1, <3>6, CommitShape
      <4>2. batch[w].at \in Nat /\ task[w].url \in Urls \union {None}
        BY <3>2 DEF TypeOK, Task, Batch
      <4>3. up \in JobRow /\ up.status = "ACTIVE" /\ up.cycles = 0
        BY <4>2, UpsertJobFields
      <4> HIDE DEF up
      <4> QED
        BY <4>1, <4>3, MissedJobFields
    <3>7. CASE k \notin batch[w].seen
      <4>1. jobs'[s][k] = MissedJob(old) /\ old.lastSeen < r
        <5>1. jobs'[s][k] = IF Live(old) /\ old.lastSeen < r THEN MissedJob(old) ELSE old
          BY <2>5, <3>1, <3>7, CommitShape
        <5>2. old.status # "CLOSED"
          BY DEF Live
        <5> QED
          BY <5>1, <5>2
      <4>2. old \in JobRow /\ old.cycles \in Nat /\ old.lastSeen \in Nat
        BY DEF TypeOK, JobRow
      <4>8. old.cycles >= 1 /\ jobs'[s][k].lastSeen = old.lastSeen
        <5> HIDE DEF old
        <5> QED
          BY <4>1, <4>2, MissedJobFields
      <4>3. r > old.lastSeen
        BY <3>2, <4>1, <4>2 DEF RunIds
      <4>4. /\ Cardinality(HealthyIn(runs, s, old.lastSeen)) \in Nat
            /\ Cardinality(HealthyIn(runs', s, old.lastSeen))
                 = Cardinality(HealthyIn(runs, s, old.lastSeen)) + 1
        BY <2>5, <3>1, <4>3, CommitCounts
      <4>5. old.cycles <= Cardinality(HealthyIn(runs, s, old.lastSeen))
        BY DEF MissesHaveRuns, HealthyAfter, HealthyIn
      <4>6. Cardinality(HealthyIn(runs', s, old.lastSeen)) >= 2
        BY <4>2, <4>4, <4>5, <4>8
      <4>7. HealthyAfter(s, old.lastSeen)' = HealthyIn(runs', s, old.lastSeen)
        BY <4>8 DEF HealthyAfter, HealthyIn
      <4> QED
        BY <3>3, <4>6, <4>7
    <3> QED
      BY <3>5, <3>6, <3>7
  <2> QED
    BY <2>2, <2>3, <2>4, <2>5, StepShape
<1> QED
  BY <1>1, CountersHaveEvidence, Invariance, PTL DEF Spec, ClosedOnEvidence

-----------------------------------------------------------------------------
(* One crawler process: the counters are exact *)

\* The clock never runs backwards.
LEMMA ClockRuns ==
  ASSUME PipelineInv, [Next]_vars
  PROVE  begun \in Nat /\ begun' \in Nat /\ begun <= begun'
<1> USE DEF PipelineInv
<1>1. begun \in Nat
  BY BoundsAssumption DEF TypeOK
<1>2. CASE UNCHANGED vars
  BY <1>1, <1>2 DEF vars, tables
<1>3. CASE Admin
  BY <1>1, <1>3 DEF Admin, CreateJobLink, UpdateJobLink, PauseJobLink, ResumeJobLink,
     DeleteJobLink, EnqueueCrawlRequest
<1>4. ASSUME NEW w \in Workers, WorkerStep(w) \/ Fault(w) PROVE begun' = begun \/ BeginRun(w)
  BY <1>4, WorkerKeepsRuns
<1>5. ASSUME NEW w \in Workers, BeginRun(w) PROVE begun' = begun + 1
  BY <1>5 DEF BeginRun
<1> QED
  BY <1>1, <1>2, <1>3, <1>4, <1>5 DEF Next

\* A job that is live after a step of anything but a commit is as it was.
LEMMA LiveJobsStay ==
  ASSUME PipelineInv, [Next]_vars, \A w \in Workers : ~CommitPersist(w),
         NEW s \in Sources, NEW k \in Keys
  PROVE  /\ Live(jobs'[s][k]) => jobs'[s][k] = jobs[s][k]
         /\ jobs'[s][k].lastSeen \in {jobs[s][k].lastSeen, 0}
<1> USE DEF PipelineInv
<1>1. CASE QuietStep
  BY <1>1 DEF QuietStep
<1>2. ASSUME NEW a \in Sources,
             \/ DeleteJobLink(a)
             \/ \E u \in Urls : UpdateJobLink(a, u) /\ sources[a].url # u
      PROVE  Live(jobs'[s][k]) => jobs'[s][k] = jobs[s][k]
  BY <1>2, AdminWritesOff
<1>3. ASSUME NEW a \in Sources, DeleteJobLink(a)
      PROVE  jobs'[s][k].lastSeen \in {jobs[s][k].lastSeen, 0}
  BY <1>3 DEF DeleteJobLink, NoJob, TypeOK
<1>4. ASSUME NEW a \in Sources, NEW u \in Urls, UpdateJobLink(a, u), sources[a].url # u
      PROVE  jobs'[s][k].lastSeen = jobs[s][k].lastSeen
  <2>1. jobs'[s][k] = jobs[s][k] \/ jobs'[s][k] = ClosedByAdmin(jobs[s][k])
    BY <1>4 DEF UpdateJobLink, TypeOK
  <2>2. \A job \in JobRow : ClosedByAdmin(job).lastSeen = job.lastSeen
    BY DEF ClosedByAdmin, JobRow
  <2>3. jobs[s][k] \in JobRow
    BY DEF TypeOK
  <2> QED
    BY <2>1, <2>2, <2>3
<1> QED
  BY <1>1, <1>2, <1>3, <1>4, StepShape

\* A run under way was begun in this step, or was under way with the same rows.
LEMMA CrawlGoesOn ==
  ASSUME PipelineInv, NEW w \in Workers, WorkerStep(w) \/ Fault(w),
         pc'[w] \in {"attach", "crawl", "persist", "commit"}
  PROVE  \/ BeginRun(w)
         \/ /\ pc[w] \in {"attach", "crawl", "persist", "commit"}
            /\ UNCHANGED <<task, begun, jobs>>
            /\ pc'[w] = "commit" =>
                 batch'[w].at = begun \/ (pc[w] = "commit" /\ batch' = batch)
<1> USE DEF PipelineInv, TypeOK
<1>1. ~Abort(w) /\ ~Return(w)
  BY DEF Abort, Return, AfterError
<1>2. CASE Poll(w)
  BY <1>2 DEF Poll, PollBlocked, PollEmpty, ClaimRequest, MarkRuntime
<1>3. CASE Cycle(w)
  BY <1>3 DEF Cycle, StartCycle, CycleNotDue, NextSource, EndCycle
<1>4. CASE Crawl(w)
  BY <1>1, <1>4 DEF Crawl, BeginRunFails, AttachRequest, AttachRequestFails, CrawlHealthy,
     CrawlUnhealthy, tables
<1>5. CASE Persist(w)
  <2>1. CASE BeginPersist(w)
    BY <2>1 DEF BeginPersist, tables, Batch
  <2>2. CASE CommitPersist(w) \/ PersistFails(w)
    BY <2>2 DEF CommitPersist, PersistFails
  <2> QED
    BY <1>5, <2>1, <2>2 DEF Persist
<1>6. CASE Finish(w)
  BY <1>1, <1>6 DEF Finish, FinalizeRun, FinalizeRunMissing, FinalizeRunAmbiguous, RecoverRun,
     RecoverRunMissing, RecoverUnreachable, CompleteRequest, CompleteRequestFails,
     CompleteScheduled, FailRequest
<1>7. CASE LoseConnection(w)
  BY <1>7 DEF LoseConnection, tables
<1>8. CASE CrashRestart(w)
  BY <1>8 DEF CrashRestart
<1> QED
  BY <1>2, <1>3, <1>4, <1>5, <1>6, <1>7, <1>8 DEF WorkerStep, Fault

\* With one process, its run stays the last one and its view of jobs current.
LEMMA StepCrawlIsTheLast ==
  ASSUME SoloInv, [Next]_vars, NEW w \in Workers
  PROVE  CrawlIsTheLast(w)'
<1> USE DEF SoloInv
<1>0. Workers = {w}
  BY DEF OneProcess
<1>1. CASE UNCHANGED vars
  BY <1>1 DEF vars, tables, locals, CrawlIsTheLast
<1>2. CASE Admin
  <2>1. UNCHANGED <<pc, task, batch, begun>>
    BY <1>2 DEF Admin, CreateJobLink, UpdateJobLink, PauseJobLink, ResumeJobLink,
       DeleteJobLink, EnqueueCrawlRequest, locals
  <2>3. CASE CommitPersist(w)
    BY <2>1, <2>3, <1>2 DEF CommitPersist, PipelineInv, TypeOK
  <2>4. CASE ~CommitPersist(w)
    BY <1>0, <2>1, <2>4, LiveJobsStay DEF CrawlIsTheLast
  <2> QED
    BY <2>3, <2>4
<1>3. ASSUME WorkerStep(w) \/ Fault(w),
             pc'[w] \in {"attach", "crawl", "persist", "commit"}
      PROVE  CrawlIsTheLast(w)'
  <2>1. CASE BeginRun(w)
    <3>1. begun \in Nat /\ begun' = begun + 1 /\ jobs' = jobs
      BY <2>1, BoundsAssumption DEF BeginRun, PipelineInv, TypeOK
    <3>2. task'[w].run = begun'
      BY <2>1 DEF BeginRun, NewRun, PipelineInv, TypeOK, Task
    <3>3. pc'[w] # "commit"
      BY <2>1 DEF BeginRun, PipelineInv, TypeOK
    <3>4. \A s \in Sources, k \in Keys : jobs[s][k].lastSeen \in Nat
      BY DEF PipelineInv, TypeOK, JobRow
    <3> QED
      BY <3>1, <3>2, <3>3, <3>4 DEF CrawlIsTheLast, ObservationsArePast
  <2>2. CASE ~BeginRun(w)
    BY <1>3, <2>2, CrawlGoesOn DEF CrawlIsTheLast
  <2> QED
    BY <2>1, <2>2
<1>4. CASE pc'[w] \notin {"attach", "crawl", "persist", "commit"}
  BY <1>4 DEF CrawlIsTheLast
<1> QED
  BY <1>0, <1>1, <1>2, <1>3, <1>4 DEF Next

\* What the only process's transaction leaves of each job of its source.
LEMMA SoloCommit ==
  ASSUME SoloInv, NEW w \in Workers, CommitPersist(w), NEW k \in Keys
  PROVE  LET s == task[w].source
             old == jobs[s][k]
             new == jobs'[s][k]
         IN /\ task[w].run = begun /\ begun' = begun
            /\ k \in batch[w].seen /\ k \in batch[w].closed =>
                 new.status = "CLOSED" /\ new.cycles = 2 /\ new.lastSeen = begun
            /\ k \in batch[w].seen /\ k \notin batch[w].closed =>
                 new.status = "ACTIVE" /\ new.cycles = 0 /\ new.lastSeen = begun
            /\ k \notin batch[w].seen /\ Live(old) =>
                 /\ new = MissedJob(old)
                 /\ old.lastSeen < begun
            /\ k \notin batch[w].seen /\ ~Live(old) => new = old
<1> USE DEF SoloInv
<1> DEFINE s == task[w].source
           old == jobs[s][k]
           new == jobs'[s][k]
<1>1. /\ task[w].run = begun /\ batch[w].at = begun
      /\ \A t \in Sources : Live(jobs[t][k]) => jobs[t][k].lastSeen < begun
  BY DEF CommitPersist, CrawlIsTheLast
<1>2. begun' = begun
  BY DEF CommitPersist
<1>3. s \in Sources /\ begun \in Nat
  BY CommitRun, BoundsAssumption DEF PipelineInv, TypeOK
<1>4. ~(begun < begun)
  BY <1>3
<1>5. /\ k \in batch[w].seen /\ k \in batch[w].closed =>
           new = UpsertJob(TRUE, task[w].url, begun)
      /\ k \in batch[w].seen /\ k \notin batch[w].closed =>
           new = UpsertJob(FALSE, task[w].url, begun)
      /\ k \notin batch[w].seen =>
           new = IF Live(old) /\ old.lastSeen < begun THEN MissedJob(old) ELSE old
  BY <1>1, <1>4, CommitShape
<1> QED
  BY <1>1, <1>2, <1>3, <1>5 DEF UpsertJob

\* No observation comes from the future, whatever the step.
LEMMA StepObservations == ASSUME SoloInv, [Next]_vars PROVE ObservationsArePast'
<1> USE DEF SoloInv
<1> SUFFICES ASSUME NEW s \in Sources, NEW k \in Keys PROVE jobs'[s][k].lastSeen <= begun'
  BY DEF ObservationsArePast
<1>1. /\ begun \in Nat /\ begun' \in Nat /\ begun <= begun'
      /\ jobs[s][k].lastSeen \in Nat /\ jobs[s][k].lastSeen <= begun
      /\ jobs[s][k] \in JobRow
  BY ClockRuns DEF PipelineInv, TypeOK, JobRow, ObservationsArePast
<1>2. CASE \A w \in Workers : ~CommitPersist(w)
  <2>1. jobs'[s][k].lastSeen = jobs[s][k].lastSeen \/ jobs'[s][k].lastSeen = 0
    BY <1>2, LiveJobsStay
  <2> QED
    BY <1>1, <2>1
<1>3. ASSUME NEW w \in Workers, CommitPersist(w), s # task[w].source
      PROVE  jobs'[s][k].lastSeen <= begun'
  <2>1. jobs'[s] = jobs[s]
    BY <1>3, CommitShape
  <2> QED
    BY <1>1, <2>1
<1>4. ASSUME NEW w \in Workers, CommitPersist(w), s = task[w].source
      PROVE  jobs'[s][k].lastSeen <= begun'
  <2>1. \/ jobs'[s][k].lastSeen = begun
        \/ jobs'[s][k] = MissedJob(jobs[s][k]) \/ jobs'[s][k] = jobs[s][k]
    BY <1>4, SoloCommit
  <2>2. MissedJob(jobs[s][k]).lastSeen = jobs[s][k].lastSeen
    BY <1>1, MissedJobFields
  <2> QED
    BY <1>1, <2>1, <2>2
<1> QED
  BY <1>2, <1>3, <1>4

\* The counter of a live job and the healthy runs without it move together.
LEMMA StepExact == ASSUME SoloInv, [Next]_vars PROVE MissesAreExact'
<1> USE DEF SoloInv
<1> DEFINE Exact(s, k) == jobs'[s][k].cycles
                            = Cardinality(HealthyIn(runs', s, jobs'[s][k].lastSeen))
<1> SUFFICES ASSUME NEW s \in Sources, NEW k \in Keys, Live(jobs'[s][k]) PROVE Exact(s, k)
  BY DEF MissesAreExact, HealthyAfter, HealthyIn
<1> DEFINE old == jobs[s][k]
           new == jobs'[s][k]
<1>1. Live(old) => old.cycles = Cardinality(HealthyIn(runs, s, old.lastSeen))
  BY DEF MissesAreExact, HealthyAfter, HealthyIn
<1>2. new = old /\ HealthyIn(runs', s, old.lastSeen) = HealthyIn(runs, s, old.lastSeen)
        => Exact(s, k)
  BY <1>1
<1>3. CASE QuietStep
  BY <1>2, <1>3, QuietCounts DEF QuietStep
<1>4. ASSUME NEW a \in Sources,
             \/ DeleteJobLink(a)
             \/ \E u \in Urls : UpdateJobLink(a, u) /\ sources[a].url # u
      PROVE  Exact(s, k)
  BY <1>2, <1>4, AdminWritesOff
<1>5. ASSUME NEW w \in Workers, CommitPersist(w), s # task[w].source PROVE Exact(s, k)
  <2>1. jobs'[s] = jobs[s]
    BY <1>5, CommitShape
  <2>2. HealthyIn(runs', s, old.lastSeen) = HealthyIn(runs, s, old.lastSeen)
    BY <1>5, CommitCounts
  <2> QED
    BY <1>2, <2>1, <2>2
<1>6. ASSUME NEW w \in Workers, CommitPersist(w), s = task[w].source PROVE Exact(s, k)
  <2>1. /\ task[w].run = begun /\ begun' = begun
        /\ k \in batch[w].seen /\ k \in batch[w].closed => new.status = "CLOSED"
        /\ k \in batch[w].seen /\ k \notin batch[w].closed =>
             new.cycles = 0 /\ new.lastSeen = begun
        /\ k \notin batch[w].seen /\ Live(old) => new = MissedJob(old) /\ old.lastSeen < begun
        /\ k \notin batch[w].seen /\ ~Live(old) => new = old
    BY <1>6, SoloCommit
  <2>2. ~(k \in batch[w].seen /\ k \in batch[w].closed) /\ ~(k \notin batch[w].seen /\ ~Live(old))
    BY <2>1 DEF Live
  <2>3. CASE k \in batch[w].seen
    <3>1. HealthyIn(runs', s, begun) = {}
      <4>1. \A r \in RunIds : runs'[r].status = "HEALTHY" => ~(r > begun)
        BY <2>1, StepPipelineInv DEF PipelineInv, FreshIdentities
      <4> QED
        BY <4>1 DEF HealthyIn
    <3> QED
      BY <2>1, <2>2, <2>3, <3>1, FS_EmptySet
  <2>4. CASE k \notin batch[w].seen
    <3>1. /\ Live(old) /\ new = MissedJob(old) /\ old.lastSeen < begun
          /\ begun \in Nat /\ old \in JobRow /\ old.cycles \in Nat /\ old.lastSeen \in Nat
      BY <2>1, <2>2, <2>4, BoundsAssumption DEF PipelineInv, TypeOK, JobRow
    <3>2. task[w].run > old.lastSeen
      BY <2>1, <3>1
    <3>3. /\ Cardinality(HealthyIn(runs, s, old.lastSeen)) \in Nat
          /\ Cardinality(HealthyIn(runs', s, old.lastSeen))
               = Cardinality(HealthyIn(runs, s, old.lastSeen)) + 1
      BY <1>6, <3>2, CommitCounts
    <3>4. new.cycles = old.cycles + 1 /\ new.lastSeen = old.lastSeen
      <4>1. new.status # "CLOSED"
        BY DEF Live
      <4> HIDE DEF old, new
      <4> QED
        BY <3>1, <4>1, MissedJobFields
    <3> QED
      BY <1>1, <3>1, <3>3, <3>4
  <2> QED
    BY <2>3, <2>4
<1> QED
  BY <1>3, <1>4, <1>5, <1>6, StepShape

\* The invariant of one process holds at the start and survives every step.
LEMMA SoloInitially == Init /\ OneProcess => SoloInv
<1> SUFFICES ASSUME Init, OneProcess PROVE SoloInv
  OBVIOUS
<1>1. PipelineInv
  BY InitPipelineInv
<1>2. MissesAreExact /\ ObservationsArePast /\ \A w \in Workers : CrawlIsTheLast(w)
  BY DEF Init, NoJob, Live, MissesAreExact, ObservationsArePast, CrawlIsTheLast
<1> QED
  BY <1>1, <1>2 DEF SoloInv

\* And no step breaks it.
LEMMA StepSoloInv == SoloInv /\ [Next]_vars => SoloInv'
<1> SUFFICES ASSUME SoloInv, [Next]_vars PROVE SoloInv'
  OBVIOUS
<1>1. PipelineInv' /\ OneProcess'
  BY StepPipelineInv DEF SoloInv, OneProcess
<1>2. \A w \in Workers : CrawlIsTheLast(w)'
  BY StepCrawlIsTheLast
<1> QED
  BY <1>1, <1>2, StepObservations, StepExact DEF SoloInv

\* With the daemon alone, the whole invariant the runs check: identities, foreign
\* keys, and a run that sees every live job of its source as older than itself.
THEOREM SoloInvariance == Spec /\ OneProcess => []SoloInv
BY SoloInitially, StepSoloInv, PTL DEF Spec

\* With one process no healthy run that missed a live job goes uncounted, and
\* none is counted twice.
THEOREM CountersAreExact == Spec /\ OneProcess => []MissesAreExact
<1>1. SoloInv => MissesAreExact
  BY DEF SoloInv
<1> QED
  BY <1>1, SoloInvariance, PTL

-----------------------------------------------------------------------------
(* One crawler process: the statements amount to reconcile_job *)

\* The part of a job row the pure rule speaks of.
AsRule(job) == [status |-> job.status, cycles |-> job.cycles]

AllAsRule(rows) == [s \in Sources |-> [k \in Keys |-> AsRule(rows[s][k])]]

\* A step that only touches the jobs of one source.
LEMMA OneSourceChanges ==
  ASSUME NEW before, NEW after, NEW s \in Sources,
         \A t \in Sources \ {s} : after[t] = before[t]
  PROVE  AllAsRule(after) = [AllAsRule(before) EXCEPT ![s] = AllAsRule(after)[s]]
BY DEF AllAsRule

\* A miss, seen by the pure rule.
LEMMA MissIsReconciled ==
  ASSUME NEW job \in JobRow, Live(job)
  PROVE  AsRule(MissedJob(job)) = Lifecycle!ReconcileJob(AsRule(job), FALSE, FALSE)
BY MissedJobFields DEF AsRule, Live, Lifecycle!ReconcileJob, Lifecycle!Live

\* The transaction of the only process is one HealthyCrawl of its source.
LEMMA CommitIsHealthyCrawl ==
  ASSUME SoloInv, NEW w \in Workers, CommitPersist(w), NEW s \in Sources, s = task[w].source
  PROVE  Lifecycle!HealthyCrawl(s)
<1> USE DEF SoloInv
<1> DEFINE seen == batch[w].seen
           closed == batch[w].closed \intersect seen
           rule == [k \in Keys |->
                     Lifecycle!ReconcileJob(AllAsRule(jobs)[s][k], k \in seen, k \in closed)]
<1>1. seen \in SUBSET Keys /\ closed \in SUBSET seen
  BY CommitRun DEF Batch
<1>2. ASSUME NEW k \in Keys
      PROVE  AsRule(jobs'[s][k])
               = Lifecycle!ReconcileJob(AsRule(jobs[s][k]), k \in seen, k \in closed)
  <2> DEFINE old == jobs[s][k]
             new == jobs'[s][k]
  <2> SUFFICES AsRule(new) = Lifecycle!ReconcileJob(AsRule(old), k \in seen, k \in closed)
    OBVIOUS
  <2>1. /\ k \in seen /\ k \in closed => new.status = "CLOSED" /\ new.cycles = 2
        /\ k \in seen /\ k \notin closed => new.status = "ACTIVE" /\ new.cycles = 0
        /\ k \notin seen /\ Live(old) => new = MissedJob(old)
        /\ k \notin seen /\ ~Live(old) => new = old
    BY SoloCommit
  <2>2. old \in JobRow
    BY <1>1 DEF PipelineInv, TypeOK
  <2> HIDE DEF old, new, seen, closed
  <2>3. CASE k \in closed
    BY <1>1, <2>1, <2>3 DEF AsRule, Lifecycle!ReconcileJob, Lifecycle!Closed
  <2>4. CASE k \in seen /\ k \notin closed
    BY <2>1, <2>4 DEF AsRule, Lifecycle!ReconcileJob
  <2>5. CASE k \notin seen /\ Live(old)
    <3>1. AsRule(new) = Lifecycle!ReconcileJob(AsRule(old), FALSE, FALSE)
      BY <2>1, <2>2, <2>5, MissIsReconciled
    <3>2. k \notin closed
      BY <1>1, <2>5
    <3>3. AsRule(old).status \in {"ACTIVE", "VERIFYING"}
      BY <2>5 DEF AsRule, Live
    <3> QED
      BY <2>5, <3>1, <3>2 DEF Lifecycle!ReconcileJob
  <2>6. CASE k \notin seen /\ ~Live(old)
    BY <1>1, <2>1, <2>6 DEF AsRule, Live, Lifecycle!ReconcileJob, Lifecycle!Live
  <2> QED
    BY <2>3, <2>4, <2>5, <2>6
<1>3. \A t \in Sources \ {s} : jobs'[t] = jobs[t]
  <2>1. jobs' = [jobs EXCEPT ![s] = PersistedJobs(w)]
    BY DEF CommitPersist
  <2> QED
    BY <1>1, <2>1 DEF PipelineInv, TypeOK
<1>4. rule = AllAsRule(jobs')[s]
  BY <1>1, <1>2 DEF AllAsRule
<1>5. AllAsRule(jobs') = [AllAsRule(jobs) EXCEPT ![s] = rule]
  <2> HIDE DEF rule
  <2> QED
    BY <1>1, <1>3, <1>4, OneSourceChanges
<1> QED
  BY <1>1, <1>5 DEF Lifecycle!HealthyCrawl, AllAsRule, AsRule

\* Every other step moves a boundary, deletes a source, or changes no job.
LEMMA StepRefinesLifecycle ==
  ASSUME SoloInv, [Next]_vars
  PROVE  Lifecycle!Next \/ jobs' = jobs
<1> USE DEF SoloInv
<1>1. ASSUME NEW w \in Workers, CommitPersist(w) PROVE Lifecycle!Next
  <2>1. PICK s \in Sources : s = task[w].source
    BY <1>1, CommitRun
  <2>2. Lifecycle!HealthyCrawl(s)
    BY <1>1, <2>1, CommitIsHealthyCrawl
  <2> QED
    BY <2>2 DEF Lifecycle!Next
<1>2. ASSUME NEW s \in Sources, DeleteJobLink(s) PROVE Lifecycle!Next
  <2>1. \A k \in Keys : jobs'[s][k] = NoJob
    BY <1>2 DEF DeleteJobLink, PipelineInv, TypeOK
  <2> DEFINE row == [k \in Keys |-> Lifecycle!Absent]
  <2>2. row = AllAsRule(jobs')[s]
    BY <2>1 DEF AllAsRule, Lifecycle!Absent, NoJob, AsRule
  <2>3. AllAsRule(jobs') = [AllAsRule(jobs) EXCEPT ![s] = row]
    <3>1. \A t \in Sources \ {s} : jobs'[t] = jobs[t]
      BY <1>2 DEF DeleteJobLink, PipelineInv, TypeOK
    <3> HIDE DEF row
    <3> QED
      BY <2>2, <3>1, OneSourceChanges
  <2>4. Lifecycle!SourceDeleted(s)
    BY <2>3 DEF Lifecycle!SourceDeleted, AllAsRule, AsRule
  <2> QED
    BY <2>4 DEF Lifecycle!Next
<1>3. ASSUME NEW s \in Sources, NEW u \in Urls, UpdateJobLink(s, u), sources[s].url # u
      PROVE  Lifecycle!Next
  <2> DEFINE rule == [k \in Keys |-> IF Lifecycle!Live(AllAsRule(jobs)[s][k])
                                     THEN Lifecycle!Closed ELSE AllAsRule(jobs)[s][k]]
  <2>1. \A k \in Keys : jobs'[s][k] = ClosedByAdmin(jobs[s][k])
    BY <1>3 DEF UpdateJobLink, PipelineInv, TypeOK
  <2>2. \A job \in JobRow :
          AsRule(ClosedByAdmin(job))
            = IF Lifecycle!Live(AsRule(job)) THEN Lifecycle!Closed ELSE AsRule(job)
    BY DEF AsRule, ClosedByAdmin, Live, JobRow, Lifecycle!Live, Lifecycle!Closed
  <2>3. \A k \in Keys : jobs[s][k] \in JobRow
    BY DEF PipelineInv, TypeOK
  <2>4. rule = AllAsRule(jobs')[s]
    BY <2>1, <2>2, <2>3 DEF AllAsRule
  <2>5. AllAsRule(jobs') = [AllAsRule(jobs) EXCEPT ![s] = rule]
    <3>1. \A t \in Sources \ {s} : jobs'[t] = jobs[t]
      BY <1>3 DEF UpdateJobLink, PipelineInv, TypeOK
    <3> HIDE DEF rule
    <3> QED
      BY <2>4, <3>1, OneSourceChanges
  <2>6. Lifecycle!BoundaryMoved(s)
    BY <2>5 DEF Lifecycle!BoundaryMoved, AllAsRule, AsRule
  <2> QED
    BY <2>6 DEF Lifecycle!Next
<1> QED
  BY <1>1, <1>2, <1>3, StepShape DEF QuietStep

\* With one process the pipeline implements the pure rule reconcile_job: every
\* step is a healthy crawl of one source by that rule, an administrator's
\* operation on its jobs, or leaves statuses and counters alone.
THEOREM LifecycleRefined == Spec /\ OneProcess => RefinesLifecycle
<1>1. Init => Lifecycle!Init
  BY DEF Init, NoJob, Lifecycle!Init, Lifecycle!Absent
<1>2. ASSUME SoloInv, [Next]_vars
      PROVE  [Lifecycle!Next]_([s \in Sources |-> [k \in Keys |->
                [status |-> jobs[s][k].status, cycles |-> jobs[s][k].cycles]]])
  BY <1>2, StepRefinesLifecycle
<1> QED
  BY <1>1, <1>2, SoloInvariance, PTL DEF Spec, RefinesLifecycle, Lifecycle!Spec

-----------------------------------------------------------------------------
(* Requests and runs: what one step of a crawler process does to them *)

\* Where the request has no run yet, and where a process has no request to write.
Early == {"claimed", "begin", "attach"}
Aside == Early \union {"failing"}

\* Nothing is written; the process keeps its request and run or lets go of both.
WritesNothing(w) ==
  /\ UNCHANGED <<requests, runs, begun>>
  /\ \/ task'[w].req = None /\ task'[w].run = None
     \/ /\ task'[w] = task[w]
        /\ pc'[w] \in {"attach", "crawl"} => pc'[w] = pc[w]
        /\ pc'[w] \in Early => pc[w] \in Early
        /\ pc'[w] \notin Aside => pc[w] \notin Aside

Claims(w, q) ==
  /\ UNCHANGED <<runs, begun>>
  /\ requests[q].status = "PENDING"
  /\ requests' = [requests EXCEPT ![q] = ClaimedRow(requests[q])]
  /\ task'[w].req = q /\ task'[w].run = None /\ pc'[w] = "claimed"

Begins(w) ==
  /\ begun + 1 \in RunIds /\ begun' = begun + 1 /\ task[w].source \in Sources
  /\ runs[begun + 1].status = "NONE" /\ runs[begun + 1].source = None
  /\ runs' = [runs EXCEPT ![begun + 1] = [status |-> "STARTED", source |-> task[w].source]]
  /\ requests' = requests
  /\ task'[w].req = task[w].req /\ task'[w].run = begun + 1
  /\ pc[w] = "begin"
  /\ pc'[w] = IF task[w].req = None THEN "crawl" ELSE "attach"

Attaches(w) ==
  /\ UNCHANGED <<runs, begun>>
  /\ task'[w] = task[w] /\ task[w].req \in ReqIds /\ task[w].run \in RunIds
  /\ pc[w] = "attach" /\ pc'[w] = "crawl"
  /\ requests' = [requests EXCEPT ![task[w].req].run =
                    IF requests[task[w].req].status = "RUNNING" THEN task[w].run ELSE @]

Decides(w, outcome) ==
  /\ UNCHANGED <<requests, begun>>
  /\ task'[w] = task[w] /\ task[w].run \in RunIds
  /\ pc[w] \in {"finalize", "commit", "recover"} /\ pc'[w] \in {"complete", "recover"}
  /\ runs' = Finished(task[w].run, outcome)

Completes(w) ==
  /\ UNCHANGED <<runs, begun>>
  /\ pc[w] = "complete" /\ task[w].req \in ReqIds /\ task[w].run \in RunIds
  /\ requests' = [requests EXCEPT ![task[w].req] = CompletedRow(@, task[w].run)]
  /\ task'[w].req = None /\ task'[w].run = None

Fails(w) ==
  /\ UNCHANGED <<runs, begun>>
  /\ pc[w] = "failing" /\ task[w].req \in ReqIds
  /\ requests' = [requests EXCEPT ![task[w].req] = FailedRow(@)]
  /\ task'[w].req = None /\ task'[w].run = None

\* Marking the requests of paused Job Links succeeds only when there are none:
\* a PENDING request was never started, so it must not be finished.
LEMMA MarkingMarksNone ==
  ASSUME QueueInv, MarkSucceeds PROVE MarkedInactive = requests
<1>1. requests \in [ReqIds -> RequestRow]
  BY DEF QueueInv, PipelineInv, TypeOK
<1>2. ASSUME NEW q \in ReqIds PROVE q \notin InactivePending
  <2> SUFFICES ASSUME q \in InactivePending PROVE FALSE
    OBVIOUS
  <2>1. MarkedInactive[q] = [requests[q] EXCEPT !.status = "FAILED", !.finished = TRUE]
    BY DEF MarkedInactive
  <2>2. MarkedInactive[q].finished /\ MarkedInactive[q].started = requests[q].started
    BY <1>1, <2>1 DEF RequestRow
  <2>3. ~requests[q].started
    BY DEF InactivePending, QueueInv, RequestsFollowTheirRuns
  <2> QED
    BY <2>2, <2>3 DEF MarkSucceeds, FinishedAfterStart
<1>3. InactivePending = {}
  BY <1>2 DEF InactivePending
<1> QED
  BY <1>1, <1>3 DEF MarkedInactive

\* Every step of a process is one of these.
LEMMA WorkerShape ==
  ASSUME QueueInv, NEW w \in Workers, WorkerStep(w) \/ Fault(w)
  PROVE  \/ WritesNothing(w)
         \/ \E q \in ReqIds : Claims(w, q)
         \/ Begins(w) \/ Attaches(w) \/ Completes(w) \/ Fails(w)
         \/ \E outcome \in {"HEALTHY", "UNHEALTHY"} : Decides(w, outcome)
<1> USE DEF QueueInv, PipelineInv
<1>1. /\ task \in [Workers -> Task] /\ pc \in [Workers -> Pc]
      /\ requests \in [ReqIds -> RequestRow]
  BY DEF TypeOK
<1>2. /\ pc[w] \in {"attach", "failing"} => task[w].req \in ReqIds
      /\ pc[w] \in {"attach", "finalize", "commit", "recover", "complete"}
           => task[w].run \in RunIds
      /\ pc[w] = "begin" => task[w].source \in Sources
  BY <1>1 DEF TaskOwnsRows, KnowsItsRows, Task
<1>3. NoTask.req = None /\ NoTask.run = None
  BY DEF NoTask
<1>4. CASE PollBlocked(w) \/ CycleNotDue(w)
  BY <1>1, <1>4 DEF PollBlocked, CycleNotDue, WritesNothing, tables, Early, Aside
<1>5. CASE PollEmpty(w)
  BY <1>1, <1>5, MarkingMarksNone DEF PollEmpty, WritesNothing, Early, Aside
<1>6. CASE ClaimRequest(w)
  <2>1. PICK q \in Oldest(Claimable) :
          /\ requests' = [MarkedInactive EXCEPT ![q] = ClaimedRow(requests[q])]
          /\ task' = [task EXCEPT ![w] = [source |-> requests[q].source,
                                          url |-> sources[requests[q].source].url,
                                          req |-> q, run |-> None]]
    BY <1>6 DEF ClaimRequest
  <2>2. q \in ReqIds /\ requests[q].status = "PENDING"
    BY DEF Oldest, Claimable
  <2>3. MarkedInactive = requests /\ pc' = [pc EXCEPT ![w] = "claimed"]
    BY <1>6, MarkingMarksNone DEF ClaimRequest
  <2>4. task'[w].req = q /\ task'[w].run = None /\ pc'[w] = "claimed"
    BY <1>1, <2>1, <2>3
  <2>5. UNCHANGED <<runs, begun>>
    BY <1>6 DEF ClaimRequest
  <2>6. Claims(w, q)
    BY <2>1, <2>2, <2>3, <2>4, <2>5 DEF Claims
  <2> QED
    BY <2>2, <2>6
<1>7. CASE MarkRuntime(w)
  BY <1>1, <1>3, <1>7 DEF MarkRuntime, WritesNothing, tables, Early, Aside
<1>8. CASE StartCycle(w) \/ NextSource(w) \/ EndCycle(w)
  BY <1>1, <1>8 DEF StartCycle, NextSource, EndCycle, WritesNothing, tables, Early, Aside
<1>9. CASE BeginRun(w)
  <2>1. begun + 1 \in RunIds
    BY <1>9, BoundsAssumption DEF BeginRun, TypeOK, RunIds
  <2>2. runs[begun + 1].status = "NONE" /\ runs[begun + 1].source = None
    BY <2>1, BoundsAssumption DEF TypeOK, FreshIdentities, RunIds
  <2> QED
    BY <1>1, <1>2, <1>9, <2>1, <2>2 DEF BeginRun, Begins, NewRun, Task
<1>10. CASE Return(w) \/ Abort(w)
  <2>1. Return(w)
    BY <1>10 DEF Abort
  <2>2. CASE task[w].req = None
    BY <1>1, <1>3, <2>1, <2>2 DEF Return, tables, WritesNothing
  <2>3. CASE task[w].req # None
    BY <1>1, <2>1, <2>3 DEF Return, AfterError, tables, WritesNothing, Early, Aside
  <2> QED
    BY <2>2, <2>3
<1>11. CASE AttachRequest(w)
  BY <1>1, <1>2, <1>11 DEF AttachRequest, Attaches
<1>12. CASE CrawlHealthy(w) \/ CrawlUnhealthy(w) \/ BeginPersist(w) \/ PersistFails(w)
  BY <1>1, <1>12
     DEF CrawlHealthy, CrawlUnhealthy, BeginPersist, PersistFails, WritesNothing, tables,
         Early, Aside
<1>13. CASE FinalizeRun(w) \/ RecoverRun(w)
  BY <1>1, <1>2, <1>13 DEF FinalizeRun, RecoverRun, Decides
<1>14. CASE FinalizeRunAmbiguous(w)
  BY <1>1, <1>2, <1>14 DEF FinalizeRunAmbiguous, Decides, WritesNothing, Early, Aside
<1>15. CASE CommitPersist(w)
  BY <1>1, <1>2, <1>15 DEF CommitPersist, Decides
<1>16. CASE CompleteRequest(w)
  <2>1. task[w].req \in ReqIds
    BY <1>1, <1>16 DEF CompleteRequest, Task
  <2> QED
    BY <1>1, <1>2, <1>3, <1>16, <2>1 DEF CompleteRequest, Completes
<1>17. CASE CompleteScheduled(w)
  BY <1>1, <1>3, <1>17 DEF CompleteScheduled, WritesNothing, tables
<1>18. CASE FailRequest(w)
  <2>1. CASE conn[w]
    BY <1>1, <1>2, <1>3, <1>18, <2>1 DEF FailRequest, Fails
  <2>2. CASE ~conn[w]
    BY <1>1, <1>3, <1>18, <2>2 DEF FailRequest, WritesNothing
  <2> QED
    BY <2>1, <2>2
<1>19. CASE Fault(w)
  BY <1>1, <1>3, <1>19
     DEF Fault, LoseConnection, CrashRestart, WritesNothing, tables, Early, Aside
<1>20. CASE Poll(w)
  BY <1>4, <1>5, <1>6, <1>7, <1>20 DEF Poll
<1>21. CASE Cycle(w)
  BY <1>4, <1>8, <1>21 DEF Cycle
<1>22. CASE Crawl(w)
  BY <1>9, <1>10, <1>11, <1>12, <1>22 DEF Crawl, BeginRunFails, AttachRequestFails
<1>23. CASE Persist(w)
  BY <1>12, <1>15, <1>23 DEF Persist
<1>24. CASE Finish(w)
  BY <1>10, <1>13, <1>14, <1>16, <1>17, <1>18, <1>24
     DEF Finish, FinalizeRunMissing, RecoverRunMissing, RecoverUnreachable, CompleteRequestFails
<1> QED
  BY <1>19, <1>20, <1>21, <1>22, <1>23, <1>24 DEF WorkerStep

-----------------------------------------------------------------------------
(* Requests and runs: their invariant *)

\* What the queue invariant says of one process, under a name of its own.
Carries(w) ==
  task[w].req # None /\ requests[task[w].req].status = "RUNNING" =>
    /\ pc[w] \in Early => requests[task[w].req].run = None
    /\ pc[w] \notin Aside => requests[task[w].req].run = task[w].run

Owns(w) ==
  task[w].run # None =>
    /\ \A v \in Workers \ {w} : task[v].run # task[w].run
    /\ \A q \in ReqIds : requests[q].run = task[w].run => task[w].req = q
    /\ pc[w] \in {"attach", "crawl"} => runs[task[w].run].status \in {"STARTED", "DELETED"}

WaitingIsBlank(q) ==
  requests[q].status = "PENDING" =>
    ~requests[q].started /\ ~requests[q].finished /\ requests[q].run = None

\* The invariant, process by process and request by request.
LEMMA QueueInvParts ==
  QueueInv <=> /\ PipelineInv
               /\ \A q \in ReqIds : WaitingIsBlank(q)
               /\ \A w \in Workers : Carries(w)
               /\ NamedRunsAreBegun
               /\ \A w \in Workers : Owns(w)
               /\ OneOutstanding
BY DEF QueueInv, RequestsFollowTheirRuns, RunsHaveOneOwner, Carries, Owns, WaitingIsBlank,
       Early, Aside

\* What a request reads after the statements of a crawler process.
LEMMA RequestAfter ==
  ASSUME QueueInv, NEW w \in Workers, WorkerStep(w) \/ Fault(w), NEW q \in ReqIds
  PROVE  /\ requests'[q].status = "PENDING" => requests'[q] = requests[q]
         /\ requests'[q].status = "RUNNING" =>
              requests[q].status = "RUNNING" \/ (Claims(w, q) /\ requests'[q].run = None)
         /\ requests'[q].source = requests[q].source
         /\ task[w].req # q /\ task'[w].req # q => requests'[q] = requests[q]
         /\ \/ requests'[q].run = requests[q].run
            \/ task[w].req = q /\ requests'[q].run = task[w].run /\ task[w].run \in RunIds
<1> USE DEF QueueInv, PipelineInv
<1>1. requests \in [ReqIds -> RequestRow]
  BY DEF TypeOK
<1>2. CASE requests' = requests
  BY <1>2
<1>3. ASSUME NEW p \in ReqIds, Claims(w, p)
      PROVE  /\ requests'[q] = IF q = p THEN ClaimedRow(requests[q]) ELSE requests[q]
             /\ q = p => requests[q].run = None
  BY <1>1, <1>3 DEF Claims, RequestsFollowTheirRuns
<1>4. ASSUME NEW p \in ReqIds, Claims(w, p) PROVE task'[w].req = p
  BY <1>4 DEF Claims
<1>5. /\ ClaimedRow(requests[q]).run = requests[q].run
      /\ ClaimedRow(requests[q]).source = requests[q].source
      /\ ClaimedRow(requests[q]).status = "RUNNING"
  BY <1>1 DEF ClaimedRow, RequestRow
<1>6. CASE \E p \in ReqIds : Claims(w, p)
  <2>1. PICK p \in ReqIds : Claims(w, p)
    BY <1>6
  <2>2. CASE q = p
    BY <1>3, <1>4, <1>5, <2>1, <2>2
  <2>3. CASE q # p
    BY <1>3, <1>4, <1>5, <2>1, <2>3
  <2> QED
    BY <2>2, <2>3
<1>7. CASE Attaches(w)
  <2>1. CASE q = task[w].req
    BY <1>1, <1>7, <2>1 DEF Attaches, RequestRow, RequestsFollowTheirRuns
  <2>2. CASE q # task[w].req
    BY <1>1, <1>7, <2>2 DEF Attaches
  <2> QED
    BY <2>1, <2>2
<1>8. CASE Completes(w)
  <2>1. CASE q = task[w].req
    BY <1>1, <1>8, <2>1 DEF Completes, CompletedRow, RequestRow
  <2>2. CASE q # task[w].req
    BY <1>1, <1>8, <2>2 DEF Completes
  <2> QED
    BY <2>1, <2>2
<1>9. CASE Fails(w)
  <2>1. CASE q = task[w].req
    BY <1>1, <1>9, <2>1 DEF Fails, FailedRow, RequestRow
  <2>2. CASE q # task[w].req
    BY <1>1, <1>9, <2>2 DEF Fails
  <2> QED
    BY <2>1, <2>2
<1> QED
  BY <1>2, <1>6, <1>7, <1>8, <1>9, WorkerShape DEF WritesNothing, Begins, Decides

\* Where a process's request and run come from.
LEMMA TaskAfter ==
  ASSUME QueueInv, NEW w \in Workers, WorkerStep(w) \/ Fault(w)
  PROVE  /\ \/ task'[w].req \in {None, task[w].req}
            \/ Claims(w, task'[w].req) /\ task'[w].req \in ReqIds
         /\ \/ task'[w].run = None
            \/ task'[w].run = task[w].run /\ task'[w].req = task[w].req /\ begun' = begun
            \/ Begins(w)
BY WorkerShape DEF WritesNothing, Claims, Begins, Attaches, Completes, Fails, Decides

\* The process that takes the step still carries its request as it should.
LEMMA WorkerStillCarries ==
  ASSUME QueueInv, NEW w \in Workers, WorkerStep(w) \/ Fault(w) PROVE Carries(w)'
<1> USE DEF QueueInv, PipelineInv
<1>1. Carries(w) /\ requests \in [ReqIds -> RequestRow] /\ task[w] \in Task
  BY QueueInvParts DEF TypeOK
<1>2. CASE WritesNothing(w)
  BY <1>1, <1>2 DEF WritesNothing, Carries
<1>3. ASSUME NEW q \in ReqIds, Claims(w, q) PROVE Carries(w)'
  <2>1. requests[q].run = None /\ requests'[q].run = requests[q].run
    BY <1>1, <1>3 DEF Claims, RequestsFollowTheirRuns, ClaimedRow, RequestRow
  <2> QED
    BY <1>3, <2>1 DEF Claims, Carries, Early, Aside
<1>4. CASE Begins(w)
  BY <1>1, <1>4 DEF Begins, Carries, Early, Aside
<1>5. CASE Attaches(w)
  <2>1. task'[w] = task[w] /\ pc'[w] = "crawl" /\ task[w].req \in ReqIds
    BY <1>5 DEF Attaches
  <2>2. requests'[task[w].req].status = "RUNNING" => requests'[task[w].req].run = task[w].run
    BY <1>1, <1>5 DEF Attaches, RequestRow
  <2> QED
    BY <2>1, <2>2 DEF Carries, Early
<1>6. CASE Completes(w) \/ Fails(w)
  BY <1>6 DEF Completes, Fails, Carries
<1>7. ASSUME NEW o \in {"HEALTHY", "UNHEALTHY"}, Decides(w, o) PROVE Carries(w)'
  BY <1>1, <1>7 DEF Decides, Carries, Early, Aside
<1> QED
  BY <1>2, <1>3, <1>4, <1>5, <1>6, <1>7, WorkerShape

\* So does every other process: its request is not the one that is written.
LEMMA OthersStillCarry ==
  ASSUME QueueInv, NEW w \in Workers, WorkerStep(w) \/ Fault(w), NEW v \in Workers \ {w}
  PROVE  Carries(v)'
<1> USE DEF QueueInv, PipelineInv
<1>1. task'[v] = task[v] /\ pc'[v] = pc[v]
  BY WorkerKeepsOthers DEF OthersKept
<1>2. CASE task[v].req = None
  BY <1>1, <1>2 DEF Carries
<1>3. CASE task[v].req # None
  <2> DEFINE q == task[v].req
  <2>1. q \in ReqIds
    BY <1>3 DEF TypeOK, Task
  <2>2. requests[q].status \in {"RUNNING", "DELETED"} /\ task[w].req # q
    BY <1>3 DEF ClaimsAreExclusive
  <2>3. task'[w].req # q
    BY <1>3, <2>2, TaskAfter DEF Claims
  <2>4. requests'[q] = requests[q]
    BY <2>1, <2>2, <2>3, RequestAfter
  <2> QED
    BY <1>1, <2>4, QueueInvParts DEF Carries
<1> QED
  BY <1>2, <1>3

\* A process owns its run alone after its step.
LEMMA WorkerStillOwns ==
  ASSUME QueueInv, NEW w \in Workers, WorkerStep(w) \/ Fault(w) PROVE Owns(w)'
<1> USE DEF QueueInv, PipelineInv
<1>1. \A v \in Workers \ {w} : task'[v] = task[v]
  BY WorkerKeepsOthers DEF OthersKept
<1>2. CASE task'[w].run = None
  BY <1>2 DEF Owns
<1>3. CASE Begins(w)
  <2>1. task'[w].run = begun + 1 /\ requests' = requests /\ begun \in Nat
    BY <1>3, BoundsAssumption DEF Begins, TypeOK
  <2>2. \A v \in Workers \ {w} : task[v].run # begun + 1
    <3>1. \A v \in Workers : task[v].run = None \/ (task[v].run \in Nat /\ task[v].run <= begun)
      BY DEF NamedRunsAreBegun, TypeOK, Task, RunIds
    <3> QED
      BY <1>3, <2>1, <3>1, NoneAssumption DEF Begins
  <2>3. \A q \in ReqIds : requests[q].run # begun + 1
    <3>1. \A q \in ReqIds : requests[q].run = None
                             \/ (requests[q].run \in Nat /\ requests[q].run <= begun)
      BY DEF NamedRunsAreBegun, TypeOK, RequestRow, RunIds
    <3> QED
      BY <1>3, <2>1, <3>1, NoneAssumption DEF Begins
  <2>4. runs'[begun + 1].status = "STARTED"
    BY <1>3 DEF Begins, TypeOK
  <2> QED
    BY <1>1, <2>1, <2>2, <2>3, <2>4 DEF Owns
<1>4. CASE task'[w].run = task[w].run /\ task[w].run # None /\ task'[w].req = task[w].req
  <2>1. Owns(w)
    BY QueueInvParts
  <2>2. \A q \in ReqIds : requests'[q].run = task[w].run => task[w].req = q
    BY <1>4, <2>1, RequestAfter DEF Owns
  <2>3. pc'[w] \in {"attach", "crawl"} => runs'[task[w].run].status \in {"STARTED", "DELETED"}
    <3>1. CASE WritesNothing(w)
      BY <1>4, <2>1, <3>1 DEF WritesNothing, Owns
    <3>2. CASE Attaches(w)
      BY <1>4, <2>1, <3>2 DEF Attaches, Owns
    <3>3. CASE Begins(w)
      BY <1>3, <1>4, <3>3 DEF Owns
    <3> QED
      BY <1>4, <3>1, <3>2, <3>3, WorkerShape DEF Claims, Completes, Fails, Decides
  <2> QED
    BY <1>1, <1>4, <2>1, <2>2, <2>3 DEF Owns
<1> QED
  BY <1>2, <1>3, <1>4, TaskAfter

\* And so does every other process.
LEMMA OthersStillOwn ==
  ASSUME QueueInv, NEW w \in Workers, WorkerStep(w) \/ Fault(w), NEW v \in Workers \ {w}
  PROVE  Owns(v)'
<1> USE DEF QueueInv, PipelineInv
<1>1. /\ \A u \in Workers \ {w} : task'[u] = task[u]
      /\ pc'[v] = pc[v]
  BY WorkerKeepsOthers DEF OthersKept
<1> SUFFICES ASSUME task[v].run # None PROVE Owns(v)'
  BY <1>1 DEF Owns
<1> DEFINE r == task[v].run
<1>2. Owns(v) /\ r \in RunIds /\ r <= begun
  BY QueueInvParts DEF TypeOK, Task, NamedRunsAreBegun
<1>3. task[w].run # r
  BY <1>2 DEF Owns
<1>4. Begins(w) => begun + 1 # r
  BY <1>2, BoundsAssumption DEF TypeOK, RunIds
<1>5. task'[w].run # r
  BY <1>3, <1>4, TaskAfter DEF Begins
<1>6. \A q \in ReqIds : requests'[q].run = r => task[v].req = q
  BY <1>2, <1>3, RequestAfter DEF Owns
<1>7. runs'[r] = runs[r]
  <2>1. runs \in [RunIds -> RunRow]
    BY DEF TypeOK
  <2>2. CASE Begins(w)
    BY <1>2, <1>4, <2>1, <2>2 DEF Begins
  <2>3. ASSUME NEW o \in {"HEALTHY", "UNHEALTHY"}, Decides(w, o) PROVE runs'[r] = runs[r]
    BY <1>2, <1>3, <2>1, <2>3 DEF Decides, Finished
  <2> QED
    BY <2>2, <2>3, WorkerShape DEF WritesNothing, Claims, Attaches, Completes, Fails
<1>8. \A u \in Workers \ {v} : task'[u].run # r
  BY <1>1, <1>2, <1>5 DEF Owns
<1> QED
  BY <1>1, <1>2, <1>6, <1>7, <1>8 DEF Owns

\* A process's step keeps the queue invariant.
LEMMA WorkerKeepsQueue ==
  ASSUME QueueInv, NEW w \in Workers, WorkerStep(w) \/ Fault(w) PROVE QueueInv'
<1> USE DEF PipelineInv
<1>1. PipelineInv /\ PipelineInv'
  BY StepPipelineInv DEF QueueInv, Next
<1>2. \A q \in ReqIds : WaitingIsBlank(q)'
  BY RequestAfter, QueueInvParts DEF WaitingIsBlank
<1>3. \A v \in Workers : Carries(v)' /\ Owns(v)'
  BY WorkerStillCarries, OthersStillCarry, WorkerStillOwns, OthersStillOwn
<1>4. NamedRunsAreBegun'
  <2>1. begun \in Nat /\ begun' \in Nat /\ begun <= begun'
    BY <1>1, ClockRuns DEF Next
  <2>2. \A v \in Workers : task[v].run # None => task[v].run \in Nat /\ task[v].run <= begun
    BY <1>1 DEF QueueInv, NamedRunsAreBegun, TypeOK, Task, RunIds
  <2>3. \A q \in ReqIds : requests[q].run # None =>
          requests[q].run \in Nat /\ requests[q].run <= begun
    BY <1>1 DEF QueueInv, NamedRunsAreBegun, TypeOK, RequestRow, RunIds
  <2>4. \A q \in ReqIds : requests'[q].run # None => requests'[q].run <= begun'
    <3> TAKE q \in ReqIds
    <3>1. \/ requests'[q].run = requests[q].run
          \/ requests'[q].run = task[w].run
      BY RequestAfter
    <3> QED
      BY <2>1, <2>2, <2>3, <3>1
  <2>5. \A v \in Workers : task'[v].run # None => task'[v].run <= begun'
    <3> TAKE v \in Workers
    <3>1. CASE v = w
      <4>1. CASE Begins(w)
        BY <2>1, <3>1, <4>1 DEF Begins
      <4> QED
        BY <2>1, <2>2, <3>1, <4>1, TaskAfter
    <3>2. CASE v # w
      <4>1. task'[v] = task[v]
        BY <1>1, <3>2, WorkerKeepsOthers DEF OthersKept
      <4> QED
        BY <2>1, <2>2, <4>1
    <3> QED
      BY <3>1, <3>2
  <2> QED
    BY <2>4, <2>5 DEF NamedRunsAreBegun
<1>5. OneOutstanding'
  <2>1. \A q \in ReqIds : /\ requests'[q].status \in {"PENDING", "RUNNING"}
                              => requests[q].status \in {"PENDING", "RUNNING"}
                          /\ requests'[q].source = requests[q].source
    BY RequestAfter DEF Claims
  <2> QED
    BY <2>1 DEF QueueInv, OneOutstanding
<1>6. QueueInv' <=> /\ PipelineInv'
                    /\ \A q \in ReqIds : WaitingIsBlank(q)'
                    /\ \A v \in Workers : Carries(v)' /\ Owns(v)'
                    /\ NamedRunsAreBegun'
                    /\ OneOutstanding'
  BY DEF QueueInv, RequestsFollowTheirRuns, RunsHaveOneOwner, Carries, Owns, WaitingIsBlank,
         Early, Aside
<1> QED
  BY <1>1, <1>2, <1>3, <1>4, <1>5, <1>6

\* So does an administrator's operation.
LEMMA AdminKeepsQueue == ASSUME QueueInv, Admin PROVE QueueInv'
<1> USE DEF PipelineInv
<1>1. PipelineInv /\ PipelineInv'
  BY StepPipelineInv DEF QueueInv, Next
<1>2. /\ requests \in [ReqIds -> RequestRow] /\ runs \in [RunIds -> RunRow]
      /\ asked \in Nat /\ asked <= MaxRequests
  BY <1>1, BoundsAssumption DEF TypeOK
<1>3. UNCHANGED <<begun, pc, task>>
  BY DEF Admin, CreateJobLink, UpdateJobLink, PauseJobLink, ResumeJobLink, DeleteJobLink,
         EnqueueCrawlRequest, locals
<1> PICK s \in Sources :
      \/ \E u \in Urls : CreateJobLink(s, u) \/ UpdateJobLink(s, u)
      \/ PauseJobLink(s) \/ ResumeJobLink(s) \/ DeleteJobLink(s)
      \/ EnqueueCrawlRequest(s)
  BY DEF Admin
<1>4. CASE UNCHANGED <<requests, runs>>
  BY <1>1, <1>3, <1>4
     DEF QueueInv, RequestsFollowTheirRuns, NamedRunsAreBegun, RunsHaveOneOwner, OneOutstanding
<1>5. CASE DeleteJobLink(s)
  <2>1. \A q \in ReqIds :
          /\ requests'[q].status \in {requests[q].status, "DELETED"}
          /\ requests'[q].run = requests[q].run /\ requests'[q].source = requests[q].source
          /\ requests'[q].started = requests[q].started
          /\ requests'[q].finished = requests[q].finished
    BY <1>2, <1>5 DEF DeleteJobLink, RequestRow
  <2>2. \A r \in RunIds : runs'[r].status \in {runs[r].status, "DELETED"}
    BY <1>2, <1>5 DEF DeleteJobLink, RunRow
  <2>3. \A w \in Workers : /\ task[w].run \in RunIds \union {None}
                           /\ task[w].req \in ReqIds \union {None}
    BY <1>1 DEF TypeOK, Task
  <2>4. RequestsFollowTheirRuns'
    BY <1>3, <2>1, <2>3 DEF QueueInv, RequestsFollowTheirRuns
  <2>5. NamedRunsAreBegun'
    BY <1>3, <2>1 DEF QueueInv, NamedRunsAreBegun
  <2>6. RunsHaveOneOwner'
    BY <1>3, <2>1, <2>2, <2>3 DEF QueueInv, RunsHaveOneOwner
  <2>7. OneOutstanding'
    BY <2>1 DEF QueueInv, OneOutstanding
  <2> QED
    BY <1>1, <2>4, <2>5, <2>6, <2>7 DEF QueueInv
<1>6. CASE EnqueueCrawlRequest(s)
  <2> DEFINE n == asked + 1
  <2>1. n \in ReqIds /\ requests[n].status = "NONE"
    BY <1>1, <1>2, <1>6, BoundsAssumption DEF EnqueueCrawlRequest, ReqIds, FreshIdentities
  <2>2. /\ \A q \in ReqIds \ {n} : requests'[q] = requests[q]
        /\ requests'[n] = [NoRequest EXCEPT !.status = "PENDING", !.source = s]
        /\ runs' = runs
    BY <1>2, <1>6, <2>1 DEF EnqueueCrawlRequest
  <2>3. /\ requests'[n].status = "PENDING" /\ requests'[n].source = s
        /\ requests'[n].run = None /\ ~requests'[n].started /\ ~requests'[n].finished
    BY <2>2 DEF NoRequest
  <2>4. \A w \in Workers : /\ task[w].run \in RunIds \union {None}
                           /\ task[w].req \in ReqIds \union {None}
    BY <1>1 DEF TypeOK, Task
  <2>5. \A w \in Workers : task[w].req # None => requests'[task[w].req] = requests[task[w].req]
    BY <1>1, <2>1, <2>2, <2>4 DEF ClaimsAreExclusive
  <2> HIDE DEF n
  <2>6. RequestsFollowTheirRuns'
    <3>1. \A q \in ReqIds : requests'[q].status = "PENDING" =>
            ~requests'[q].started /\ ~requests'[q].finished /\ requests'[q].run = None
      BY <2>2, <2>3 DEF QueueInv, RequestsFollowTheirRuns
    <3> QED
      BY <1>3, <2>5, <3>1 DEF QueueInv, RequestsFollowTheirRuns
  <2>7. NamedRunsAreBegun'
    BY <1>3, <2>2, <2>3 DEF QueueInv, NamedRunsAreBegun
  <2>8. RunsHaveOneOwner'
    <3>1. \A q \in ReqIds : requests'[q].run \in {requests[q].run, None}
      BY <2>2, <2>3
    <3> QED
      BY <1>3, <2>2, <3>1 DEF QueueInv, RunsHaveOneOwner
  <2>9. OneOutstanding'
    <3>1. Outstanding(s) = {}
      BY <1>6 DEF EnqueueCrawlRequest
    <3>2. \A q \in ReqIds : requests[q].status \in {"PENDING", "RUNNING"}
                              => requests[q].source # s
      BY <3>1 DEF Outstanding
    <3>3. \A p \in ReqIds \ {n} : requests'[p].status \in {"PENDING", "RUNNING"}
                                   => requests'[p].source # requests'[n].source
      BY <2>2, <2>3, <3>2
    <3>4. \A p, q \in ReqIds \ {n} :
            /\ requests'[p].status \in {"PENDING", "RUNNING"}
            /\ requests'[q].status \in {"PENDING", "RUNNING"}
            /\ requests'[p].source = requests'[q].source
            => p = q
      BY <2>2 DEF QueueInv, OneOutstanding
    <3> QED
      BY <3>3, <3>4 DEF OneOutstanding
  <2> QED
    BY <1>1, <2>6, <2>7, <2>8, <2>9 DEF QueueInv
<1> QED
  BY <1>4, <1>5, <1>6 DEF CreateJobLink, UpdateJobLink, PauseJobLink, ResumeJobLink

\* Every reachable state, with any number of processes, satisfies the queue
\* invariant: a request carries its own run, which is nobody else's.
THEOREM QueueInvariance == Spec => []QueueInv
<1>1. Init => QueueInv
  <2>1. Init => PipelineInv
    BY InitPipelineInv
  <2> QED
    BY <2>1 DEF Init, QueueInv, RequestsFollowTheirRuns, NamedRunsAreBegun, RunsHaveOneOwner,
                OneOutstanding, NoRequest, NoTask, NoRun
<1>2. QueueInv /\ [Next]_vars => QueueInv'
  <2> SUFFICES ASSUME QueueInv, [Next]_vars PROVE QueueInv'
    OBVIOUS
  <2>1. CASE UNCHANGED vars
    <3>1. PipelineInv'
      BY StepPipelineInv DEF QueueInv
    <3> QED
      BY <2>1, <3>1
         DEF vars, tables, locals, QueueInv, RequestsFollowTheirRuns, NamedRunsAreBegun,
             RunsHaveOneOwner, OneOutstanding
  <2> QED
    BY <2>1, AdminKeepsQueue, WorkerKeepsQueue DEF Next
<1> QED
  BY <1>1, <1>2, PTL DEF Spec

-----------------------------------------------------------------------------
(* The rows as their readers see them: CrawlRecords *)

\* The part of a request row CrawlRecords speaks of.
AsRequest(row) == [status |-> row.status, source |-> row.source, run |-> row.run]

AllAsRequests == [q \in ReqIds |-> AsRequest(requests[q])]

\* A step of a crawler process is one record step, or none.
LEMMA WorkerRefinesRecords ==
  ASSUME QueueInv, NEW w \in Workers, WorkerStep(w) \/ Fault(w)
  PROVE  Records!Next \/ UNCHANGED <<requests, runs>>
<1> USE DEF PipelineInv
<1>1. PipelineInv /\ requests \in [ReqIds -> RequestRow] /\ runs \in [RunIds -> RunRow]
  BY DEF QueueInv, TypeOK
<1>2. CASE WritesNothing(w)
  BY <1>2 DEF WritesNothing
<1>3. ASSUME NEW q \in ReqIds, Claims(w, q) PROVE Records!Claim(q)
  <2>1. /\ requests' = [requests EXCEPT ![q] = ClaimedRow(requests[q])]
        /\ requests[q].status = "PENDING" /\ runs' = runs
    BY <1>3 DEF Claims
  <2>2. AsRequest(ClaimedRow(requests[q])) = [AsRequest(requests[q]) EXCEPT !.status = "RUNNING"]
    BY <1>1 DEF AsRequest, ClaimedRow, RequestRow
  <2>3. AllAsRequests' = [AllAsRequests EXCEPT ![q].status = "RUNNING"]
    BY <1>1, <2>1, <2>2 DEF AllAsRequests
  <2> QED
    BY <2>1, <2>3 DEF Records!Claim, AllAsRequests, AsRequest
<1>4. CASE Begins(w)
  <2>1. Records!BeginRun(begun + 1, task[w].source)
    BY <1>4 DEF Begins, Records!BeginRun
  <2> QED
    BY <1>4, <2>1 DEF Begins, Records!Next
<1>5. CASE Attaches(w)
  <2> PICK q \in ReqIds, r \in RunIds : q = task[w].req /\ r = task[w].run
    BY <1>5 DEF Attaches
  <2>1. /\ q = task[w].req /\ r = task[w].run /\ runs' = runs /\ pc[w] = "attach"
        /\ requests' = [requests EXCEPT ![q].run =
                         IF requests[q].status = "RUNNING" THEN r ELSE @]
    BY <1>5 DEF Attaches
  <2>2. CASE requests[q].status = "RUNNING"
    <3>1. requests[q].run = None
      BY <2>1, <2>2, NoneAssumption DEF QueueInv, RequestsFollowTheirRuns, ReqIds
    <3>2. runs[r].source = requests[q].source /\ runs[r].status # "NONE"
      BY <1>1, <2>1, NoneAssumption DEF TaskOwnsRows, KnowsItsRows
    <3>3. runs[r].status \in {"STARTED", "DELETED"}
      BY <2>1, NoneAssumption DEF QueueInv, RunsHaveOneOwner
    <3>4. runs[r].status # "DELETED"
      BY <1>1, <2>1, <2>2, <3>2 DEF RowsFollowSources
    <3>5. \A p \in ReqIds : requests[p].run # r
      BY <2>1, <3>1, NoneAssumption DEF QueueInv, RunsHaveOneOwner
    <3>6. AllAsRequests' = [AllAsRequests EXCEPT ![q].run = r]
      BY <1>1, <2>1, <2>2 DEF AllAsRequests, AsRequest, RequestRow
    <3>7. Records!AttachRun(q, r)
      BY <2>1, <2>2, <3>1, <3>2, <3>3, <3>4, <3>5, <3>6
         DEF Records!AttachRun, AllAsRequests, AsRequest
    <3> QED
      BY <3>7 DEF Records!Next
  <2>3. CASE requests[q].status # "RUNNING"
    <3>1. \A p \in ReqIds : requests'[p] = requests[p]
      BY <1>1, <2>1, <2>3 DEF RequestRow
    <3> QED
      BY <1>1, <2>1, <3>1
  <2> QED
    BY <2>2, <2>3
<1>6. ASSUME NEW o \in {"HEALTHY", "UNHEALTHY"}, Decides(w, o)
      PROVE  Records!Next \/ UNCHANGED <<requests, runs>>
  <2>1. CASE CanFinish(task[w].run)
    <3>1. Records!FinishRun(task[w].run, o)
      BY <1>6, <2>1 DEF Decides, Finished, CanFinish, Records!FinishRun
    <3> QED
      BY <1>6, <3>1 DEF Decides, Records!Next
  <2>2. CASE ~CanFinish(task[w].run)
    BY <1>6, <2>2 DEF Decides, Finished
  <2> QED
    BY <2>1, <2>2
<1>7. CASE Completes(w)
  <2> PICK q \in ReqIds, r \in RunIds : q = task[w].req /\ r = task[w].run
    BY <1>7 DEF Completes
  <2>1. /\ q = task[w].req /\ r = task[w].run /\ runs' = runs /\ pc[w] = "complete"
        /\ requests' = [requests EXCEPT ![q] = CompletedRow(@, r)]
    BY <1>7 DEF Completes
  <2>2. CASE requests[q].status = "RUNNING"
    <3>1. requests[q].run = r
      BY <2>1, <2>2, NoneAssumption DEF QueueInv, RequestsFollowTheirRuns
    <3>2. /\ runs[r].source = requests[q].source /\ runs[r].status # "NONE"
          /\ runs[r].status \in {"HEALTHY", "UNHEALTHY", "DELETED"}
      BY <1>1, <2>1, NoneAssumption DEF TaskOwnsRows, KnowsItsRows
    <3>3. runs[r].status # "DELETED"
      BY <1>1, <2>1, <2>2, <3>2 DEF RowsFollowSources
    <3>4. AllAsRequests' = [AllAsRequests EXCEPT ![q].status = "COMPLETED"]
      BY <1>1, <2>1, <2>2, <3>1 DEF AllAsRequests, AsRequest, CompletedRow, RequestRow
    <3>5. Records!Complete(q)
      BY <2>1, <2>2, <3>1, <3>2, <3>3, <3>4 DEF Records!Complete, AllAsRequests, AsRequest
    <3> QED
      BY <3>5 DEF Records!Next
  <2>3. CASE requests[q].status # "RUNNING"
    BY <1>1, <2>1, <2>3 DEF CompletedRow
  <2> QED
    BY <2>2, <2>3
<1>8. CASE Fails(w)
  <2> PICK q \in ReqIds : q = task[w].req
    BY <1>8 DEF Fails
  <2>1. /\ q = task[w].req /\ runs' = runs /\ pc[w] = "failing"
        /\ requests' = [requests EXCEPT ![q] = FailedRow(@)]
    BY <1>8 DEF Fails
  <2>2. requests[q].status \in {"RUNNING", "DELETED"}
    BY <1>1, <2>1, NoneAssumption DEF ClaimsAreExclusive
  <2>3. CASE requests[q].status = "RUNNING"
    <3>1. AllAsRequests' = [AllAsRequests EXCEPT ![q].status = "FAILED"]
      BY <1>1, <2>1, <2>3 DEF AllAsRequests, AsRequest, FailedRow, RequestRow
    <3>2. Records!Fail(q)
      BY <2>1, <2>3, <3>1 DEF Records!Fail, AllAsRequests, AsRequest
    <3> QED
      BY <3>2 DEF Records!Next
  <2>4. CASE requests[q].status # "RUNNING"
    BY <1>1, <2>1, <2>2, <2>4 DEF FailedRow
  <2> QED
    BY <2>3, <2>4
<1> QED
  BY <1>2, <1>3, <1>4, <1>5, <1>6, <1>7, <1>8, WorkerShape DEF Records!Next

\* So is an administrator's operation.
LEMMA AdminRefinesRecords ==
  ASSUME QueueInv, Admin
  PROVE  Records!Next \/ UNCHANGED <<requests, runs>>
<1> USE DEF PipelineInv
<1>1. PipelineInv /\ requests \in [ReqIds -> RequestRow] /\ runs \in [RunIds -> RunRow]
  BY DEF QueueInv, TypeOK
<1> PICK s \in Sources :
      \/ \E u \in Urls : CreateJobLink(s, u) \/ UpdateJobLink(s, u)
      \/ PauseJobLink(s) \/ ResumeJobLink(s) \/ DeleteJobLink(s)
      \/ EnqueueCrawlRequest(s)
  BY DEF Admin
<1>2. CASE EnqueueCrawlRequest(s)
  <2> DEFINE n == asked + 1
             new == [NoRequest EXCEPT !.status = "PENDING", !.source = s]
  <2>1. n \in ReqIds /\ requests[n].status = "NONE"
    BY <1>1, <1>2, BoundsAssumption DEF EnqueueCrawlRequest, ReqIds, FreshIdentities, TypeOK
  <2>2. requests' = [requests EXCEPT ![n] = new] /\ runs' = runs /\ Outstanding(s) = {}
    BY <1>2 DEF EnqueueCrawlRequest
  <2>3. AsRequest(new) = [status |-> "PENDING", source |-> s, run |-> None]
    BY DEF AsRequest, NoRequest
  <2> HIDE DEF n, new
  <2>4. AllAsRequests'
          = [AllAsRequests EXCEPT ![n] = [status |-> "PENDING", source |-> s, run |-> None]]
    BY <1>1, <2>1, <2>2, <2>3 DEF AllAsRequests
  <2>5. Records!Outstanding(s) = {}
    BY <2>2 DEF Outstanding, Records!Outstanding
  <2>6. Records!Enqueue(n, s)
    BY <2>1, <2>2, <2>4, <2>5 DEF Records!Enqueue, AllAsRequests, AsRequest
  <2> QED
    BY <2>1, <2>6 DEF Records!Next
<1>3. CASE DeleteJobLink(s)
  <2>1. /\ runs' = [r \in RunIds |-> IF runs[r].source = s
                                     THEN [runs[r] EXCEPT !.status = "DELETED"] ELSE runs[r]]
        /\ requests' = [q \in ReqIds |-> IF requests[q].source = s
                                         THEN [requests[q] EXCEPT !.status = "DELETED"]
                                         ELSE requests[q]]
    BY <1>3 DEF DeleteJobLink
  <2>2. \A row \in RequestRow : AsRequest([row EXCEPT !.status = "DELETED"])
                                  = [AsRequest(row) EXCEPT !.status = "DELETED"]
    BY DEF AsRequest, RequestRow
  <2>3. \A q \in ReqIds : /\ requests[q] \in RequestRow
                          /\ AsRequest(requests[q]).source = requests[q].source
    BY <1>1 DEF AsRequest
  <2>4. AllAsRequests' = [q \in ReqIds |-> IF AllAsRequests[q].source = s
                                           THEN [AllAsRequests[q] EXCEPT !.status = "DELETED"]
                                           ELSE AllAsRequests[q]]
    BY <2>1, <2>2, <2>3 DEF AllAsRequests
  <2>5. Records!DeleteSource(s)
    BY <2>1, <2>4 DEF Records!DeleteSource, AllAsRequests, AsRequest
  <2> QED
    BY <2>5 DEF Records!Next
<1> QED
  BY <1>2, <1>3 DEF CreateJobLink, UpdateJobLink, PauseJobLink, ResumeJobLink

\* Any number of crawler processes, administrators and faults keep the promises
\* of CrawlRecords: one outstanding request per Job Link, one run of its own per
\* request, one outcome per run, COMPLETED only by that outcome.
THEOREM RecordsRefined == Spec => RefinesRecords
<1>1. Init => Records!Init
  BY DEF Init, NoRequest, NoRun, Records!Init
<1>2. ASSUME QueueInv, [Next]_vars
      PROVE  [Records!Next]_<<[q \in ReqIds |-> [status |-> requests[q].status,
               source |-> requests[q].source, run |-> requests[q].run]], runs>>
  <2>1. UNCHANGED vars => UNCHANGED <<requests, runs>>
    BY DEF vars, tables
  <2>2. Records!Next \/ UNCHANGED <<requests, runs>>
    BY <1>2, <2>1, WorkerRefinesRecords, AdminRefinesRecords DEF Next
  <2> QED
    BY <2>2
<1> QED
  BY <1>1, <1>2, QueueInvariance, PTL DEF Spec, RefinesRecords, Records!Spec, Records!records

-----------------------------------------------------------------------------
(* Requests left RUNNING: each costs a fault *)

\* The process still has its request, had none, or has written its outcome.
KeepsOrCloses(w) ==
  \/ task[w].req = None \/ task'[w].req = task[w].req
  \/ requests'[task[w].req].status # "RUNNING"

\* A process is doomed after a step only if it was, or lost its connection now.
StaysConnected(w) == task'[w].req # None /\ ~conn'[w] => task[w].req # None /\ ~conn[w]

LetsGo(w) == task'[w].req = None

\* A request nobody works on any more after a step of w was w's, if it is new.
LEMMA AbandonedAfter ==
  ASSUME QueueInv, NEW w \in Workers, WorkerStep(w) \/ Fault(w)
  PROVE  /\ Abandoned' \subseteq Abandoned \union {task[w].req}
         /\ KeepsOrCloses(w) => Abandoned' \subseteq Abandoned
<1> USE DEF QueueInv
<1>1. \A v \in Workers \ {w} : task'[v] = task[v]
  BY WorkerKeepsOthers DEF OthersKept
<1>2. ASSUME NEW q \in ReqIds, q \in Abandoned'
      PROVE  requests[q].status = "RUNNING" /\ \A v \in Workers \ {w} : task[v].req # q
  <2>1. requests'[q].status = "RUNNING" /\ \A v \in Workers : task'[v].req # q
    BY <1>2 DEF Abandoned
  <2>2. ~Claims(w, q)
    BY <2>1 DEF Claims
  <2> QED
    BY <1>1, <2>1, <2>2, RequestAfter
<1>3. Abandoned' \subseteq Abandoned \union {task[w].req}
  <2> SUFFICES ASSUME NEW q \in ReqIds, q \in Abandoned', q # task[w].req
               PROVE  q \in Abandoned
    BY DEF Abandoned
  <2> QED
    BY <1>2 DEF Abandoned
<1>4. KeepsOrCloses(w) => task[w].req \notin Abandoned'
  BY NoneAssumption DEF KeepsOrCloses, Abandoned
<1> QED
  BY <1>3, <1>4

\* The connections of other processes are not touched.
LEMMA DoomedAfter ==
  ASSUME QueueInv, NEW w \in Workers, WorkerStep(w) \/ Fault(w)
  PROVE  /\ Doomed' \subseteq Doomed \union {w}
         /\ StaysConnected(w) => Doomed' \subseteq Doomed
         /\ LetsGo(w) => Doomed' \subseteq Doomed \ {w}
<1> USE DEF QueueInv, PipelineInv
<1>1. \A v \in Workers \ {w} : conn'[v] = conn[v]
  <2> USE DEF TypeOK, tables
  <2>1. CASE Poll(w)
    BY <2>1 DEF Poll, PollBlocked, PollEmpty, ClaimRequest, MarkRuntime
  <2>2. CASE Cycle(w)
    BY <2>2 DEF Cycle, StartCycle, CycleNotDue, NextSource, EndCycle
  <2>3. CASE Crawl(w)
    BY <2>3 DEF Crawl, BeginRun, BeginRunFails, AttachRequest, AttachRequestFails,
       CrawlHealthy, CrawlUnhealthy, Abort, Return
  <2>4. CASE Persist(w)
    BY <2>4 DEF Persist, BeginPersist, CommitPersist, PersistFails
  <2>5. CASE Finish(w)
    BY <2>5 DEF Finish, FinalizeRun, FinalizeRunMissing, FinalizeRunAmbiguous, RecoverRun,
       RecoverRunMissing, RecoverUnreachable, CompleteRequest, CompleteRequestFails,
       CompleteScheduled, FailRequest, Abort, Return
  <2>6. CASE Fault(w)
    BY <2>6 DEF Fault, LoseConnection, CrashRestart
  <2> QED
    BY <2>1, <2>2, <2>3, <2>4, <2>5, <2>6 DEF WorkerStep
<1>2. \A v \in Workers \ {w} : task'[v] = task[v]
  BY WorkerKeepsOthers DEF OthersKept
<1> QED
  BY <1>1, <1>2 DEF Doomed, StaysConnected, LetsGo

\* Each step of a process keeps its request within reach, lets go of one it was
\* doomed to leave, or is a fault that dooms it or drops its request.
LEMMA WorkerAbandons ==
  ASSUME QueueInv, NEW w \in Workers, WorkerStep(w) \/ Fault(w)
  PROVE  \/ KeepsOrCloses(w) /\ StaysConnected(w) /\ faults' \in {faults, faults + 1}
         \/ w \in Doomed /\ LetsGo(w) /\ faults' = faults
         \/ KeepsOrCloses(w) /\ faults' = faults + 1
         \/ LetsGo(w) /\ faults' = faults + 1
<1> USE DEF QueueInv, PipelineInv
<1>1. /\ task \in [Workers -> Task] /\ conn \in [Workers -> BOOLEAN] /\ KnowsItsRows(w)
      /\ requests \in [ReqIds -> RequestRow] /\ task[w] \in Task
  BY DEF TypeOK, TaskOwnsRows
<1>2. NoTask.req = None
  BY DEF NoTask
<1>3. CASE PollBlocked(w) \/ PollEmpty(w) \/ CycleNotDue(w)
  BY <1>3 DEF PollBlocked, PollEmpty, CycleNotDue, KeepsOrCloses, StaysConnected
<1>4. CASE ClaimRequest(w) \/ StartCycle(w) \/ NextSource(w) \/ EndCycle(w)
  BY <1>1, <1>4
     DEF KnowsItsRows, ClaimRequest, StartCycle, NextSource, EndCycle, KeepsOrCloses,
         StaysConnected
<1>5. CASE MarkRuntime(w)
  <2>1. CASE conn[w]
    BY <1>1, <1>5, <2>1 DEF MarkRuntime, KeepsOrCloses, StaysConnected
  <2>2. CASE ~conn[w]
    BY <1>1, <1>2, <1>5, <2>2 DEF MarkRuntime, KnowsItsRows, Doomed, LetsGo
  <2> QED
    BY <2>1, <2>2
<1>6. ASSUME Return(w) PROVE KeepsOrCloses(w) /\ StaysConnected(w)
  <2>1. KeepsOrCloses(w)
    BY <1>1, <1>6 DEF Return, KeepsOrCloses
  <2>2. StaysConnected(w)
    BY <1>1, <1>2, <1>6 DEF Return, StaysConnected
  <2> QED
    BY <2>1, <2>2
<1>7. Abort(w) => Return(w) /\ faults' = faults
  BY DEF Abort
<1>8. RecoverUnreachable(w) => Return(w) /\ faults' = faults + 1
  BY DEF RecoverUnreachable
<1>9. CASE BeginRun(w)
  <2>1. task'[w].req = task[w].req
    BY <1>1, <1>9 DEF BeginRun, Task
  <2> QED
    BY <1>9, <2>1 DEF BeginRun, KeepsOrCloses, StaysConnected
<1>23. CASE AttachRequest(w) \/ CrawlHealthy(w) \/ CrawlUnhealthy(w)
  BY <1>1, <1>23
     DEF AttachRequest, CrawlHealthy, CrawlUnhealthy, KeepsOrCloses, StaysConnected, tables
<1>10. CASE BeginPersist(w) \/ PersistFails(w) \/ FinalizeRun(w) \/ RecoverRun(w)
  BY <1>10 DEF BeginPersist, PersistFails, FinalizeRun, RecoverRun, KeepsOrCloses, StaysConnected
<1>11. CASE CommitPersist(w) \/ FinalizeRunAmbiguous(w)
  BY <1>1, <1>11 DEF CommitPersist, FinalizeRunAmbiguous, KeepsOrCloses, StaysConnected
<1>12. CASE CompleteRequest(w)
  <2>1. task[w].req \in ReqIds
    BY <1>1, <1>12 DEF CompleteRequest, Task
  <2>2. requests'[task[w].req].status # "RUNNING"
    BY <1>1, <1>12, <2>1 DEF CompleteRequest, CompletedRow, RequestRow
  <2> QED
    BY <1>1, <1>2, <1>12, <2>2 DEF CompleteRequest, KeepsOrCloses, StaysConnected
<1>13. CASE CompleteScheduled(w)
  BY <1>1, <1>2, <1>13 DEF CompleteScheduled, KeepsOrCloses, StaysConnected
<1>14. CASE FailRequest(w)
  <2>1. task[w].req \in ReqIds /\ task[w].req # None
    BY <1>1, <1>14 DEF FailRequest, KnowsItsRows, Task
  <2>2. CASE conn[w]
    <3>1. requests'[task[w].req].status # "RUNNING"
      BY <1>1, <1>14, <2>1, <2>2 DEF FailRequest, FailedRow, RequestRow
    <3> QED
      BY <1>1, <1>2, <1>14, <3>1 DEF FailRequest, KeepsOrCloses, StaysConnected
  <2>3. CASE ~conn[w]
    BY <1>1, <1>2, <1>14, <2>1, <2>3 DEF FailRequest, Doomed, LetsGo
  <2> QED
    BY <2>2, <2>3
<1>15. CASE LoseConnection(w)
  BY <1>15 DEF LoseConnection, KeepsOrCloses
<1>16. CASE CrashRestart(w)
  BY <1>1, <1>2, <1>16 DEF CrashRestart, LetsGo
<1>17. CASE Poll(w)
  BY <1>3, <1>4, <1>5, <1>17 DEF Poll
<1>18. CASE Cycle(w)
  BY <1>3, <1>4, <1>18 DEF Cycle
<1>19. CASE Crawl(w)
  BY <1>6, <1>7, <1>9, <1>19, <1>23 DEF Crawl, BeginRunFails, AttachRequestFails
<1>20. CASE Persist(w)
  BY <1>10, <1>11, <1>20 DEF Persist
<1>21. CASE Finish(w)
  BY <1>6, <1>7, <1>8, <1>10, <1>11, <1>12, <1>13, <1>14, <1>21
     DEF Finish, FinalizeRunMissing, RecoverRunMissing, CompleteRequestFails
<1>22. CASE Fault(w)
  BY <1>15, <1>16, <1>22 DEF Fault
<1> QED
  BY <1>17, <1>18, <1>19, <1>20, <1>21, <1>22 DEF WorkerStep

\* Counting: of the sets of a step, one grows by at most one when a fault pays,
\* or an element leaves the one set when one enters the other.
LEMMA SumStaysBelow ==
  ASSUME NEW A, NEW D, NEW AA, NEW DD, NEW a, NEW d, NEW f \in Nat, NEW ff \in Nat,
         IsFiniteSet(A), IsFiniteSet(D), Cardinality(A) + Cardinality(D) <= f,
         \/ AA \subseteq A /\ DD \subseteq D /\ ff >= f
         \/ d \in D /\ DD \subseteq D \ {d} /\ AA \subseteq A \union {a} /\ ff = f
         \/ AA \subseteq A /\ DD \subseteq D \union {d} /\ ff = f + 1
         \/ AA \subseteq A \union {a} /\ DD \subseteq D /\ ff = f + 1
  PROVE  IsFiniteSet(DD) /\ Cardinality(AA) + Cardinality(DD) <= ff
<1>1. /\ Cardinality(A) \in Nat /\ Cardinality(D) \in Nat
  BY FS_CardinalityType
<1>2. \A S, T : IsFiniteSet(T) /\ S \subseteq T =>
        /\ IsFiniteSet(S) /\ Cardinality(S) \in Nat /\ Cardinality(T) \in Nat
        /\ Cardinality(S) <= Cardinality(T)
  BY FS_Subset, FS_CardinalityType
<1>3. \A T, x : IsFiniteSet(T) =>
        IsFiniteSet(T \union {x}) /\ Cardinality(T \union {x}) <= Cardinality(T) + 1
  <2> TAKE T, x
  <2> HAVE IsFiniteSet(T)
  <2>1. Cardinality(T) \in Nat
    BY FS_CardinalityType
  <2>2. IsFiniteSet(T \union {x})
    BY FS_AddElement
  <2>3. Cardinality(T \union {x})
          = IF x \in T THEN Cardinality(T) ELSE Cardinality(T) + 1
    BY FS_AddElement
  <2> QED
    BY <2>1, <2>2, <2>3
<1>4. CASE AA \subseteq A /\ DD \subseteq D /\ ff >= f
  BY <1>1, <1>2, <1>4
<1>5. CASE d \in D /\ DD \subseteq D \ {d} /\ AA \subseteq A \union {a} /\ ff = f
  <2>1. IsFiniteSet(D \ {d}) /\ Cardinality(D \ {d}) = Cardinality(D) - 1
    BY <1>5, FS_RemoveElement
  <2>2. IsFiniteSet(DD) /\ Cardinality(DD) \in Nat /\ Cardinality(DD) <= Cardinality(D) - 1
    BY <1>2, <1>5, <2>1
  <2>3. /\ Cardinality(AA) \in Nat /\ Cardinality(A \union {a}) \in Nat
        /\ Cardinality(AA) <= Cardinality(A \union {a})
    BY <1>2, <1>3, <1>5
  <2>4. Cardinality(A \union {a}) <= Cardinality(A) + 1
    BY <1>3
  <2> QED
    BY <1>1, <1>5, <2>2, <2>3, <2>4
<1>6. CASE AA \subseteq A /\ DD \subseteq D \union {d} /\ ff = f + 1
  <2>1. Cardinality(AA) \in Nat /\ Cardinality(AA) <= Cardinality(A)
    BY <1>2, <1>6
  <2>2. /\ IsFiniteSet(DD) /\ Cardinality(DD) \in Nat /\ Cardinality(D \union {d}) \in Nat
        /\ Cardinality(DD) <= Cardinality(D \union {d})
    BY <1>2, <1>3, <1>6
  <2>3. Cardinality(D \union {d}) <= Cardinality(D) + 1
    BY <1>3
  <2> QED
    BY <1>1, <1>6, <2>1, <2>2, <2>3
<1>7. CASE AA \subseteq A \union {a} /\ DD \subseteq D /\ ff = f + 1
  <2>1. IsFiniteSet(DD) /\ Cardinality(DD) \in Nat /\ Cardinality(DD) <= Cardinality(D)
    BY <1>2, <1>7
  <2>2. /\ Cardinality(AA) \in Nat /\ Cardinality(A \union {a}) \in Nat
        /\ Cardinality(AA) <= Cardinality(A \union {a})
    BY <1>2, <1>3, <1>7
  <2>3. Cardinality(A \union {a}) <= Cardinality(A) + 1
    BY <1>3
  <2> QED
    BY <1>1, <1>7, <2>1, <2>2, <2>3
<1> QED
  BY <1>4, <1>5, <1>6, <1>7

\* The requests are finitely many, so the abandoned ones are.
LEMMA AbandonedFinite == IsFiniteSet(Abandoned)
<1>1. IsFiniteSet(ReqIds)
  BY FS_Interval, BoundsAssumption DEF ReqIds
<1>2. Abandoned \subseteq ReqIds
  BY DEF Abandoned
<1> QED
  BY <1>1, <1>2, FS_Subset

\* The balance of abandoned requests and faults holds after every step.
LEMMA StepAbandonInv == QueueInv /\ AbandonInv /\ [Next]_vars => AbandonInv'
<1> SUFFICES ASSUME QueueInv, AbandonInv, [Next]_vars PROVE AbandonInv'
  OBVIOUS
<1>1. PipelineInv /\ PipelineInv'
  BY StepPipelineInv DEF QueueInv
<1>2. faults \in Nat /\ faults' \in Nat
  BY <1>1, BoundsAssumption DEF PipelineInv, TypeOK
<1>3. IsFiniteSet(Doomed) /\ Cardinality(Abandoned) + Cardinality(Doomed) <= faults
  BY DEF AbandonInv
<1>4. CASE UNCHANGED vars
  <2>1. Abandoned' = Abandoned /\ Doomed' = Doomed /\ faults' = faults
    BY <1>4 DEF vars, tables, locals, Abandoned, Doomed
  <2> QED
    BY <1>3, <2>1 DEF AbandonInv
<1>5. CASE Admin
  <2>1. UNCHANGED <<conn, task, faults>>
    BY <1>5 DEF Admin, CreateJobLink, UpdateJobLink, PauseJobLink, ResumeJobLink, DeleteJobLink,
                EnqueueCrawlRequest, locals
  <2>2. \A q \in ReqIds : requests'[q].status = "RUNNING" => requests[q].status = "RUNNING"
    <3>1. requests \in [ReqIds -> RequestRow] /\ asked \in Nat
      BY <1>1, BoundsAssumption DEF PipelineInv, TypeOK
    <3>2. ASSUME NEW s \in Sources, EnqueueCrawlRequest(s), NEW q \in ReqIds
          PROVE  requests'[q] = requests[q] \/ requests'[q].status = "PENDING"
      BY <3>1, <3>2 DEF EnqueueCrawlRequest, NoRequest
    <3>3. ASSUME NEW s \in Sources, DeleteJobLink(s), NEW q \in ReqIds
          PROVE  requests'[q] = requests[q] \/ requests'[q].status = "DELETED"
      BY <3>1, <3>3 DEF DeleteJobLink, RequestRow
    <3> QED
      BY <1>5, <3>2, <3>3 DEF Admin, CreateJobLink, UpdateJobLink, PauseJobLink, ResumeJobLink
  <2>3. Abandoned' \subseteq Abandoned /\ Doomed' \subseteq Doomed
    BY <2>1, <2>2 DEF Abandoned, Doomed
  <2> QED
    <3> DEFINE A == Abandoned
               D == Doomed
               AA == Abandoned'
               DD == Doomed'
               f == faults
               ff == faults'
    <3>1. /\ f \in Nat /\ ff \in Nat /\ IsFiniteSet(A) /\ IsFiniteSet(D)
          /\ Cardinality(A) + Cardinality(D) <= f
          /\ AA \subseteq A /\ DD \subseteq D /\ ff >= f
      BY <1>2, <1>3, <2>1, <2>3, AbandonedFinite
    <3> HIDE DEF A, D, AA, DD, f, ff
    <3>2. IsFiniteSet(DD) /\ Cardinality(AA) + Cardinality(DD) <= ff
      BY <3>1, SumStaysBelow
    <3> QED
      BY <3>2 DEF AA, DD, ff, AbandonInv
<1>6. ASSUME NEW w \in Workers, WorkerStep(w) \/ Fault(w) PROVE AbandonInv'
  <2>1. \/ Abandoned' \subseteq Abandoned /\ Doomed' \subseteq Doomed /\ faults' >= faults
        \/ /\ w \in Doomed /\ Doomed' \subseteq Doomed \ {w}
           /\ Abandoned' \subseteq Abandoned \union {task[w].req} /\ faults' = faults
        \/ /\ Abandoned' \subseteq Abandoned /\ Doomed' \subseteq Doomed \union {w}
           /\ faults' = faults + 1
        \/ /\ Abandoned' \subseteq Abandoned \union {task[w].req} /\ Doomed' \subseteq Doomed
           /\ faults' = faults + 1
    <3>1. CASE KeepsOrCloses(w) /\ StaysConnected(w) /\ faults' \in {faults, faults + 1}
      BY <1>2, <1>6, <3>1, AbandonedAfter, DoomedAfter
    <3>2. CASE w \in Doomed /\ LetsGo(w) /\ faults' = faults
      BY <1>6, <3>2, AbandonedAfter, DoomedAfter
    <3>3. CASE KeepsOrCloses(w) /\ faults' = faults + 1
      BY <1>6, <3>3, AbandonedAfter, DoomedAfter
    <3>4. CASE LetsGo(w) /\ faults' = faults + 1
      <4>1. Doomed' \subseteq Doomed
        BY <1>6, <3>4, DoomedAfter
      <4> QED
        BY <1>6, <3>4, <4>1, AbandonedAfter
    <3> QED
      BY <1>6, <3>1, <3>2, <3>3, <3>4, WorkerAbandons
  <2> DEFINE A == Abandoned
             D == Doomed
             AA == Abandoned'
             DD == Doomed'
             f == faults
             ff == faults'
             a == task[w].req
  <2>2. /\ f \in Nat /\ ff \in Nat /\ IsFiniteSet(A) /\ IsFiniteSet(D)
        /\ Cardinality(A) + Cardinality(D) <= f
    BY <1>2, <1>3, AbandonedFinite
  <2>3. \/ AA \subseteq A /\ DD \subseteq D /\ ff >= f
        \/ w \in D /\ DD \subseteq D \ {w} /\ AA \subseteq A \union {a} /\ ff = f
        \/ AA \subseteq A /\ DD \subseteq D \union {w} /\ ff = f + 1
        \/ AA \subseteq A \union {a} /\ DD \subseteq D /\ ff = f + 1
    BY <2>1
  <2> HIDE DEF A, D, AA, DD, f, ff, a
  <2>4. IsFiniteSet(DD) /\ Cardinality(AA) + Cardinality(DD) <= ff
    BY <2>2, <2>3, SumStaysBelow
  <2> QED
    BY <2>4 DEF AA, DD, ff, AbandonInv
<1> QED
  BY <1>4, <1>5, <1>6 DEF Next

\* Every request left RUNNING with nobody to finish it has a fault of its own:
\* as many broken connections, crashes and unreachable recoveries happened.
THEOREM AbandonmentsHaveCause == Spec => []AbandonmentsCostFaults
<1>1. Init => AbandonInv
  <2> SUFFICES ASSUME Init PROVE AbandonInv
    OBVIOUS
  <2>1. Abandoned = {} /\ Doomed = {} /\ faults = 0
    BY DEF Init, Abandoned, Doomed, NoRequest, NoTask
  <2> QED
    BY <2>1, FS_EmptySet DEF AbandonInv
<1>2. AbandonInv /\ QueueInv => AbandonmentsCostFaults
  <2> SUFFICES ASSUME AbandonInv, QueueInv PROVE AbandonmentsCostFaults
    OBVIOUS
  <2>1. Cardinality(Abandoned) \in Nat /\ Cardinality(Doomed) \in Nat
    BY AbandonedFinite, FS_CardinalityType DEF AbandonInv
  <2>2. faults \in Nat
    BY BoundsAssumption DEF QueueInv, PipelineInv, TypeOK
  <2> QED
    BY <2>1, <2>2 DEF AbandonInv, AbandonmentsCostFaults
<1> QED
  BY <1>1, <1>2, StepAbandonInv, QueueInvariance, PTL DEF Spec
=============================================================================
