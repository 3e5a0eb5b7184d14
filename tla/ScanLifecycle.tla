----------------------------- MODULE ScanLifecycle -----------------------------
(***************************************************************************)
(* CV scans in the backend: ScanService (request handlers, one goroutine   *)
(* per scan, clean-up of temporary files, shutdown), MatchingProcessor,    *)
(* the SQL of PostgresScanRepository and the deletion of a CV.             *)
(*                                                                         *)
(* r identifies one upload: its handler, its temporary file, its scans row *)
(* and the structured_profiles row its goroutine may insert.  A database   *)
(* transaction is one step; RECEIVED and MATCHING exist only inside one.   *)
(* Contents (CV text, scores, error codes, locations) are left out.        *)
(***************************************************************************)
EXTENDS Naturals

CONSTANTS
  Requests,       \* uploads
  Jobs,           \* rows of job_cache in the location of the scans
  MaxFaults,      \* bound on crashes and lost or refused database calls
  SlowShutdowns   \* may server.Shutdown give up on handlers in flight?

ASSUME ScanBounds == MaxFaults \in Nat /\ SlowShutdowns \in BOOLEAN

VARIABLES
  api,       \* the API process
  pc,        \* where handler and goroutine of an upload are
  tries,     \* setFailedStatus: attempts made
  cand,      \* candidate jobs read by ListMatchCandidates
  files,     \* temporary CV files on disk
  aged,      \* those older than staleTemporaryCVAge
  status,    \* scans.status, NONE when there is no row
  inflight,  \* CreateScan commits the server has not decided yet
  profiles,  \* structured_profiles rows
  matches,   \* scan_matches rows
  jobs,      \* job_cache.status
  deleted,   \* history: scans deleted by client or administrator
  lost,      \* history: database failures that hit an upload
  cut,       \* history: uploads cut off by the end of the process or a late commit
  faults     \* faults injected (bound)

process == <<api, pc, tries, cand>>
disk == <<files, aged>>
tables == <<status, inflight, profiles, matches, jobs>>
ghosts == <<deleted, lost, cut, faults>>
vars == <<process, disk, tables, ghosts>>

Handler == {"saved", "ambiguous", "created"}
Worker == {"load", "extract", "parse", "candidates", "complete", "failing", "cleanup"}
Processing == Worker \ {"failing", "cleanup"}
Busy == Handler \union Worker

TypeOK ==
  /\ api \in {"up", "closing", "closed", "down"}
  /\ pc \in [Requests -> {"idle", "done"} \union Busy]
  /\ tries \in [Requests -> 0..1]
  /\ cand \in [Requests -> SUBSET Jobs]
  /\ files \subseteq Requests /\ aged \subseteq files
  /\ status \in [Requests -> {"NONE", "PARSING", "COMPLETED", "FAILED"}]
  /\ inflight \subseteq Requests /\ profiles \subseteq Requests
  /\ matches \subseteq Requests \X Jobs
  /\ jobs \in [Jobs -> {"ACTIVE", "CLOSED", "DELETED"}]
  /\ deleted \subseteq Requests /\ cut \subseteq Requests
  /\ lost \in [Requests -> Nat] /\ faults \in Nat

Init ==
  /\ api = "up" /\ pc = [r \in Requests |-> "idle"]
  /\ tries = [r \in Requests |-> 0] /\ cand = [r \in Requests |-> {}]
  /\ files = {} /\ aged = {}
  /\ status = [r \in Requests |-> "NONE"]
  /\ inflight = {} /\ profiles = {} /\ matches = {}
  /\ jobs = [j \in Jobs |-> "ACTIVE"]
  /\ deleted = {} /\ cut = {}
  /\ lost = [r \in Requests |-> 0] /\ faults = 0

Go(r, from, to) == pc[r] = from /\ pc' = [pc EXCEPT ![r] = to]

\* A database call of r fails, or succeeds and its answer is lost.
DatabaseFault(r) ==
  /\ faults < MaxFaults
  /\ faults' = faults + 1 /\ lost' = [lost EXCEPT ![r] = @ + 1]
  /\ UNCHANGED <<deleted, cut>>

\* The pool serves calls until pool.Close.
PoolOpen == api \in {"up", "closing"}

\* processingContext is cancelled by Close.
NotCancelled == api = "up"

-----------------------------------------------------------------------------
(* The request handler: ScanService.Start, CreateScanForClient *)

\* A handler still reading its upload may get here after Close has begun.
SaveTemporaryCV(r) ==
  /\ api = "up" \/ (SlowShutdowns /\ api # "down")
  /\ Go(r, "idle", "saved")
  /\ files' = files \union {r}
  /\ UNCHANGED <<api, tries, cand, aged, tables, ghosts>>

CreateScan(r) ==
  /\ PoolOpen /\ Go(r, "saved", "created")
  /\ status' = [status EXCEPT ![r] = "PARSING"]
  /\ UNCHANGED <<api, tries, cand, disk, inflight, profiles, matches, jobs, ghosts>>

\* os.Remove may fail; the error is only logged.
RemoveTemporaryFile(r) ==
  \/ files' = files \ {r} /\ aged' = aged \ {r}
  \/ UNCHANGED disk

\* Unknown location, cancelled request or refused transaction.
CreateScanFails(r) ==
  /\ Go(r, "saved", "done") /\ RemoveTemporaryFile(r)
  /\ UNCHANGED <<api, tries, cand, tables, ghosts>>

\* Commit returns an error: committed, rolled back, or still being decided.
CommitAmbiguous(r) ==
  /\ PoolOpen /\ Go(r, "saved", "ambiguous") /\ DatabaseFault(r)
  /\ \/ status' = [status EXCEPT ![r] = "PARSING"] /\ UNCHANGED inflight
     \/ inflight' = inflight \union {r} /\ UNCHANGED status
     \/ UNCHANGED <<status, inflight>>
  /\ UNCHANGED <<api, tries, cand, disk, profiles, matches, jobs>>

LateCommit(r) ==
  /\ r \in inflight
  /\ inflight' = inflight \ {r}
  /\ status' = [status EXCEPT ![r] = "PARSING"]
  /\ cut' = IF pc[r] = "ambiguous" THEN cut ELSE cut \union {r}
  /\ UNCHANGED <<process, disk, profiles, matches, jobs, deleted, lost, faults>>

LateRollback(r) ==
  /\ r \in inflight
  /\ inflight' = inflight \ {r}
  /\ UNCHANGED <<process, disk, status, profiles, matches, jobs, ghosts>>

\* recoverCommittedParsingScan read the row.
RecoverCommittedScan(r) ==
  /\ PoolOpen
  /\ \/ status[r] = "PARSING" /\ Go(r, "ambiguous", "created") /\ UNCHANGED disk
     \/ status[r] # "PARSING" /\ Go(r, "ambiguous", "done") /\ RemoveTemporaryFile(r)
  /\ UNCHANGED <<api, tries, cand, tables, ghosts>>

\* It could not, within two seconds or because the pool is closed.
RecoveryFails(r) ==
  /\ Go(r, "ambiguous", "done") /\ RemoveTemporaryFile(r)
  /\ \/ DatabaseFault(r)
     \/ ~PoolOpen /\ cut' = cut \union {r} /\ UNCHANGED <<deleted, lost, faults>>
  /\ UNCHANGED <<api, tries, cand, tables>>

\* processingWG.Add(1); go processInBackground
QueueProcessing(r) ==
  /\ Go(r, "created", "load")
  /\ UNCHANGED <<api, tries, cand, disk, tables, ghosts>>

-----------------------------------------------------------------------------
(* The goroutine: processInBackground, MatchingProcessor.Process *)

LoadScanContext(r) ==
  /\ NotCancelled /\ status[r] = "PARSING" /\ Go(r, "load", "extract")
  /\ UNCHANGED <<api, tries, cand, disk, tables, ghosts>>

ExtractCVText(r) ==
  /\ r \in files /\ Go(r, "extract", "parse")
  /\ UNCHANGED <<api, tries, cand, disk, tables, ghosts>>

ParseProfile(r) ==
  /\ NotCancelled /\ Go(r, "parse", "candidates")
  /\ UNCHANGED <<api, tries, cand, disk, tables, ghosts>>

\* Joined with the scan row: no candidates once it is deleted.
ListMatchCandidates(r) ==
  /\ NotCancelled /\ Go(r, "candidates", "complete")
  /\ cand' = [cand EXCEPT ![r] =
                IF status[r] = "NONE" THEN {} ELSE {j \in Jobs : jobs[j] = "ACTIVE"}]
  /\ UNCHANGED <<api, tries, disk, tables, ghosts>>

\* Mutant: completeScanStatusQuery without its status.
CanCompleteAnyStatus(r) == \A j \in cand[r] : jobs[j] # "DELETED"

\* completeScanStatusQuery finds its row, and the foreign key every job.
CanComplete(r) == status[r] = "PARSING" /\ \A j \in cand[r] : jobs[j] # "DELETED"

\* Mutant: RowsAffected is not looked at.
CompletedUnchecked(r) ==
  /\ \A j \in cand[r] : jobs[j] # "DELETED" /\ status[r] # "NONE"
  /\ status' = [status EXCEPT ![r] = IF @ = "PARSING" THEN "COMPLETED" ELSE @]
  /\ profiles' = profiles \union {r}
  /\ matches' = matches \union ({r} \X cand[r])
  /\ UNCHANGED <<inflight, jobs>>

Completed(r) ==
  /\ CanComplete(r)
  /\ status' = [status EXCEPT ![r] = "COMPLETED"]
  /\ profiles' = profiles \union {r}
  /\ matches' = matches \union ({r} \X cand[r])
  /\ UNCHANGED <<inflight, jobs>>

CompleteScan(r) ==
  /\ NotCancelled /\ Completed(r) /\ Go(r, "complete", "cleanup")
  /\ UNCHANGED <<api, tries, cand, disk, ghosts>>

\* Committed, but the answer is lost, or Close cancels the call meanwhile.
CompleteScanUnanswered(r) ==
  /\ Completed(r) /\ Go(r, "complete", "failing")
  /\ \/ DatabaseFault(r)
     \/ api = "closing" /\ UNCHANGED ghosts
  /\ UNCHANGED <<api, tries, cand, disk>>

\* Mutant: an error is logged and the status left as it is.
ProcessFailsUnmarked(r) ==
  /\ pc[r] \in Processing /\ pc' = [pc EXCEPT ![r] = "cleanup"]
  /\ UNCHANGED <<api, tries, cand, disk, tables, ghosts>>

\* Any error or timeout of Process; a rolled back CompleteScan leaves nothing.
ProcessFails(r) ==
  /\ pc[r] \in Processing /\ pc' = [pc EXCEPT ![r] = "failing"]
  /\ UNCHANGED <<api, tries, cand, disk, tables, ghosts>>

\* Mutant: setScanStatusQuery without its transitions.
MayFailAnyRow(r) == status[r] # "NONE"

\* setScanStatusQuery for FAILED; the retry carries the same error code.
MayFail(r) == status[r] \in {"PARSING", "FAILED"}
Failed(r) == [status EXCEPT ![r] = IF MayFail(r) THEN "FAILED" ELSE @]

\* Mutant: one attempt only.
NextAttemptNone(r) == Go(r, "failing", "cleanup") /\ UNCHANGED tries

\* setFailedStatus tries twice.
NextAttempt(r) ==
  IF tries[r] = 0
  THEN pc[r] = "failing" /\ tries' = [tries EXCEPT ![r] = 1] /\ UNCHANGED pc
  ELSE Go(r, "failing", "cleanup") /\ UNCHANGED tries

SetFailed(r) ==
  /\ PoolOpen
  /\ status' = Failed(r)
  /\ IF MayFail(r) THEN Go(r, "failing", "cleanup") /\ UNCHANGED tries ELSE NextAttempt(r)
  /\ UNCHANGED <<api, cand, disk, inflight, profiles, matches, jobs, ghosts>>

\* An attempt that gets an error, applied or not.
SetFailedErrs(r) ==
  /\ NextAttempt(r)
  /\ \/ PoolOpen /\ DatabaseFault(r) /\ status' \in {status, Failed(r)}
     \/ ~PoolOpen /\ cut' = cut \union {r} /\ UNCHANGED <<status, deleted, lost, faults>>
  /\ UNCHANGED <<api, cand, disk, inflight, profiles, matches, jobs>>

\* The database is silent for five seconds: both attempts are lost at once.
SetFailedStalls(r) ==
  /\ PoolOpen /\ Go(r, "failing", "cleanup") /\ faults < MaxFaults
  /\ faults' = faults + 1 /\ lost' = [lost EXCEPT ![r] = @ + 2]
  /\ UNCHANGED <<api, tries, cand, disk, tables, deleted, cut>>

Cleanup(r) ==
  /\ Go(r, "cleanup", "done") /\ RemoveTemporaryFile(r)
  /\ UNCHANGED <<api, tries, cand, tables, ghosts>>

-----------------------------------------------------------------------------
(* Clean-up of old files, shutdown, crash *)

Age(r) ==
  /\ r \in files \ aged /\ aged' = aged \union {r}
  /\ UNCHANGED <<process, files, tables, ghosts>>

\* Mutant: clean-up at the next start only.
RecoverAtStartOnly == api = "down" /\ UNCHANGED vars

\* runTemporaryCVRecovery, at a tick.
RecoverTemporaryCVs ==
  /\ api = "up" /\ aged # {}
  /\ files' = files \ aged /\ aged' = {}
  /\ UNCHANGED <<process, tables, ghosts>>

\* main: server.Shutdown waits ten seconds for handlers, then Close cancels.
BeginClose ==
  /\ api = "up" /\ api' = "closing"
  /\ SlowShutdowns \/ \A r \in Requests : pc[r] \notin Handler
  /\ UNCHANGED <<pc, tries, cand, disk, tables, ghosts>>

\* processingWG.Wait returns; pool.Close follows.
CloseReturns ==
  /\ api = "closing" /\ \A r \in Requests : pc[r] \notin Worker
  /\ api' = "closed"
  /\ UNCHANGED <<pc, tries, cand, disk, tables, ghosts>>

\* The process is gone, and with it every handler and goroutine.
ProcessEnds ==
  /\ api' = "down"
  /\ pc' = [r \in Requests |-> IF pc[r] \in Busy THEN "done" ELSE pc[r]]
  /\ cut' = cut \union {r \in Requests : pc[r] \in Busy}
  /\ UNCHANGED <<tries, cand, disk, tables, deleted, lost>>

Exit == api = "closed" /\ ProcessEnds /\ UNCHANGED faults

Crash == api # "down" /\ faults < MaxFaults /\ ProcessEnds /\ faults' = faults + 1

\* NewScanService removes old files before it serves.
Restart ==
  /\ api = "down" /\ api' = "up"
  /\ files' = files \ aged /\ aged' = {}
  /\ UNCHANGED <<pc, tries, cand, tables, ghosts>>

-----------------------------------------------------------------------------
(* Other writers: deletion of a CV, the job cache *)

\* deleteCVScan, for its owner or an administrator.
DeleteCV(r) ==
  /\ PoolOpen /\ status[r] # "NONE"
  /\ status' = [status EXCEPT ![r] = "NONE"]
  /\ profiles' = profiles \ {r}
  /\ matches' = {m \in matches : m[1] # r}
  /\ deleted' = deleted \union {r}
  /\ UNCHANGED <<process, disk, inflight, jobs, lost, cut, faults>>

\* The crawler closes and reopens jobs.
JobChanges(j) ==
  /\ jobs[j] # "DELETED"
  /\ jobs' = [jobs EXCEPT ![j] = IF @ = "ACTIVE" THEN "CLOSED" ELSE "ACTIVE"]
  /\ UNCHANGED <<process, disk, status, inflight, profiles, matches, ghosts>>

\* DeleteJobLink takes the matches of its jobs with them.
DeleteJob(j) ==
  /\ PoolOpen /\ jobs[j] # "DELETED"
  /\ matches' = {m \in matches : m[2] # j}
  /\ jobs' = [jobs EXCEPT ![j] = "DELETED"]
  /\ UNCHANGED <<process, disk, status, inflight, profiles, ghosts>>

-----------------------------------------------------------------------------
HandlerStep(r) ==
  \/ CreateScan(r) \/ CreateScanFails(r) \/ CommitAmbiguous(r)
  \/ RecoverCommittedScan(r) \/ RecoveryFails(r) \/ QueueProcessing(r)

WorkerStep(r) ==
  \/ LoadScanContext(r) \/ ExtractCVText(r) \/ ParseProfile(r) \/ ListMatchCandidates(r)
  \/ CompleteScan(r) \/ CompleteScanUnanswered(r) \/ ProcessFails(r)
  \/ SetFailed(r) \/ SetFailedErrs(r) \/ SetFailedStalls(r) \/ Cleanup(r)

OutsideStep(r) == LateCommit(r) \/ LateRollback(r) \/ Age(r) \/ DeleteCV(r)

JobStep(j) == JobChanges(j) \/ DeleteJob(j)

ProcessStep ==
  RecoverTemporaryCVs \/ BeginClose \/ CloseReturns \/ Exit \/ Crash \/ Restart

Next ==
  \/ \E r \in Requests :
       SaveTemporaryCV(r) \/ HandlerStep(r) \/ WorkerStep(r) \/ OutsideStep(r)
  \/ \E j \in Jobs : JobStep(j)
  \/ ProcessStep

Spec == Init /\ [][Next]_vars

-----------------------------------------------------------------------------
(* Properties *)

\* A structured profile is stored exactly while a COMPLETED scan holds it:
\* neither a deletion during CompleteScan nor a commit whose answer was lost
\* leaves personal data without its scan, or a result without its profile.
ProfilesHaveScans == profiles = {r \in Requests : status[r] = "COMPLETED"}

\* A match belongs to a COMPLETED scan and to a job that still exists, though
\* the candidates were read long before they are inserted.
MatchesAreAnchored ==
  \A m \in matches : status[m[1]] = "COMPLETED" /\ jobs[m[2]] # "DELETED"

\* A scan that is PARSING with nobody working on it was cut off by the end of
\* the process or a late commit, or failed by the database twice: one failed
\* call, answered or not, is always made good.
StrandedScansHaveCause ==
  \A r \in Requests :
    status[r] = "PARSING" /\ pc[r] \notin Busy => r \in cut \/ lost[r] >= 2

\* Close "waits for temporary files and terminal scan states"
\* (scan_service.go:196-197): once it has returned no scan is PARSING.
CloseLeavesTerminalScans ==
  api \in {"closed", "down"} => \A r \in Requests : status[r] # "PARSING"

\* The rows, as other transactions see them, go through ScanVerdict: a verdict
\* is never taken back and a deleted scan does not return.
Verdict == INSTANCE ScanVerdict WITH
  Scans <- Requests, kept <- profiles,
  verdict <- [r \in Requests |-> IF r \in deleted THEN "DELETED" ELSE status[r]]

RefinesVerdict == Verdict!Spec

\* What each side knows of the rows, by program counter.
RowsFollowCode ==
  \A r \in Requests :
    /\ pc[r] \in {"idle", "saved"} => status[r] = "NONE" /\ r \notin deleted \union inflight
    /\ r \in inflight => status[r] = "NONE" /\ r \notin deleted /\ pc[r] \in {"ambiguous", "done"}
    /\ r \in deleted => status[r] = "NONE"
    /\ status[r] = "COMPLETED" => pc[r] \in {"failing", "cleanup", "done"}
    /\ status[r] = "FAILED" => pc[r] \in {"failing", "cleanup", "done"}

\* What the code has spent before it gives up on a scan.
CausesFollowCode ==
  \A r \in Requests :
    /\ pc[r] \in {"idle", "saved"} => tries[r] = 0
    /\ pc[r] = "ambiguous" => lost[r] >= 1
    /\ tries[r] = 1 /\ status[r] = "PARSING" => r \in cut \/ lost[r] >= 1
    /\ pc[r] = "cleanup" /\ status[r] = "PARSING" => r \in cut \/ lost[r] >= 2

\* The inductive invariant.
ScanInv ==
  /\ TypeOK
  /\ ProfilesHaveScans
  /\ MatchesAreAnchored
  /\ StrandedScansHaveCause
  /\ RowsFollowCode
  /\ CausesFollowCode

-----------------------------------------------------------------------------
(* Liveness.  Handlers and goroutines go on: database calls answer or break, *)
(* Process has a timeout of two minutes.  The API is started again when it   *)
(* is down, files grow old, and the ticker of the clean-up ticks.            *)

Fairness ==
  /\ \A r \in Requests : WF_vars(HandlerStep(r)) /\ WF_vars(WorkerStep(r)) /\ WF_vars(Age(r))
  /\ WF_vars(RecoverTemporaryCVs)
  /\ WF_vars(CloseReturns) /\ WF_vars(Exit) /\ WF_vars(Restart)

FairSpec == Spec /\ Fairness

\* No uploaded CV stays on disk (upload.go:25-29), whatever fails.
RawCVsVanish == \A r \in Requests : r \in files ~> r \notin files

\* A scan gets its verdict or is deleted, unless it has the excuse of
\* StrandedScansHaveCause.
ScansReachVerdict ==
  \A r \in Requests :
    status[r] = "PARSING" ~> (status[r] # "PARSING" \/ r \in cut \/ lost[r] >= 2)
=============================================================================
