------------------------------ MODULE MCProgress ------------------------------
(* What must happen in the end, in three small instances that share no       *)
(* state: manual crawl requests while processes and connections fail         *)
(* ("served") and while administrators change the source ("resolved"), and   *)
(* scans of CVs ("scans").  A behaviour is one of one instance, and its      *)
(* fairness is that of its specification.                                    *)
EXTENDS Naturals, FiniteSets

CONSTANTS
  Sources, Keys, Urls, Workers, None,             \* of CrawlPipeline
  Requests, Jobs                                  \* of ScanLifecycle

VARIABLES
  part,
  sources, requests, runs, jobs, begun, asked, pc, conn, todo, task, batch, cycles, faults,
  api, scanPc, tries, cand, files, aged, status, inflight, profiles, matches, scanJobs,
  deleted, lost, cut, scanFaults

\* Two sources, one fault, deletions.
Served ==
  INSTANCE CrawlPipeline WITH
    MaxRuns <- 3, MaxRequests <- 2, MaxCycles <- 0, MaxFaults <- 1, AdminOps <- {"delete"}

\* One source, no fault, a scheduled cycle beside the requests, every operation.
OneSource == {CHOOSE s \in Sources : TRUE}

Resolved ==
  INSTANCE CrawlPipeline WITH
    Sources <- OneSource, MaxRuns <- 3, MaxRequests <- 2, MaxCycles <- 1, MaxFaults <- 0,
    AdminOps <- {"update", "pause", "resume", "delete"}

Scans ==
  INSTANCE ScanLifecycle WITH
    MaxFaults <- 2, SlowShutdowns <- TRUE, pc <- scanPc, jobs <- scanJobs, faults <- scanFaults

-----------------------------------------------------------------------------

pipelineVars ==
  <<sources, requests, runs, jobs, begun, asked, pc, conn, todo, task, batch, cycles, faults>>
scanVars ==
  <<api, scanPc, tries, cand, files, aged, status, inflight, profiles, matches, scanJobs,
    deleted, lost, cut, scanFaults>>
mcVars == <<part, pipelineVars, scanVars>>

McInit ==
  /\ part \in {"served", "resolved", "scans"}
  /\ IF part = "resolved" THEN Resolved!Init ELSE Served!Init
  /\ Scans!Init

\* Nothing outside the instance that runs changes.
InServed == part = "served" /\ UNCHANGED <<part, scanVars>>
InResolved == part = "resolved" /\ UNCHANGED <<part, scanVars>>
InScans == part = "scans" /\ UNCHANGED <<part, pipelineVars>>

McNext ==
  \/ InServed /\ Served!Next
  \/ InResolved /\ Resolved!Next
  \/ InScans /\ Scans!Next

\* AnsweredSpec of CrawlPipeline: the crawler goes on and web sites answer.
CrawlersGoOn ==
  \A w \in Workers :
    /\ WF_mcVars(InServed /\ Served!WorkerStep(w) /\ pc[w] # "crawl")
    /\ WF_mcVars(InServed /\ (Served!CrawlHealthy(w) \/ Served!CrawlUnhealthy(w)))
    /\ WF_mcVars(InResolved /\ Resolved!WorkerStep(w) /\ pc[w] # "crawl")
    /\ WF_mcVars(InResolved /\ (Resolved!CrawlHealthy(w) \/ Resolved!CrawlUnhealthy(w)))

\* Fairness of ScanLifecycle.
ScansGoOn ==
  /\ \A r \in Requests :
       /\ WF_mcVars(InScans /\ Scans!HandlerStep(r))
       /\ WF_mcVars(InScans /\ Scans!WorkerStep(r))
       /\ WF_mcVars(InScans /\ Scans!Age(r))
  /\ WF_mcVars(InScans /\ Scans!RecoverTemporaryCVs)
  /\ WF_mcVars(InScans /\ Scans!CloseReturns)
  /\ WF_mcVars(InScans /\ Scans!Exit)
  /\ WF_mcVars(InScans /\ Scans!Restart)

McSpec == McInit /\ [][McNext]_mcVars /\ CrawlersGoOn /\ ScansGoOn

-----------------------------------------------------------------------------

\* As long as web sites answer, a manual request of a source that stays ACTIVE
\* does not wait for ever, whatever process or connection is lost.
ActiveRequestsAreServed == part = "served" => Served!ActiveRequestsAreServed

\* Without faults a claimed request resolves, whatever the administrator does
\* to its source.
RunningRequestsResolve == part = "resolved" => Resolved!RunningRequestsResolve

\* No uploaded CV stays on disk, whatever fails.
RawCVsVanish == Scans!RawCVsVanish

\* A scan gets its verdict or is deleted, or has an excuse.
ScansReachVerdict == Scans!ScansReachVerdict
=============================================================================
