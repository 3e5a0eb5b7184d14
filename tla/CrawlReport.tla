------------------------------ MODULE CrawlReport ------------------------------
(***************************************************************************)
(* One crawl of a Job Link, from its URL to the report: crawl_source, the  *)
(* scope and robots guards of its fetch engine, JsonLdJobPostingAdapter.   *)
(* CrawlPipeline takes the outcome, HEALTHY with the jobs observed or not. *)
(*                                                                         *)
(* Spider, which follows the links level by level, the web site and DNS    *)
(* are external.  Spider delivers the pages over a broadcast channel that  *)
(* is read when the crawl is over: what exceeds its capacity is lost.      *)
(***************************************************************************)
EXTENDS Naturals, FiniteSets

CONSTANTS
  Pages,      \* URLs of the site
  Base,       \* base_url
  Outside,    \* URLs outside the scope of the Job Link
  Depth,      \* with_depth
  PageLimit,  \* with_limit
  Capacity,   \* of the channel
  Ids,        \* source_job_key of a posting
  Unusable    \* a posting that lacks a required field

ASSUME ReportAssumption ==
  /\ Base \in Pages \ Outside /\ Outside \subseteq Pages
  /\ Depth \in Nat /\ PageLimit \in Nat /\ Capacity \in Nat
  /\ Unusable \notin Ids

VARIABLES
  crawl,    \* how far crawl_source has come
  robots,   \* pages the robots policy forbids
  level,    \* links between the start and a page; Depth + 1 if too many or not found
  answer,   \* what came of the request for a page
  carried,  \* the postings on a page that was served
  report    \* the CrawlReport

crawlVars == <<crawl, robots, level, answer, carried, report>>

NoReport == [status |-> "none", jobs |-> {}]

\* build_job_observation makes an observation of a posting or refuses it.
Posting == Ids \union {Unusable}

ReportTypeOK ==
  /\ crawl \in {"resolve", "robots", "fetch", "done"}
  /\ robots \subseteq Pages /\ level \in [Pages -> 0..(Depth + 1)]
  /\ answer \in [Pages -> {"none", "refused", "failed", "served"}]
  /\ carried \in [Pages -> SUBSET Posting]
  /\ report \in [status : {"none", "HEALTHY", "SOURCE_ERROR", "PARSER_ERROR", "ANOMALY"},
                 jobs : SUBSET Ids]

ReportInit ==
  /\ crawl = "resolve" /\ robots = {}
  /\ level = [p \in Pages |-> IF p = Base THEN 0 ELSE Depth + 1]
  /\ answer = [p \in Pages |-> "none"]
  /\ carried = [p \in Pages |-> {}]
  /\ report = NoReport

-----------------------------------------------------------------------------

\* An error of crawl_source and source_error_report come to the same.
SourceError == [status |-> "SOURCE_ERROR", jobs |-> {}]

EndWith(r) == crawl' = "done" /\ report' = r

\* validate_resolved_host: every address of the host is a public one.
ResolveHost ==
  /\ crawl = "resolve"
  /\ \/ crawl' = "robots" /\ UNCHANGED report
     \/ EndWith(SourceError)
  /\ UNCHANGED <<robots, level, answer, carried>>

\* fetch_robots_policy: 401 and 403 forbid everything, other client errors
\* nothing, a policy some pages; anything else is an error.
RobotsPolicies == SUBSET Pages

FetchRobotsPolicy ==
  /\ crawl = "robots"
  /\ \/ \E denied \in RobotsPolicies :
          /\ robots' = denied
          /\ IF Base \in denied THEN EndWith(SourceError)
             ELSE crawl' = "fetch" /\ UNCHANGED report
     \/ EndWith(SourceError) /\ UNCHANGED robots
  /\ UNCHANGED <<level, answer, carried>>

\* SourceScope.allows.
Allows(p) == p \notin Outside

\* ScopedHttpFetchEngine.fetch sends a request for these pages only; what it
\* refuses counts as a page with an error status.
CanFetch(p) == Allows(p) /\ p \notin robots

Fetched == {p \in Pages : answer[p] # "none"}
Frontier == {p \in Pages \ Fetched : level[p] <= Depth}

\* Links within the depth lead on from a page that was served.
Follow(p, links) ==
  level' = [q \in Pages |-> IF q \in links /\ level[p] < level[q] THEN level[p] + 1 ELSE level[q]]

\* A page that is served in full: 2xx, no redirect, not truncated.
PageServed(p) ==
  /\ CanFetch(p)
  /\ answer' = [answer EXCEPT ![p] = "served"]
  /\ \E on \in SUBSET Posting : carried' = [carried EXCEPT ![p] = on]
  /\ \E links \in SUBSET (Pages \ Fetched) : Follow(p, links)

PageFails(p) ==
  /\ answer' = [answer EXCEPT ![p] = IF Allows(p) THEN "failed" ELSE "refused"]
  /\ UNCHANGED <<carried, level>>

FetchPage(p) ==
  /\ crawl = "fetch" /\ Cardinality(Fetched) < PageLimit
  /\ p \in Frontier /\ \A q \in Frontier : level[p] <= level[q]
  /\ PageServed(p) \/ PageFails(p)
  /\ UNCHANGED <<crawl, robots, report>>

-----------------------------------------------------------------------------

\* parse_job_posting_html: one posting that cannot be used rejects the page, a
\* page without a posting is not authoritative.
Rejected(p) == Unusable \in carried[p]
Authoritative(p) == carried[p] # {}

\* Mutant: a crawl that stopped early counts as one that found no more.
FetchFailedInTheEnd(sent, idle) ==
  Cardinality(sent) > Capacity \/ \E p \in sent : Allows(p) /\ answer[p] # "served"

\* fetch_failed: the crawl stopped early, pages were lost, or one failed.
FetchFailed(sent, idle) ==
  ~idle \/ Cardinality(sent) > Capacity \/ \E p \in sent : Allows(p) /\ answer[p] # "served"

\* The first attempt to receive says that pages were lost, and ends the loop.
Received(sent) == IF Cardinality(sent) > Capacity THEN {} ELSE sent

\* The loop over the pages, and finalize_crawl_report.
Report(pages, failed) ==
  LET mine == {p \in pages : Allows(p)}
      jobs == UNION {carried[p] : p \in {q \in mine : ~Rejected(q)}}
      status ==
        CASE failed                            -> "SOURCE_ERROR"
          [] \E p \in mine : Rejected(p)       -> "PARSER_ERROR"
          [] mine = {}                         -> "SOURCE_ERROR"
          [] \E p \in mine : ~Authoritative(p) -> "ANOMALY"
          [] OTHER                             -> "HEALTHY"
  IN [status |-> status, jobs |-> IF failed THEN {} ELSE jobs]

\* The crawl ends, idle when it has followed all links or used up its limit.
\* Whether refused URLs are delivered is up to Spider.
EndCrawl ==
  /\ crawl = "fetch"
  /\ \E idle \in BOOLEAN, sent \in SUBSET Fetched :
       /\ idle => Frontier = {} \/ Cardinality(Fetched) >= PageLimit
       /\ {p \in Fetched : Allows(p)} \subseteq sent
       /\ EndWith(Report(Received(sent), FetchFailed(sent, idle)))
  /\ UNCHANGED <<robots, level, answer, carried>>

ReportNext ==
  \/ ResolveHost \/ FetchRobotsPolicy \/ EndCrawl
  \/ \E p \in Pages : FetchPage(p)

ReportSpec == ReportInit /\ [][ReportNext]_crawlVars

-----------------------------------------------------------------------------
(* Properties *)

\* Jobs that a HEALTHY report does not show count as missing and are closed
\* after two reports, so such a report must be complete: every page of the scope
\* that links lead to was read, within the depth and, unless the limit was used
\* up, in number; all their postings are in it; and there is one on every page
\* ("an empty or low-confidence extraction ... cannot reconcile missing jobs",
\* crawler/README.md:34-36).
HealthyReportsAreComplete ==
  report.status = "HEALTHY" =>
    LET within == {p \in Pages : Allows(p) /\ level[p] <= Depth}
        read == {p \in within : answer[p] = "served"}
    IN
    /\ read = within \intersect Fetched
    /\ within \subseteq Fetched \/ Cardinality(Fetched) = PageLimit
    /\ read # {} /\ \A p \in read : carried[p] # {}
    /\ report.jobs = UNION {carried[p] : p \in read}

\* Why: pages are fetched within depth and limit, and the scope decides which
\* of them are refused; there is a report only at the end.
FetchesAreBounded ==
  /\ IsFiniteSet(Fetched) /\ Cardinality(Fetched) <= PageLimit
  /\ \A p \in Fetched : level[p] <= Depth
  /\ crawl # "done" => report = NoReport

\* The inductive invariant.
ReportInv == ReportTypeOK /\ HealthyReportsAreComplete /\ FetchesAreBounded
=============================================================================
