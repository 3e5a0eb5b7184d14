----------------------------- MODULE CrawlRecords -----------------------------
(***************************************************************************)
(* What the queue of manual crawls and the list of crawl runs promise to   *)
(* the administrator who reads them, whoever writes the rows: the Go API,  *)
(* any number of crawler processes, and the foreign keys when a Job Link   *)
(* is deleted.                                                             *)
(*                                                                         *)
(* A Job Link has at most one outstanding request.  A request is claimed   *)
(* once, names one run of its own Job Link that no other request names,    *)
(* and is COMPLETED by that run alone, once it has an outcome.  A run gets *)
(* one outcome.  Rows go only with their Job Link.  A request whose worker *)
(* is gone stays RUNNING, and one whose Job Link is paused stays PENDING:  *)
(* the database lets nobody close them.                                    *)
(***************************************************************************)
CONSTANTS Sources, Requests, Runs, None

VARIABLES
  request,  \* crawl_requests: status, source_id, source_run_id
  run       \* source_crawl_runs: status, source_id

records == <<request, run>>

Outstanding(s) ==
  {q \in Requests : request[q].status \in {"PENDING", "RUNNING"} /\ request[q].source = s}

\* The administrator clicks on "crawl now".
Enqueue(q, s) ==
  /\ request[q].status = "NONE"
  /\ Outstanding(s) = {}
  /\ request' = [request EXCEPT ![q] = [status |-> "PENDING", source |-> s, run |-> None]]
  /\ UNCHANGED run

Claim(q) ==
  /\ request[q].status = "PENDING"
  /\ request' = [request EXCEPT ![q].status = "RUNNING"]
  /\ UNCHANGED run

BeginRun(r, s) ==
  /\ run[r].status = "NONE"
  /\ run' = [run EXCEPT ![r] = [status |-> "STARTED", source |-> s]]
  /\ UNCHANGED request

\* A claimed request names the run that is under way for it.
AttachRun(q, r) ==
  /\ request[q].status = "RUNNING" /\ request[q].run = None
  /\ run[r].status = "STARTED" /\ run[r].source = request[q].source
  /\ \A p \in Requests : request[p].run # r
  /\ request' = [request EXCEPT ![q].run = r]
  /\ UNCHANGED run

FinishRun(r, outcome) ==
  /\ run[r].status = "STARTED"
  /\ run' = [run EXCEPT ![r].status = outcome]
  /\ UNCHANGED request

\* The run the request names has its outcome.
Complete(q) ==
  /\ request[q].status = "RUNNING"
  /\ request[q].run \in Runs
  /\ run[request[q].run].status \in {"HEALTHY", "UNHEALTHY"}
  /\ request' = [request EXCEPT ![q].status = "COMPLETED"]
  /\ UNCHANGED run

Fail(q) ==
  /\ request[q].status = "RUNNING"
  /\ request' = [request EXCEPT ![q].status = "FAILED"]
  /\ UNCHANGED run

DeleteSource(s) ==
  /\ request' = [q \in Requests |-> IF request[q].source = s
                                    THEN [request[q] EXCEPT !.status = "DELETED"]
                                    ELSE request[q]]
  /\ run' = [r \in Runs |-> IF run[r].source = s
                            THEN [run[r] EXCEPT !.status = "DELETED"] ELSE run[r]]

\* Nothing is recorded but, perhaps, what went with a Job Link before.
Init ==
  /\ \A q \in Requests : request[q].status \in {"NONE", "DELETED"}
  /\ \A r \in Runs : run[r].status \in {"NONE", "DELETED"}

Next ==
  \/ \E q \in Requests : Claim(q) \/ Complete(q) \/ Fail(q)
  \/ \E q \in Requests, r \in Runs : AttachRun(q, r)
  \/ \E r \in Runs, outcome \in {"HEALTHY", "UNHEALTHY"} : FinishRun(r, outcome)
  \/ \E s \in Sources :
       \/ \E q \in Requests : Enqueue(q, s)
       \/ \E r \in Runs : BeginRun(r, s)
       \/ DeleteSource(s)

Spec == Init /\ [][Next]_records
=============================================================================
