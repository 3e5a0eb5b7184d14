----------------------------- MODULE JobLifecycle -----------------------------
(***************************************************************************)
(* What the product promises about a job: reconcile_job, the pure rule of  *)
(* crawler/src/reconcile.rs, applied by one healthy crawl to every job of  *)
(* its source at once, and the two administrator operations that may       *)
(* change a job besides it.  The program never runs reconcile_job: its     *)
(* database statements must amount to it.                                  *)
(***************************************************************************)
EXTENDS Naturals

CONSTANTS Sources, Keys

VARIABLE state   \* state[s][k]: status and missing_healthy_cycles

JobState == [status : {"NONE", "ACTIVE", "VERIFYING", "CLOSED"}, cycles : 0..2]

Absent == [status |-> "NONE", cycles |-> 0]
Closed == [status |-> "CLOSED", cycles |-> 2]

Live(job) == job.status \in {"ACTIVE", "VERIFYING"}

\* reconcile_job for a HEALTHY run.
ReconcileJob(job, observed, declaredClosed) ==
  LET misses == IF job.cycles + 1 >= 2 THEN 2 ELSE job.cycles + 1
  IN CASE declaredClosed -> Closed
       [] ~declaredClosed /\ observed -> [status |-> "ACTIVE", cycles |-> 0]
       [] ~observed /\ Live(job) ->
            [status |-> IF misses >= 2 THEN "CLOSED" ELSE "VERIFYING", cycles |-> misses]
       [] OTHER -> job

HealthyCrawl(s) ==
  \E seen \in SUBSET Keys : \E closed \in SUBSET seen :
    state' = [state EXCEPT ![s] =
                [k \in Keys |-> ReconcileJob(state[s][k], k \in seen, k \in closed)]]

\* An administrator moved the Job Link to another base URL.
BoundaryMoved(s) ==
  state' = [state EXCEPT ![s] =
              [k \in Keys |-> IF Live(state[s][k]) THEN Closed ELSE state[s][k]]]

\* An administrator deleted the Job Link.
SourceDeleted(s) == state' = [state EXCEPT ![s] = [k \in Keys |-> Absent]]

Init == state = [s \in Sources |-> [k \in Keys |-> Absent]]

Next == \E s \in Sources : HealthyCrawl(s) \/ BoundaryMoved(s) \/ SourceDeleted(s)

Spec == Init /\ [][Next]_state
=============================================================================
