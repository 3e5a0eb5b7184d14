------------------------------ MODULE MCCrawler ------------------------------
(* One crawler process that starts in one of two settings.  They differ in   *)
(* what has happened before, so that each spends the bounds on a question of *)
(* its own.                                                                  *)
EXTENDS CrawlPipeline, TLC

CONSTANT Other   \* one of Sources

\* The process never blocks for want of a run identity.
ASSUME RunsSuffice ==
  /\ Other \in Sources
  /\ Cardinality(Sources \ {Other}) * MaxCycles <= MaxRuns
  /\ MaxRequests <= MaxRuns

KeyAndUrlSymmetry == Permutations(Keys) \union Permutations(Urls)

\* Scheduled cycles of one source: the other Job Link was deleted, with its
\* requests, after all faults but one.
JobsSetting ==
  /\ sources = [s \in Sources |->
       [status |-> IF s = Other THEN "DELETED" ELSE "NEW", url |-> None]]
  /\ requests = [q \in ReqIds |-> [NoRequest EXCEPT !.status = "DELETED", !.source = Other]]
  /\ asked = MaxRequests
  /\ cycles = 0
  /\ faults = MaxFaults - 1

\* Manual requests of two sources: no cycle comes due any more.
QueueSetting ==
  /\ sources = [s \in Sources |-> [status |-> "NEW", url |-> None]]
  /\ requests = [q \in ReqIds |-> NoRequest]
  /\ asked = 0
  /\ cycles = MaxCycles
  /\ faults = 0

McInit ==
  /\ JobsSetting \/ QueueSetting
  /\ runs = [r \in RunIds |-> NoRun]
  /\ jobs = [s \in Sources |-> [k \in Keys |-> NoJob]]
  /\ begun = 0
  /\ pc = [w \in Workers |-> "poll"]
  /\ conn = [w \in Workers |-> FALSE]
  /\ todo = [w \in Workers |-> {}]
  /\ task = [w \in Workers |-> NoTask]
  /\ batch = [w \in Workers |-> NoBatch]

McSpec == McInit /\ [][Next]_vars
=============================================================================
