----------------------------- MODULE LocationRule -----------------------------
(***************************************************************************)
(* What the product promises about the location of a job, as if a crawl    *)
(* were one instant: it applies one rule to the rows as they are at its    *)
(* commit.  ADMIN rows keep their location, AUTO rows take a location the  *)
(* registry knows, or keep theirs.  Only an administrator changes owners.  *)
(***************************************************************************)
CONSTANTS Regions, Postings, Nowhere

VARIABLES
  known,  \* locations: the rows there are
  row     \* job_cache: location_id and location_assignment_source

ruleVars == <<known, row>>

NoRow == [there |-> FALSE, location |-> Nowhere, source |-> "AUTO"]

Init == known = {} /\ row = [j \in Postings |-> NoRow]

\* No location is ever forgotten.
Register(l) == known' = known \union {l} /\ UNCHANGED row

Assign(j, l) ==
  /\ row[j].there
  /\ row' = [row EXCEPT ![j] = [there |-> TRUE, location |-> l,
                                source |-> IF l = Nowhere THEN "AUTO" ELSE "ADMIN"]]
  /\ UNCHANGED known

\* The rule for one job that was observed, given the location found for its text.
Observed(job, l) ==
  [there |-> TRUE, source |-> job.source,
   location |-> IF job.source = "ADMIN" \/ l = Nowhere THEN job.location ELSE l]

Crawl(seen, found) ==
  /\ row' = [j \in Postings |-> IF j \in seen THEN Observed(row[j], found[j]) ELSE row[j]]
  /\ UNCHANGED known

DeleteAll == row' = [j \in Postings |-> NoRow] /\ UNCHANGED known

Next ==
  \/ \E l \in Regions : Register(l)
  \/ \E j \in Postings, l \in known \union {Nowhere} : Assign(j, l)
  \/ \E seen \in SUBSET Postings : \E found \in [seen -> known \union {Nowhere}] :
       Crawl(seen, found)
  \/ DeleteAll

Spec == Init /\ [][Next]_ruleVars
=============================================================================
