--------------------------- MODULE CrawledJobsProofs ----------------------------
(***************************************************************************)
(* Theorems about what a crawl brings and what becomes of it: CrawlReport, *)
(* for any site, limit, depth and channel, and JobLocations, for any       *)
(* locations, jobs and texts.  The two share no state.                     *)
(***************************************************************************)
EXTENDS CrawlReport, JobLocations, FiniteSetTheorems, TLAPS

-----------------------------------------------------------------------------
(* The report of a crawl *)

\* A page that has been fetched keeps its answer, its level and its postings
\* while others are.
LEMMA FetchKeeps ==
  ASSUME ReportTypeOK, NEW p \in Pages, FetchPage(p)
  PROVE  /\ Fetched' = Fetched \union {p} /\ p \notin Fetched
         /\ level[p] <= Depth /\ \A q \in Fetched \union {p} : level'[q] = level[q]
         /\ Cardinality(Fetched) < PageLimit
<1>1. /\ crawl = "fetch" /\ Cardinality(Fetched) < PageLimit /\ p \in Frontier
      /\ PageServed(p) \/ PageFails(p)
  BY DEF FetchPage
<1>2. p \notin Fetched /\ level[p] <= Depth /\ answer[p] = "none"
  BY <1>1 DEF Frontier, Fetched
<1>3. CASE PageServed(p)
  <2>1. PICK links \in SUBSET (Pages \ Fetched) : Follow(p, links)
    BY <1>3 DEF PageServed
  <2>2. \A q \in Fetched \union {p} : level'[q] = level[q]
    <3>1. \A q \in Pages : q \notin links => level'[q] = level[q]
      BY <2>1 DEF Follow
    <3>2. level'[p] = level[p]
      <4>1. level[p] \in Nat
        BY ReportAssumption DEF ReportTypeOK
      <4> QED
        BY <2>1, <4>1 DEF Follow
    <3> QED
      BY <2>1, <3>1, <3>2 DEF Fetched
  <2>3. answer' = [answer EXCEPT ![p] = "served"]
    BY <1>3 DEF PageServed
  <2>4. Fetched' = Fetched \union {p}
    BY <2>3 DEF Fetched, ReportTypeOK
  <2> QED
    BY <1>1, <1>2, <2>2, <2>4
<1>4. CASE PageFails(p)
  <2>1. answer'[p] # "none" /\ \A q \in Pages : q # p => answer'[q] = answer[q]
    BY <1>4 DEF PageFails, ReportTypeOK
  <2>2. Fetched' = Fetched \union {p}
    BY <2>1 DEF Fetched
  <2> QED
    BY <1>1, <1>2, <1>4, <2>2 DEF PageFails, Fetched
<1> QED
  BY <1>1, <1>3, <1>4

\* Type correctness, step by step.
LEMMA ReportTypeKept ==
  ASSUME ReportInv, [ReportNext]_crawlVars PROVE ReportTypeOK'
<1> USE ReportAssumption DEF ReportInv, ReportTypeOK
<1>1. CASE ResolveHost
  BY <1>1 DEF ResolveHost, EndWith, SourceError
<1>2. CASE FetchRobotsPolicy
  BY <1>2 DEF FetchRobotsPolicy, EndWith, SourceError, RobotsPolicies
<1>3. ASSUME NEW p \in Pages, FetchPage(p) PROVE ReportTypeOK'
  <2>1. UNCHANGED <<crawl, robots, report>> /\ level[p] <= Depth
    BY <1>3, FetchKeeps DEF FetchPage
  <2>2. CASE PageServed(p)
    <3>1. PICK links : Follow(p, links)
      BY <2>2 DEF PageServed
    <3>2. level' \in [Pages -> 0..(Depth + 1)]
      BY <2>1, <3>1 DEF Follow
    <3> QED
      BY <2>1, <2>2, <3>2 DEF PageServed
  <2>3. CASE PageFails(p)
    BY <2>1, <2>3 DEF PageFails
  <2> QED
    BY <1>3, <2>2, <2>3 DEF FetchPage
<1>4. CASE EndCrawl
  <2>1. PICK idle \in BOOLEAN, sent \in SUBSET Fetched :
          crawl' = "done" /\ report' = Report(Received(sent), FetchFailed(sent, idle))
    BY <1>4 DEF EndCrawl, EndWith
  <2>2. Received(sent) \subseteq Pages
    BY DEF Received, Fetched
  <2>3. ASSUME NEW pages \in SUBSET Pages, NEW failed
        PROVE  /\ Report(pages, failed).jobs \subseteq Ids
               /\ Report(pages, failed).status
                    \in {"HEALTHY", "SOURCE_ERROR", "PARSER_ERROR", "ANOMALY"}
               /\ Report(pages, failed)
                    = [status |-> Report(pages, failed).status, jobs |-> Report(pages, failed).jobs]
    BY DEF Report, Rejected, Posting
  <2>4. report' \in [status : {"none", "HEALTHY", "SOURCE_ERROR", "PARSER_ERROR", "ANOMALY"},
                     jobs : SUBSET Ids]
    BY <2>1, <2>2, <2>3
  <2> QED
    BY <1>4, <2>1, <2>4 DEF EndCrawl
<1>5. CASE UNCHANGED crawlVars
  BY <1>5 DEF crawlVars
<1> QED
  BY <1>1, <1>2, <1>3, <1>4, <1>5 DEF ReportNext

\* What a HEALTHY report says of the pages it was made from.
LEMMA HealthyMeans ==
  ASSUME NEW pages \in SUBSET Pages, NEW failed \in BOOLEAN,
         Report(pages, failed).status = "HEALTHY"
  PROVE  LET mine == {p \in pages : Allows(p)} IN
         /\ ~failed /\ mine # {} /\ \A p \in mine : carried[p] # {}
         /\ Report(pages, failed).jobs = UNION {carried[p] : p \in mine}
<1> DEFINE mine == {p \in pages : Allows(p)}
<1>1. ~failed /\ mine # {} /\ \A p \in mine : ~Rejected(p) /\ Authoritative(p)
  BY DEF Report
<1>2. {q \in mine : ~Rejected(q)} = mine
  BY <1>1
<1>3. Report(pages, failed).jobs = UNION {carried[p] : p \in {q \in mine : ~Rejected(q)}}
  BY <1>1 DEF Report
<1> QED
  BY <1>1, <1>2, <1>3 DEF Authoritative

\* The end of the crawl: a HEALTHY report is complete.
LEMMA EndIsComplete ==
  ASSUME ReportInv, EndCrawl PROVE HealthyReportsAreComplete'
<1> USE DEF ReportInv
<1>1. PICK idle \in BOOLEAN, sent \in SUBSET Fetched :
        /\ idle => Frontier = {} \/ Cardinality(Fetched) >= PageLimit
        /\ {p \in Fetched : Allows(p)} \subseteq sent
        /\ report' = Report(Received(sent), FetchFailed(sent, idle))
  BY DEF EndCrawl, EndWith
<1>2. UNCHANGED <<robots, level, answer, carried>>
  BY DEF EndCrawl
<1> DEFINE within == {p \in Pages : Allows(p) /\ level[p] <= Depth}
           read == {p \in within : answer[p] = "served"}
           mine == {p \in sent : Allows(p)}
<1>3. SUFFICES ASSUME report'.status = "HEALTHY"
               PROVE  /\ read = within \intersect Fetched
                      /\ within \subseteq Fetched \/ Cardinality(Fetched) = PageLimit
                      /\ read # {} /\ \A p \in read : carried[p] # {}
                      /\ report'.jobs = UNION {carried[p] : p \in read}
  BY <1>2 DEF HealthyReportsAreComplete, Allows, Fetched
<1>4. FetchFailed(sent, idle) \in BOOLEAN /\ Received(sent) \in SUBSET Pages
  BY DEF FetchFailed, Received, Fetched
<1>5. ~FetchFailed(sent, idle)
  BY <1>1, <1>3, <1>4, HealthyMeans
<1>6. idle /\ Received(sent) = sent /\ \A p \in mine : answer[p] = "served"
  BY <1>5 DEF FetchFailed, Received
<1>7. /\ mine # {} /\ \A p \in mine : carried[p] # {}
      /\ report'.jobs = UNION {carried[p] : p \in mine}
  BY <1>1, <1>3, <1>4, <1>6, HealthyMeans
<1>8. mine = within \intersect Fetched
  BY <1>1 DEF FetchesAreBounded, Fetched
<1>9. read = mine
  BY <1>6, <1>8 DEF Fetched
<1>10. within \subseteq Fetched \/ Cardinality(Fetched) = PageLimit
  <2>1. CASE Frontier = {}
    BY <2>1 DEF Frontier
  <2>2. CASE Cardinality(Fetched) >= PageLimit
    <3>1. Cardinality(Fetched) \in Nat
      BY FS_CardinalityType DEF FetchesAreBounded
    <3> QED
      BY <2>2, <3>1, ReportAssumption DEF FetchesAreBounded
  <2> QED
    BY <1>1, <1>6, <2>1, <2>2
<1> QED
  BY <1>7, <1>8, <1>9, <1>10

\* A page more, and the limit still holds.
LEMMA FetchIsBounded ==
  ASSUME ReportInv, NEW p \in Pages, FetchPage(p) PROVE FetchesAreBounded'
<1> USE DEF ReportInv
<1>1. /\ Fetched' = Fetched \union {p} /\ p \notin Fetched
      /\ level[p] <= Depth /\ \A q \in Fetched \union {p} : level'[q] = level[q]
      /\ Cardinality(Fetched) < PageLimit
  BY FetchKeeps
<1>2. IsFiniteSet(Fetched) /\ Cardinality(Fetched) \in Nat
  BY FS_CardinalityType DEF FetchesAreBounded
<1>3. IsFiniteSet(Fetched') /\ Cardinality(Fetched') = Cardinality(Fetched) + 1
  BY <1>1, <1>2, FS_AddElement
<1>4. Cardinality(Fetched') <= PageLimit
  BY <1>1, <1>2, <1>3, ReportAssumption
<1>5. \A q \in Fetched' : level'[q] <= Depth
  BY <1>1 DEF FetchesAreBounded
<1>6. crawl' = crawl /\ report' = report
  BY DEF FetchPage
<1> QED
  BY <1>3, <1>4, <1>5, <1>6 DEF FetchesAreBounded

-----------------------------------------------------------------------------

\* ReportInv holds in every reachable state.
THEOREM ReportInvariance == ReportSpec => []ReportInv
<1>1. ReportInit => ReportInv
  <2> SUFFICES ASSUME ReportInit PROVE ReportInv
    OBVIOUS
  <2>1. ReportTypeOK
    BY ReportAssumption DEF ReportInit, ReportTypeOK, NoReport
  <2>2. Fetched = {}
    BY DEF ReportInit, Fetched
  <2>3. FetchesAreBounded
    BY <2>2, FS_EmptySet, ReportAssumption DEF FetchesAreBounded, ReportInit
  <2>4. HealthyReportsAreComplete
    BY DEF ReportInit, HealthyReportsAreComplete, NoReport
  <2> QED
    BY <2>1, <2>3, <2>4 DEF ReportInv
<1>2. ReportInv /\ [ReportNext]_crawlVars => ReportInv'
  <2> SUFFICES ASSUME ReportInv, [ReportNext]_crawlVars PROVE ReportInv'
    OBVIOUS
  <2>1. ReportTypeOK'
    BY ReportTypeKept
  <2>2. CASE ResolveHost \/ FetchRobotsPolicy
    <3>1. report' \in {report, SourceError} /\ UNCHANGED <<level, answer, carried>>
          /\ crawl # "done" /\ (crawl' # "done" => report' = report)
      BY <2>2 DEF ResolveHost, FetchRobotsPolicy, EndWith
    <3>2. report = NoReport
      BY <3>1 DEF ReportInv, FetchesAreBounded
    <3>3. HealthyReportsAreComplete'
      BY <3>1, <3>2 DEF HealthyReportsAreComplete, SourceError, NoReport
    <3>4. Fetched' = Fetched
      BY <3>1 DEF Fetched
    <3>5. FetchesAreBounded'
      BY <3>1, <3>2, <3>4 DEF ReportInv, FetchesAreBounded
    <3> QED
      BY <2>1, <3>3, <3>5 DEF ReportInv
  <2>3. ASSUME NEW p \in Pages, FetchPage(p) PROVE ReportInv'
    <3>1. report' = NoReport
      BY <2>3 DEF FetchPage, ReportInv, FetchesAreBounded
    <3>2. HealthyReportsAreComplete'
      BY <3>1 DEF HealthyReportsAreComplete, NoReport
    <3> QED
      BY <2>1, <2>3, <3>2, FetchIsBounded DEF ReportInv
  <2>4. CASE EndCrawl
    <3>1. Fetched' = Fetched /\ level' = level /\ crawl' = "done"
      BY <2>4 DEF EndCrawl, EndWith, Fetched
    <3>2. FetchesAreBounded'
      BY <3>1 DEF ReportInv, FetchesAreBounded
    <3> QED
      BY <2>1, <2>4, <3>2, EndIsComplete DEF ReportInv
  <2>5. CASE UNCHANGED crawlVars
    BY <2>5 DEF crawlVars, ReportInv, ReportTypeOK, FetchesAreBounded, Fetched,
                HealthyReportsAreComplete, Allows
  <2> QED
    BY <2>2, <2>3, <2>4, <2>5 DEF ReportNext
<1> QED
  BY <1>1, <1>2, PTL DEF ReportSpec

\* Every page of the scope that links lead to is in a HEALTHY report with all
\* its postings, unless the limit was used up.
THEOREM HealthyIsComplete == ReportSpec => []HealthyReportsAreComplete
<1>1. ReportInv => HealthyReportsAreComplete
  BY DEF ReportInv
<1> QED
  BY <1>1, ReportInvariance, PTL

\* What CrawlPipeline takes for granted of a crawl (CrawlHealthy): a HEALTHY report
\* names jobs, each of them usable, so it can never be the reason to close them all.
THEOREM HealthyReportsNameJobs ==
  ReportSpec => [](report.status = "HEALTHY" => report.jobs \in (SUBSET Ids) \ {{}})
<1>1. ASSUME ReportInv, report.status = "HEALTHY" PROVE report.jobs \in (SUBSET Ids) \ {{}}
  <2> DEFINE read == {p \in {q \in Pages : Allows(q) /\ level[q] <= Depth} :
                        answer[p] = "served"}
  <2>1. /\ read # {} /\ \A p \in read : carried[p] # {}
        /\ report.jobs = UNION {carried[p] : p \in read}
    BY <1>1 DEF ReportInv, HealthyReportsAreComplete
  <2>2. PICK p \in read : carried[p] # {}
    BY <2>1
  <2>3. \E k \in carried[p] : k \in report.jobs
    BY <2>1, <2>2
  <2>4. report.jobs # {}
    BY <2>3
  <2>5. report.jobs \in SUBSET Ids
    BY <1>1 DEF ReportInv, ReportTypeOK
  <2> QED
    BY <2>4, <2>5
<1>2. ReportInv => (report.status = "HEALTHY" => report.jobs \in (SUBSET Ids) \ {{}})
  BY <1>1
<1> QED
  BY <1>2, ReportInvariance, PTL

-----------------------------------------------------------------------------
(* The locations of its jobs *)

Persist ==
  [seen : [Postings -> Names \union {Nowhere}], at : Postings \union {Nowhere},
   found : Regions \union {Nowhere}, written : [Postings -> Row]]

\* The transaction that has not begun.
LEMMA NoPersistTyped == NoPersist \in Persist /\ NoPosting \in Row
BY DEF NoPersist, Persist, NoPosting, Row

\* Type correctness, step by step.
LEMMA LocationTypeKept ==
  ASSUME LocationInv, [LocationNext]_locationVars PROVE LocationTypeOK'
<1> USE LocationAssumption DEF LocationInv, LocationTypeOK, Row
<1>1. ASSUME NEW l \in Regions, CreateLocation(l) \/ UpdateLocation(l) PROVE LocationTypeOK'
  <2>1. PICK n \in Names, active \in BOOLEAN : WriteLocation(l, n, active)
    BY <1>1 DEF CreateLocation, UpdateLocation
  <2>2. /\ region' = [region EXCEPT ![l] = [key |-> n, active |-> active]]
        /\ UNCHANGED <<alias, posting, persist, chosen, placed>>
    BY <2>1 DEF WriteLocation
  <2> QED
    BY <2>2
<1>2. ASSUME NEW l \in Regions, NEW n \in Names, PointAlias(n, l) PROVE LocationTypeOK'
  BY <1>2 DEF PointAlias
<1>3. ASSUME NEW j \in Postings, NEW l \in Regions \union {Nowhere}, AssignJobLocation(j, l)
      PROVE  LocationTypeOK'
  <2>1. posting[j] \in Row
    OBVIOUS
  <2>2. Assigned(posting[j], l) \in Row
    BY <2>1 DEF Assigned
  <2> QED
    BY <1>3, <2>2 DEF AssignJobLocation
<1>4. CASE DeletePostings
  BY <1>4 DEF DeletePostings, NoPosting
<1>5. CASE BeginObservations
  <2>1. PICK seen \in [Postings -> Names \union {Nowhere}] :
          persist' = [NoPersist EXCEPT !.seen = seen]
    BY <1>5 DEF BeginObservations
  <2>2. persist' = [NoPersist EXCEPT !.seen = seen] /\ NoPersist \in Persist
    BY <2>1, NoPersistTyped
  <2>3. persist' \in Persist
    BY <2>2 DEF Persist
  <2> QED
    BY <1>5, <2>3 DEF BeginObservations, Persist
<1>6. CASE CommitObservations
  BY <1>6, NoPersistTyped DEF CommitObservations, Persist
<1>7. CASE RollBackObservations
  BY <1>7, NoPersistTyped DEF RollBackObservations, Persist
<1>8. ASSUME NEW j \in Postings, ResolveLocation(j) PROVE LocationTypeOK'
  <2>1. PICK l \in Regions \union {Nowhere} : persist' = [persist EXCEPT !.at = j, !.found = l]
    BY <1>8 DEF ResolveLocation, Matching
  <2>2. persist \in Persist
    BY DEF Persist
  <2>3. persist' \in Persist
    BY <2>1, <2>2 DEF Persist
  <2> QED
    BY <1>8, <2>3 DEF ResolveLocation, Persist
<1>9. ASSUME NEW j \in Postings, UpsertPosting(j) PROVE LocationTypeOK'
  <2>1. posting[j] \in Row /\ persist.found \in Regions \union {Nowhere} /\ persist \in Persist
    BY DEF Persist
  <2>2. UpsertedPosting(posting[j], persist.found) \in Row
    BY <2>1 DEF UpsertedPosting
  <2>3. persist' \in Persist
    BY <1>9, <2>1, <2>2 DEF UpsertPosting, Persist
  <2> QED
    BY <1>9, <2>3 DEF UpsertPosting, Persist
<1>10. CASE UNCHANGED locationVars
  BY <1>10 DEF locationVars
<1> QED
  BY <1>1, <1>2, <1>3, <1>4, <1>5, <1>6, <1>7, <1>8, <1>9, <1>10 DEF LocationNext

\* A row that is created or replaced by the crawler keeps what was chosen.
LEMMA UpsertKeepsChoices ==
  ASSUME NEW row \in Row, NEW l \in Regions \union {Nowhere}
  PROVE  LET new == UpsertedPosting(row, l) IN
         /\ new.source = row.source
         /\ row.source = "ADMIN" => new.location = row.location
         /\ row.location # Nowhere => new.location # Nowhere
BY DEF UpsertedPosting, Row

\* An assignment names the owner with the location.
LEMMA AssignmentNamesOwner ==
  ASSUME NEW row \in Row, NEW l \in Regions \union {Nowhere}
  PROVE  /\ Assigned(row, l).location = l
         /\ l # Nowhere => Assigned(row, l).source = "ADMIN"
BY DEF Assigned, Row

\* No step of the code loses a choice.
LEMMA ChoicesKept ==
  ASSUME LocationInv, [LocationNext]_locationVars
  PROVE  ChosenLocationsStand' /\ OwnersFollowChoices'
<1> USE DEF LocationInv, ChosenLocationsStand, OwnersFollowChoices
<1> DEFINE Kept == ChosenLocationsStand' /\ OwnersFollowChoices'
<1>1. ASSUME NEW l \in Regions, CreateLocation(l) \/ UpdateLocation(l) PROVE Kept
  BY <1>1 DEF CreateLocation, UpdateLocation, WriteLocation
<1>2. ASSUME NEW l \in Regions, NEW n \in Names, PointAlias(n, l) PROVE Kept
  BY <1>2 DEF PointAlias
<1>3. ASSUME NEW j \in Postings, NEW l \in Regions \union {Nowhere}, AssignJobLocation(j, l)
      PROVE  Kept
  <2>1. posting[j] \in Row /\ ~persist.written[j].there
    BY <1>3 DEF LocationTypeOK, AssignJobLocation
  <2>2. /\ posting' = [posting EXCEPT ![j] = Assigned(posting[j], l)]
        /\ chosen' = [chosen EXCEPT ![j] = l] /\ persist' = persist
        /\ placed' = IF l = Nowhere THEN placed \ {j} ELSE placed \union {j}
    BY <1>3 DEF AssignJobLocation
  <2> QED
    BY <2>1, <2>2, AssignmentNamesOwner DEF LocationTypeOK
<1>4. CASE DeletePostings
  BY <1>4 DEF DeletePostings, NoPersist, NoPosting
<1>5. CASE BeginObservations
  BY <1>5 DEF BeginObservations, NoPersist, NoPosting
<1>6. CASE CommitObservations
  <2>1. \A j \in Postings : posting'[j] = IF persist.written[j].there THEN persist.written[j]
                                           ELSE posting[j]
    BY <1>6 DEF CommitObservations
  <2>2. chosen' = chosen /\ \A j \in Postings : ~persist'.written[j].there
    BY <1>6 DEF CommitObservations, NoPersist, NoPosting
  <2>3. \A j \in placed' : j \notin placed =>
          persist.written[j].there /\ persist.written[j].location # Nowhere
    BY <1>6 DEF CommitObservations
  <2>4. ASSUME NEW j \in Postings
        PROVE  /\ chosen'[j] # Nowhere => posting'[j].location = chosen'[j]
               /\ chosen'[j] # Nowhere => posting'[j].source = "ADMIN"
    BY <2>1, <2>2
  <2>5. ASSUME NEW j \in Postings, j \in placed' PROVE posting'[j].location # Nowhere
    BY <2>1, <2>3, <2>5
  <2> QED
    BY <2>2, <2>4, <2>5
<1>7. CASE RollBackObservations
  BY <1>7 DEF RollBackObservations, NoPersist, NoPosting
<1>8. ASSUME NEW j \in Postings, ResolveLocation(j) PROVE Kept
  <2>1. PICK l : persist' = [persist EXCEPT !.at = j, !.found = l]
    BY <1>8 DEF ResolveLocation
  <2>2. persist'.written = persist.written
    BY <2>1 DEF LocationTypeOK
  <2> QED
    BY <1>8, <2>2 DEF ResolveLocation
<1>9. ASSUME NEW j \in Postings, UpsertPosting(j) PROVE Kept
  <2>1. posting[j] \in Row /\ persist.found \in Regions \union {Nowhere}
    BY DEF LocationTypeOK
  <2>2. persist'.written
          = [persist.written EXCEPT ![j] = UpsertedPosting(posting[j], persist.found)]
    BY <1>9 DEF UpsertPosting, LocationTypeOK
  <2> QED
    BY <1>9, <2>1, <2>2, UpsertKeepsChoices DEF UpsertPosting, LocationTypeOK
<1>10. CASE UNCHANGED locationVars
  BY <1>10 DEF locationVars
<1> QED
  BY <1>1, <1>2, <1>3, <1>4, <1>5, <1>6, <1>7, <1>8, <1>9, <1>10 DEF LocationNext

-----------------------------------------------------------------------------

\* The location found for a text is one the registry has, and so is whatever an
\* update of the registry leaves behind.
LEMMA RegistryGrows ==
  ASSUME LocationInv, NEW l \in Regions, NEW n \in Names, NEW active, WriteLocation(l, n, active)
  PROVE  Registry' = Registry \union {l}
BY LocationAssumption DEF WriteLocation, LocationInv, LocationTypeOK, Registry, Listed

\* No step of the code breaks the tie between what is written and what it replaces.
LEMMA WritesStayInRule ==
  ASSUME LocationInv, [LocationNext]_locationVars PROVE WritesFollowRule'
<1> USE LocationAssumption DEF LocationInv
<1>1. /\ posting \in [Postings -> Row] /\ persist \in Persist
      /\ region \in [Regions -> [key : Names \union {Nowhere}, active : BOOLEAN]]
      /\ WritesFollowRule
  BY DEF LocationTypeOK, Persist
<1>2. /\ NoPersist.found = Nowhere
      /\ \A j \in Postings : ~NoPersist.written[j].there
  BY DEF NoPersist, NoPosting
<1>3. ASSUME NEW l \in Regions, CreateLocation(l) \/ UpdateLocation(l) PROVE WritesFollowRule'
  <2>1. PICK n \in Names, active \in BOOLEAN : WriteLocation(l, n, active)
    BY <1>3 DEF CreateLocation, UpdateLocation
  <2>2. Registry' = Registry \union {l} /\ UNCHANGED <<posting, persist>>
    BY <2>1, RegistryGrows DEF WriteLocation
  <2>3. \A k \in Regions : region'[k].active => Listed(k)'
    BY <1>1, <2>1 DEF WriteLocation, Listed, WritesFollowRule
  <2> QED
    BY <1>1, <2>2, <2>3 DEF WritesFollowRule
<1>4. ASSUME NEW l \in Regions, NEW n \in Names, PointAlias(n, l) PROVE WritesFollowRule'
  <2>1. UNCHANGED <<region, posting, persist>>
    BY <1>4 DEF PointAlias
  <2> QED
    BY <1>1, <2>1 DEF WritesFollowRule, Registry, Listed
<1>5. ASSUME NEW j \in Postings, NEW l \in Regions \union {Nowhere}, AssignJobLocation(j, l)
      PROVE  WritesFollowRule'
  <2>1. /\ UNCHANGED <<region, persist>> /\ ~persist.written[j].there
        /\ \A k \in Postings \ {j} : posting'[k] = posting[k]
    BY <1>1, <1>5 DEF AssignJobLocation
  <2> QED
    BY <1>1, <2>1 DEF WritesFollowRule, Registry, Listed
<1>6. CASE DeletePostings
  <2>1. UNCHANGED <<region, persist>> /\ persist = NoPersist
    BY <1>6 DEF DeletePostings
  <2> QED
    BY <1>1, <1>2, <2>1 DEF WritesFollowRule, Registry, Listed
<1>7. CASE BeginObservations
  <2>1. UNCHANGED region /\ persist'.found = Nowhere
    BY <1>7 DEF BeginObservations, NoPersist
  <2>2. \A j \in Postings : ~persist'.written[j].there
    BY <1>7 DEF BeginObservations, NoPersist, NoPosting
  <2> QED
    BY <1>1, <2>1, <2>2 DEF WritesFollowRule, Registry, Listed
<1>8. CASE CommitObservations \/ RollBackObservations
  <2>1. UNCHANGED region /\ persist' = NoPersist
    BY <1>8 DEF CommitObservations, RollBackObservations
  <2> QED
    BY <1>1, <1>2, <2>1 DEF WritesFollowRule, Registry, Listed
<1>9. ASSUME NEW j \in Postings, ResolveLocation(j) PROVE WritesFollowRule'
  <2>1. PICK l \in Registry \union {Nowhere} : persist' = [persist EXCEPT !.at = j, !.found = l]
    BY <1>1, <1>9 DEF ResolveLocation, Matching, WritesFollowRule, Registry
  <2>2. persist'.found = l /\ persist'.written = persist.written
    BY <1>1, <2>1 DEF Persist
  <2>3. UNCHANGED <<region, posting>>
    BY <1>9 DEF ResolveLocation
  <2> QED
    BY <1>1, <2>2, <2>3 DEF WritesFollowRule, Registry, Listed
<1>10. ASSUME NEW j \in Postings, UpsertPosting(j) PROVE WritesFollowRule'
  <2>1. /\ UNCHANGED <<region, posting>> /\ persist'.found = Nowhere
        /\ persist'.written
             = [persist.written EXCEPT ![j] = UpsertedPosting(posting[j], persist.found)]
    BY <1>1, <1>10 DEF UpsertPosting, Persist
  <2>2. persist'.written[j] = UpsertedPosting(posting[j], persist.found)
    BY <1>1, <2>1 DEF Persist
  <2>3. \A k \in Postings \ {j} : persist'.written[k] = persist.written[k]
    BY <1>1, <2>1 DEF Persist
  <2>4. \A k \in Postings : persist'.written[k].there =>
          \E l \in Registry \union {Nowhere} : persist'.written[k] = UpsertedPosting(posting[k], l)
    BY <1>1, <2>2, <2>3 DEF WritesFollowRule
  <2> QED
    BY <1>1, <2>1, <2>4 DEF WritesFollowRule, Registry, Listed
<1>11. CASE UNCHANGED locationVars
  BY <1>1, <1>11 DEF locationVars, WritesFollowRule, Registry, Listed
<1> QED
  BY <1>3, <1>4, <1>5, <1>6, <1>7, <1>8, <1>9, <1>10, <1>11 DEF LocationNext

-----------------------------------------------------------------------------

\* LocationInv holds in every reachable state.
THEOREM LocationInvariance == LocationSpec => []LocationInv
<1>1. LocationInit => LocationInv
  <2>1. LocationInit => LocationTypeOK
    BY NoPersistTyped, LocationAssumption
       DEF LocationInit, LocationTypeOK, NoPosting, Persist, Row
  <2>2. LocationInit => ChosenLocationsStand /\ OwnersFollowChoices
    BY DEF LocationInit, ChosenLocationsStand, OwnersFollowChoices, NoPersist, NoPosting
  <2>3. LocationInit => WritesFollowRule
    BY DEF LocationInit, WritesFollowRule, NoPersist, NoPosting
  <2> QED
    BY <2>1, <2>2, <2>3 DEF LocationInv
<1>2. LocationInv /\ [LocationNext]_locationVars => LocationInv'
  BY LocationTypeKept, ChoicesKept, WritesStayInRule DEF LocationInv
<1> QED
  BY <1>1, <1>2, PTL DEF LocationSpec

\* An administrator's choice of a location, and a location once resolved, stand
\* against every interleaving with the crawler's resolutions and writes.
THEOREM ChoicesStand == LocationSpec => []ChosenLocationsStand
<1>1. LocationInv => ChosenLocationsStand
  BY DEF LocationInv
<1> QED
  BY <1>1, LocationInvariance, PTL

-----------------------------------------------------------------------------
(* The committed rows: LocationRule *)

\* What the upsert writes is what the rule says.
LEMMA UpsertIsRule ==
  ASSUME NEW job \in Row, NEW l \in Regions \union {Nowhere}
  PROVE  UpsertedPosting(job, l) = Rule!Observed(job, l)
<1> DEFINE a == UpsertedPosting(job, l)
           b == Rule!Observed(job, l)
<1>1. a.there = b.there /\ a.location = b.location /\ a.source = b.source
  BY DEF UpsertedPosting, Rule!Observed, Row
<1>2. a \in Row
  BY DEF UpsertedPosting, Row
<1>3. b \in Row
  BY DEF Rule!Observed, Row
<1> HIDE DEF a, b
<1>4. a = b
  BY <1>1, <1>2, <1>3 DEF Row
<1> QED
  BY <1>4 DEF a, b

\* A commit is one crawl by the rule, with the location found for each job.
LEMMA CommitIsCrawl ==
  ASSUME LocationInv, CommitObservations PROVE Rule!Next
<1> DEFINE done == {j \in Postings : persist.written[j].there}
           is(j, l) == persist.written[j] = UpsertedPosting(posting[j], l)
           found == [j \in done |-> CHOOSE l \in Registry \union {Nowhere} : is(j, l)]
<1>1. \A j \in done : \E l \in Registry \union {Nowhere} : is(j, l)
  BY DEF LocationInv, WritesFollowRule
<1>2. \A j \in done : found[j] \in Registry \union {Nowhere} /\ is(j, found[j])
  BY <1>1
<1>3. found \in [done -> Registry \union {Nowhere}]
  BY <1>2
<1>4. posting \in [Postings -> Row]
  BY DEF LocationInv, LocationTypeOK
<1>5. /\ posting' = [j \in Postings |-> IF j \in done THEN persist.written[j] ELSE posting[j]]
      /\ region' = region
  BY DEF CommitObservations
<1>6. \A j \in done : persist.written[j] = Rule!Observed(posting[j], found[j])
  BY <1>2, <1>4, UpsertIsRule DEF Registry
<1> HIDE DEF found
<1>7. posting' = [j \in Postings |-> IF j \in done THEN Rule!Observed(posting[j], found[j])
                                     ELSE posting[j]]
  BY <1>5, <1>6
<1>8. Registry' = Registry
  BY <1>5 DEF Registry, Listed
<1>9. Rule!Crawl(done, found)
  BY <1>7, <1>8 DEF Rule!Crawl
<1> QED
  BY <1>3, <1>9 DEF Rule!Next

\* Every step does what LocationRule does, or nothing it can see.
LEMMA StepRefinesRule ==
  ASSUME LocationInv, [LocationNext]_locationVars
  PROVE  Rule!Next \/ UNCHANGED <<Registry, posting>>
<1>1. posting \in [Postings -> Row]
  BY DEF LocationInv, LocationTypeOK
<1>2. region' = region => Registry' = Registry
  BY DEF Registry, Listed
<1>3. ASSUME NEW l \in Regions, CreateLocation(l) \/ UpdateLocation(l) PROVE Rule!Next
  <2>1. PICK n \in Names, active \in BOOLEAN : WriteLocation(l, n, active)
    BY <1>3 DEF CreateLocation, UpdateLocation
  <2>2. Registry' = Registry \union {l} /\ posting' = posting
    BY <2>1, RegistryGrows DEF WriteLocation
  <2> QED
    BY <2>2 DEF Rule!Next, Rule!Register
<1>4. ASSUME NEW j \in Postings, NEW l \in Regions \union {Nowhere}, AssignJobLocation(j, l)
      PROVE  Rule!Next
  <2> DEFINE new == [there |-> TRUE, location |-> l,
                     source |-> IF l = Nowhere THEN "AUTO" ELSE "ADMIN"]
  <2>1. Assigned(posting[j], l) = new
    <3>1. posting[j] \in Row /\ posting[j].there
      BY <1>1, <1>4 DEF AssignJobLocation
    <3>2. Assigned(posting[j], l) \in Row
      BY <3>1 DEF Assigned, Row
    <3>3. new \in Row
      BY DEF Row
    <3>4. /\ Assigned(posting[j], l).there = new.there
          /\ Assigned(posting[j], l).location = new.location
          /\ Assigned(posting[j], l).source = new.source
      BY <3>1 DEF Assigned, Row
    <3> HIDE DEF new
    <3> QED
      BY <3>2, <3>3, <3>4 DEF Row
  <2>2. posting' = [posting EXCEPT ![j] = new] /\ posting[j].there /\ region' = region
    BY <1>4, <2>1 DEF AssignJobLocation
  <2>3. l \in Registry \union {Nowhere}
    BY <1>4 DEF AssignJobLocation, Registry
  <2>4. Rule!Assign(j, l)
    BY <1>2, <2>2 DEF Rule!Assign
  <2> QED
    BY <2>3, <2>4 DEF Rule!Next
<1>5. CASE DeletePostings
  BY <1>2, <1>5 DEF DeletePostings, NoPosting, Rule!Next, Rule!DeleteAll, Rule!NoRow
<1>6. CASE CommitObservations
  BY <1>6, CommitIsCrawl
<1>7. ASSUME NEW j \in Postings, ResolveLocation(j) \/ UpsertPosting(j)
      PROVE  UNCHANGED <<Registry, posting>>
  BY <1>2, <1>7 DEF ResolveLocation, UpsertPosting
<1>8. ASSUME NEW l \in Regions, NEW n \in Names, PointAlias(n, l)
      PROVE  UNCHANGED <<Registry, posting>>
  BY <1>2, <1>8 DEF PointAlias
<1>9. CASE BeginObservations \/ RollBackObservations \/ UNCHANGED locationVars
  BY <1>2, <1>9 DEF BeginObservations, RollBackObservations, locationVars
<1> QED
  BY <1>3, <1>4, <1>5, <1>6, <1>7, <1>8, <1>9 DEF LocationNext

\* On the committed rows, a transaction of many statements is one crawl by the
\* rule, whatever administrators do to jobs and registry while it runs.
THEOREM LocationRuleRefined == LocationSpec => RefinesLocationRule
<1>1. LocationInit => Rule!Init
  BY DEF LocationInit, NoPosting, Rule!Init, Rule!NoRow, Registry, Listed
<1>2. ASSUME LocationInv, [LocationNext]_locationVars
      PROVE  [Rule!Next]_<<Registry, posting>>
  BY <1>2, StepRefinesRule
<1> QED
  BY <1>1, <1>2, LocationInvariance, PTL
     DEF LocationSpec, RefinesLocationRule, Rule!Spec, Rule!ruleVars
=============================================================================
