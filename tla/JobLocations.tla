------------------------------ MODULE JobLocations ------------------------------
(***************************************************************************)
(* Canonical locations, and who owns the location of a job:                *)
(* LocationService, the SQL of PostgresLocationRepository, and the         *)
(* crawler's persisting transaction, which resolves the location text of a *)
(* job in one statement and writes the job in another.                     *)
(*                                                                         *)
(* Texts are known by their normalized key (locationkey.Normalize,         *)
(* normalize_location_text).  Transactions on one source exclude each      *)
(* other; an administrator's waits for the rows the crawler has written.   *)
(***************************************************************************)
EXTENDS Naturals, FiniteSets

CONSTANTS
  Regions,   \* locations rows
  Postings,  \* job_cache rows of a source
  Names,     \* normalized texts
  Nowhere

ASSUME LocationAssumption == Nowhere \notin Regions \union Names \union Postings

VARIABLES
  region,   \* locations: canonical_key, Nowhere without a row, and is_active
  alias,    \* location_aliases: the location of a text
  posting,  \* job_cache: location_id and location_assignment_source
  persist,  \* the crawler's transaction: the texts it has still to write, the
            \* location it has resolved and the rows it has written
  chosen,   \* history: the location an administrator assigned last
  placed    \* history: jobs that got a location and were not cleared since

locationVars == <<region, alias, posting, persist, chosen, placed>>

NoPosting == [there |-> FALSE, location |-> Nowhere, source |-> "AUTO"]
NoPersist == [seen |-> [j \in Postings |-> Nowhere], at |-> Nowhere, found |-> Nowhere,
              written |-> [j \in Postings |-> NoPosting]]
Row == [there : BOOLEAN, location : Regions \union {Nowhere}, source : {"AUTO", "ADMIN"}]

LocationTypeOK ==
  /\ region \in [Regions -> [key : Names \union {Nowhere}, active : BOOLEAN]]
  /\ alias \in [Names -> Regions \union {Nowhere}]
  /\ posting \in [Postings -> Row]
  /\ persist \in [seen : [Postings -> Names \union {Nowhere}], at : Postings \union {Nowhere},
                  found : Regions \union {Nowhere}, written : [Postings -> Row]]
  /\ chosen \in [Postings -> Regions \union {Nowhere}] /\ placed \subseteq Postings

LocationInit ==
  /\ region = [l \in Regions |-> [key |-> Nowhere, active |-> FALSE]]
  /\ alias = [n \in Names |-> Nowhere]
  /\ posting = [j \in Postings |-> NoPosting]
  /\ persist = NoPersist
  /\ chosen = [j \in Postings |-> Nowhere] /\ placed = {}

Listed(l) == region[l].key # Nowhere

-----------------------------------------------------------------------------
(* The registry *)

\* The unique index on canonical_key: another row has the key (409).
KeyTaken(n, l) == \E k \in Regions \ {l} : region[k].key = n

\* createLocationQuery and updateLocationQuery; no row is ever deleted.
WriteLocation(l, n, active) ==
  /\ ~KeyTaken(n, l)
  /\ region' = [region EXCEPT ![l] = [key |-> n, active |-> active]]
  /\ UNCHANGED <<alias, posting, persist, chosen, placed>>

CreateLocation(l) == ~Listed(l) /\ \E n \in Names, a \in BOOLEAN : WriteLocation(l, n, a)

UpdateLocation(l) == Listed(l) /\ \E n \in Names, a \in BOOLEAN : WriteLocation(l, n, a)

\* Outside the repository: aliases are written in the database.
PointAlias(n, l) ==
  /\ Listed(l)
  /\ alias' = [alias EXCEPT ![n] = l]
  /\ UNCHANGED <<region, posting, persist, chosen, placed>>

-----------------------------------------------------------------------------
(* The administrator *)

\* assignJobLocationQuery: a location makes the row ADMIN, none makes it AUTO.
Assigned(row, l) ==
  [row EXCEPT !.location = l, !.source = IF l = Nowhere THEN "AUTO" ELSE "ADMIN"]

\* AssignJobLocation: 404 for a job or location that does not exist.
AssignJobLocation(j, l) ==
  /\ posting[j].there /\ ~persist.written[j].there
  /\ l # Nowhere => Listed(l)
  /\ posting' = [posting EXCEPT ![j] = Assigned(@, l)]
  /\ chosen' = [chosen EXCEPT ![j] = l]
  /\ placed' = IF l = Nowhere THEN placed \ {j} ELSE placed \union {j}
  /\ UNCHANGED <<region, alias, persist>>

\* DeleteJobLink takes the jobs along, between two transactions of the crawler.
DeletePostings ==
  /\ persist = NoPersist
  /\ posting' = [j \in Postings |-> NoPosting]
  /\ chosen' = [j \in Postings |-> Nowhere] /\ placed' = {}
  /\ UNCHANGED <<region, alias, persist>>

-----------------------------------------------------------------------------
(* The crawler: persist_healthy_observations *)

BeginObservations ==
  /\ persist = NoPersist
  /\ \E seen \in [Postings -> Names \union {Nowhere}] :
       persist' = [NoPersist EXCEPT !.seen = seen]
  /\ UNCHANGED <<region, alias, posting, chosen, placed>>

\* resolve_location_id: an active location with this alias or this key, one of
\* them if they differ.
Matching(n) ==
  {l \in Regions : region[l].active /\ (alias[n] = l \/ region[l].key = n)}

ResolveLocation(j) ==
  /\ persist.at = Nowhere /\ persist.seen[j] # Nowhere
  /\ LET found == Matching(persist.seen[j])
     IN \E l \in IF found = {} THEN {Nowhere} ELSE found :
          persist' = [persist EXCEPT !.at = j, !.found = l]
  /\ UNCHANGED <<region, alias, posting, chosen, placed>>

\* Mutant: whatever was resolved replaces the location of the row.
UpsertedPostingOver(row, l) == [row EXCEPT !.there = TRUE, !.location = l]

\* Mutant: every crawl makes the row its own.
UpsertedPostingReset(row, l) ==
  [row EXCEPT !.there = TRUE, !.source = "AUTO",
              !.location = IF row.source = "ADMIN" \/ l = Nowhere THEN row.location ELSE l]

\* UPSERT_JOB_CACHE_QUERY: an ADMIN row keeps its location, an AUTO row keeps it
\* when nothing was resolved, and the owner stays; a new row is AUTO.
UpsertedPosting(row, l) ==
  [row EXCEPT !.there = TRUE,
              !.location = IF row.source = "ADMIN" \/ l = Nowhere THEN row.location ELSE l]

\* The statement works on the row as it is committed by then.
UpsertPosting(j) ==
  /\ persist.at = j
  /\ persist' = [persist EXCEPT !.at = Nowhere, !.found = Nowhere, !.seen[j] = Nowhere,
                                !.written[j] = UpsertedPosting(posting[j], persist.found)]
  /\ UNCHANGED <<region, alias, posting, chosen, placed>>

CommitObservations ==
  LET done == {j \in Postings : persist.written[j].there}
  IN
  /\ persist # NoPersist
  /\ persist.at = Nowhere /\ \A j \in Postings : persist.seen[j] = Nowhere
  /\ posting' = [j \in Postings |-> IF j \in done THEN persist.written[j] ELSE posting[j]]
  /\ placed' = placed \union {j \in done : persist.written[j].location # Nowhere}
  /\ persist' = NoPersist
  /\ UNCHANGED <<region, alias, chosen>>

\* An error, a lost connection or the end of the process.
RollBackObservations ==
  /\ persist # NoPersist
  /\ persist' = NoPersist
  /\ UNCHANGED <<region, alias, posting, chosen, placed>>

-----------------------------------------------------------------------------

LocationNext ==
  \/ \E l \in Regions : CreateLocation(l) \/ UpdateLocation(l) \/ \E n \in Names : PointAlias(n, l)
  \/ \E j \in Postings, l \in Regions \union {Nowhere} : AssignJobLocation(j, l)
  \/ DeletePostings
  \/ BeginObservations \/ CommitObservations \/ RollBackObservations
  \/ \E j \in Postings : ResolveLocation(j) \/ UpsertPosting(j)

LocationSpec == LocationInit /\ [][LocationNext]_locationVars

-----------------------------------------------------------------------------
(* Properties *)

\* "The crawler must never overwrite or clear" the location an administrator
\* chose, and "an unresolved (NULL) result must not clobber an already-resolved
\* value" (store.rs:544-548): also when the assignment falls between a resolution
\* and the write that uses it, when the registry changes, or after a roll-back.
ChosenLocationsStand ==
  \A j \in Postings :
    /\ chosen[j] # Nowhere => posting[j].location = chosen[j]
    /\ j \in placed => posting[j].location # Nowhere

\* Why: an assignment names the owner with the location, and what the crawler
\* has written but not committed keeps the owner of the row it will replace, its
\* location if that is the administrator's, and a location if there is one.
OwnersFollowChoices ==
  \A j \in Postings :
    /\ chosen[j] # Nowhere => posting[j].source = "ADMIN"
    /\ persist.written[j].there =>
         /\ persist.written[j].source = posting[j].source
         /\ posting[j].source = "ADMIN" => persist.written[j].location = posting[j].location
         /\ posting[j].location # Nowhere => persist.written[j].location # Nowhere

Registry == {l \in Regions : Listed(l)}

\* What the open transaction has resolved exists, and what it has written is the
\* rule applied to the row as it is committed now, not as it was at some time.
WritesFollowRule ==
  /\ \A l \in Regions : region[l].active => Listed(l)
  /\ persist.found \in Registry \union {Nowhere}
  /\ \A j \in Postings : persist.written[j].there =>
       \E l \in Registry \union {Nowhere} : persist.written[j] = UpsertedPosting(posting[j], l)

\* The inductive invariant.
LocationInv ==
  /\ LocationTypeOK
  /\ ChosenLocationsStand
  /\ OwnersFollowChoices
  /\ WritesFollowRule

\* Resolution in one statement and the write in another amount to the rule in one
\* instant: every step on the committed rows is an assignment, a deletion or one
\* crawl by the rule, with locations the registry has.
Rule == INSTANCE LocationRule WITH known <- Registry, row <- posting

RefinesLocationRule == Rule!Spec
=============================================================================
