------------------------------ MODULE MCBackend ------------------------------
(* Parts of the program that share no state, side by side in one            *)
(* instance: a behaviour is one of any of them, so that nothing is gained   *)
(* or lost by checking them together.                                       *)
EXTENDS
  HomeAssets, PromotionAssets, ClientSessions, MCCvMatching, AdminAccess, JobLocations,
  RateLimiter, CrawlReport

VARIABLE part

Parts == {"home", "promotions", "clients", "cv", "admins", "locations", "limiter",
          "crawl"}

McInit ==
  /\ part \in Parts
  /\ HomeInit /\ PromoInit /\ SessionInit /\ CvInit /\ AdminInit
  /\ LocationInit /\ LimiterInit /\ ReportInit
  \* What a part that does not run starts with is of no interest.
  /\ part # "home" => ~strip
  /\ part # "clients" => jar.session = Nobody
  /\ part # "cv" => cv = CHOOSE f \in Documents : TRUE

\* Nothing outside the part that runs changes.
Apart(p) ==
  /\ part = p /\ UNCHANGED part
  /\ p = "home" \/ UNCHANGED homeVars
  /\ p = "promotions" \/ UNCHANGED promoVars
  /\ p = "clients" \/ UNCHANGED sessionVars
  /\ p = "cv" \/ UNCHANGED cvVars
  /\ p = "admins" \/ UNCHANGED adminVars
  /\ p = "locations" \/ UNCHANGED locationVars
  /\ p = "limiter" \/ UNCHANGED limiterVars
  /\ p = "crawl" \/ UNCHANGED crawlVars

McNext ==
  \/ Apart("home") /\ HomeNext
  \/ Apart("promotions") /\ PromoNext
  \/ Apart("clients") /\ SessionNext
  \/ Apart("cv") /\ CvNext
  \/ Apart("admins") /\ AdminNext
  \/ Apart("locations") /\ LocationNext
  \/ Apart("limiter") /\ LimiterNext
  \/ Apart("crawl") /\ ReportNext

mcVars ==
  <<homeVars, promoVars, sessionVars, cvVars, adminVars, locationVars, limiterVars,
    crawlVars, part>>

\* The types of every part and, where a part has a proof, its inductive invariant.
PartsInv ==
  CASE part = "home" -> HomeInv
    [] part = "promotions" -> PromoInv
    [] part = "clients" -> SessionInv
    [] part = "cv" -> CvInv
    [] part = "admins" -> AdminInv
    [] part = "locations" -> LocationInv
    [] part = "limiter" -> LimiterInv
    [] part = "crawl" -> ReportInv

McSpec == McInit /\ [][McNext]_mcVars

-----------------------------------------------------------------------------
(* Values of the constants *)

\* The actors of every part are the same model values.
CONSTANT Actors

McSymmetry == Permutations(Actors)

\* Two spellings of one address, and one that is none.
McCanonical == "Root@x" :> "root@x" @@ "root@x" :> "root@x" @@ "??" :> NoOne
=============================================================================
