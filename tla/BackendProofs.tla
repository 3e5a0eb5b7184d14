----------------------------- MODULE BackendProofs -----------------------------
(***************************************************************************)
(* Theorems about the parts of MCBackend side by side: what is proved of a *)
(* part on its own holds of it among the others.                           *)
(***************************************************************************)
EXTENDS MCBackend, ImageProofs, ClientSessionsProofs, CvMatchingProofs, AccessProofs,
        CrawledJobsProofs

\* Each part starts as it does alone, and one part runs.
LEMMA PartsStart ==
  McInit => /\ part \in Parts
            /\ HomeInit /\ PromoInit /\ SessionInit /\ CvInit /\ AdminInit
            /\ LocationInit /\ LimiterInit /\ ReportInit
BY DEF McInit

\* A step of the instance is a step of each part, or leaves that part as it is.
LEMMA PartsStep ==
  ASSUME [McNext]_mcVars
  PROVE  /\ part' = part
         /\ [HomeNext]_homeVars
         /\ [PromoNext]_promoVars
         /\ [SessionNext]_sessionVars
         /\ [CvNext]_cvVars
         /\ [AdminNext]_adminVars
         /\ [LocationNext]_locationVars
         /\ [LimiterNext]_limiterVars
         /\ [ReportNext]_crawlVars
<1>1. CASE Apart("home") /\ HomeNext
  BY <1>1 DEF Apart
<1>2. CASE Apart("promotions") /\ PromoNext
  BY <1>2 DEF Apart
<1>3. CASE Apart("clients") /\ SessionNext
  BY <1>3 DEF Apart
<1>4. CASE Apart("cv") /\ CvNext
  BY <1>4 DEF Apart
<1>5. CASE Apart("admins") /\ AdminNext
  BY <1>5 DEF Apart
<1>6. CASE Apart("locations") /\ LocationNext
  BY <1>6 DEF Apart
<1>7. CASE Apart("limiter") /\ LimiterNext
  BY <1>7 DEF Apart
<1>8. CASE Apart("crawl") /\ ReportNext
  BY <1>8 DEF Apart
<1>9. CASE UNCHANGED mcVars
  BY <1>9 DEF mcVars
<1> QED
  BY <1>1, <1>2, <1>3, <1>4, <1>5, <1>6, <1>7, <1>8, <1>9 DEF McNext

\* So every behaviour of the instance is one of each part.
LEMMA PartsRun ==
  McSpec => /\ [](part \in Parts)
            /\ HomeSpec
            /\ PromoSpec
            /\ SessionSpec
            /\ CvSpec
            /\ AdminSpec
            /\ LocationSpec
            /\ LimiterSpec
            /\ ReportSpec
<1>1. part \in Parts /\ [McNext]_mcVars => (part \in Parts)'
  BY PartsStep
<1>2. [McNext]_mcVars => [HomeNext]_homeVars
  BY PartsStep
<1>3. [McNext]_mcVars => [PromoNext]_promoVars
  BY PartsStep
<1>4. [McNext]_mcVars => [SessionNext]_sessionVars
  BY PartsStep
<1>5. [McNext]_mcVars => [CvNext]_cvVars
  BY PartsStep
<1>6. [McNext]_mcVars => [AdminNext]_adminVars
  BY PartsStep
<1>7. [McNext]_mcVars => [LocationNext]_locationVars
  BY PartsStep
<1>8. [McNext]_mcVars => [LimiterNext]_limiterVars
  BY PartsStep
<1>9. [McNext]_mcVars => [ReportNext]_crawlVars
  BY PartsStep
<1> QED
  BY <1>1, <1>2, <1>3, <1>4, <1>5, <1>6, <1>7, <1>8, <1>9, PartsStart, PTL
     DEF McSpec, HomeSpec, PromoSpec, SessionSpec, CvSpec, AdminSpec, LocationSpec,
         LimiterSpec, ReportSpec

-----------------------------------------------------------------------------

\* The inductive invariant of the part that runs holds in every reachable state of
\* the instance.
THEOREM PartsStand == McSpec => []PartsInv
<1>1. /\ part \in Parts
      /\ HomeInv
      /\ PromoInv
      /\ SessionInv
      /\ CvInv
      /\ AdminInv
      /\ LocationInv
      /\ LimiterInv
      /\ ReportInv
      => PartsInv
  BY DEF Parts, PartsInv
<1> QED
  BY <1>1, PartsRun, HomeInvariance, PromotionInvariance, SessionInvariance, CvInvariance,
     AdminInvariance, LocationInvariance, LimiterInvariance, ReportInvariance, PTL
=============================================================================
