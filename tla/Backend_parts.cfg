SPECIFICATION McSpec
CONSTANTS
  Actors = {h1, h2}
  Editors = {h1, h2}
  Slots = {s1}
  Orders = {y1, y2}
  Assets = {x0, x1}
  Legacy = x0
  Cleaners = {w1}
  BatchSize = 1
  NoImage = NoImage
  MaxSlips = 1
  Publishers = {h1, h2}
  Places = {s1}
  Pictures = {x1, x2}
  NoPicture = NoPicture
  MaxErrors = 1
  Tabs = {h1, h2}
  Sessions = {y0, y1}
  OldSession = y0
  Subs = {g}
  Users = {x1, x2}
  Nobody = Nobody
  Documents <- McDocuments
  Answers <- McAnswers
  Candidates <- McCandidates
  Spelling <- McSpelling
  RoleFamilies <- McFamilies
  MaxLines = 5
  MaxItems = 2
  MaxYears = 100
  Missing = Missing
  Callers = {h1, h2}
  Spellings = {"Root@x", "root@x", "??"}
  Canonical <- McCanonical
  Passwords = {p, q, long}
  Long = {long}
  Accounts = {x1, x2}
  Visits = {y1}
  NoOne = NoOne
  Regions = {x1, x2}
  Postings = {h1, h2}
  Names = {y0, y1}
  Nowhere = Nowhere
  Peers = {h1, h2, h3}
  Limit = 2
  Window = 2
  Interval = 1
  MaxBuckets = 2
  Lag = 1
  Pages = {h1, h2, y0, y1}
  Base = y0
  Outside = {y1}
  Depth = 1
  PageLimit = 3
  Capacity = 2
  Ids = {x1}
  Unusable = Unusable
INVARIANTS PartsInv ReferencesAreAlive OrphansHaveCause PublicSectionsHaveImages
INVARIANTS BrokenSlidesHaveCause
INVARIANTS RefreshesConverge AccountsAreAnchored
INVARIANTS TotalsNearSum MoreEvidenceNeverHurts MatchingTextSurvives
INVARIANTS DeactivationHolds
INVARIANTS ChosenLocationsStand
INVARIANTS HealthyReportsAreComplete
INVARIANTS QuotaHolds RefusalsAreDeserved
PROPERTIES DeadSessionsStayDead DeadVisitsAreFrozen RunningWindowsAreSpared RefinesLocationRule
SYMMETRY McSymmetry
CHECK_DEADLOCK FALSE
