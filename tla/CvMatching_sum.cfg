SPECIFICATION CvSpec
CONSTANTS
  Documents <- McDocuments
  Answers <- McAnswers
  Candidates <- McCandidates
  Spelling <- McSpelling
  RoleFamilies <- McFamilies
  MaxLines = 5
  MaxItems = 2
  MaxYears = 100
  Missing = Missing
INVARIANT TotalsAddUp
CHECK_DEADLOCK FALSE
