\* A feed's copy of one search result shows the score of another.
SPECIFICATION BoardSpec
CONSTANTS
  Listing <- Copies
  MaxCards = 9
  MaxArrivals = 2
INVARIANTS
  EvidenceSurvives
CHECK_DEADLOCK FALSE
