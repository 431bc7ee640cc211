SPECIFICATION FairSpec
CONSTANTS
  A = a
  B = b
  MaxOffers = 2
  MaxCandidates = 1
CHECK_DEADLOCK FALSE
PROPERTY OfferAnswered
