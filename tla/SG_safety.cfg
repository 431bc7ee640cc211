SPECIFICATION Spec
CONSTANTS
  A = a
  B = b
  MaxOffers = 3
  MaxCandidates = 2
CHECK_DEADLOCK FALSE
INVARIANTS StuckIsTold CandidatesInTime NoSilentDisagreement
PROPERTIES ImplementsNegotiation
