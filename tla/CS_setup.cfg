SPECIFICATION Spec
CONSTANTS
  Ids <- SomeIds
  Limits <- SomeLimits
  StreamIds <- SomeStreamIds
  None = none
  MaxChannels = 2
CHECK_DEADLOCK FALSE
INVARIANTS TypeOK ReportsWhatWasAsked NegotiatedKnown NotNegotiatedEarly
