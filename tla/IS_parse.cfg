SPECIFICATION Spec
CONSTANTS
  Urls = {u1, u2}
  BadUrl = bad
  Names = {n}
  Absent = absent
  MaxServers = 2
  MaxUrls = 2
SYMMETRY Symmetry
CHECK_DEADLOCK FALSE
INVARIANTS FirstWrongDecides AllServersUsed
