CONSTANTS
  IdleTimeout = 4
  PingInterval = 2
  WSWriteTimeout = 1
  RevalidateInterval = 3
  APITimeout = 2
  RevalidateMaxFailures = 2
  DenyReason <- MCDenyReason
SPECIFICATION Spec
INVARIANTS
  TypeOK
  RevocationIsBounded
  OutageIsTolerated
  SilenceEnds
  DeafIsNoticed
  
  NothingIsLate
PROPERTIES
  IdleIsTruthful
