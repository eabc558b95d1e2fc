CONSTANTS
  Session = {s1, s2}
  MaxSessions = 1
  DenyReason <- MCNoDeny
SPECIFICATION ShutdownFairSpec
PROPERTIES
  ShutdownCompletes
