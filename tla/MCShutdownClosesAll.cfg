CONSTANTS
  Session = {s1, s2}
  MaxSessions = 1
  DenyReason <- MCDenyReason
SPECIFICATION Spec
INVARIANTS
  ShutdownClosesAll
