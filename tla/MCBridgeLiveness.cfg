CONSTANTS
  Session = {s1}
  MaxSessions = 1
  DenyReason <- MCDenyReason
SPECIFICATION FairSpec
PROPERTIES
  TerminatedEnds
  AbandonedSlotComesBack
