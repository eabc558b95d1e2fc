CONSTANTS
  Session = {s1, s2}
  MaxSessions = 1
  DenyReason <- MCDenyReason
SPECIFICATION Spec
SYMMETRY Symmetric
INVARIANTS
  TypeOK
  SlotAccounting
  UpstreamCap
  NoUpstreamOutlivesEnd
  RelayIsAudited
  RefusedIsUnseen
  OnlyFailuresLinger
  SnapshotSettled
PROPERTIES
  ImplementsPool
