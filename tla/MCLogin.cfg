CONSTANTS
  Conn = {c1}
  Key = {k1, k2}
  HostKey = {h1, h2}
  Password = password
  TTL = 3
SPECIFICATION Spec
SYMMETRY Symmetric
INVARIANTS
  TypeOK
  PipedIsVouchedFor
  LoginIsAudited
  AuditIsHonest
  PinsAreRecent
PROPERTIES
  OneCallPerWindow
