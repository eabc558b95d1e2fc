CONSTANTS
  Conn = {c1}
  Key = {k1}
  HostKey = {h1}
  Password = password
  TTL = 2
SPECIFICATION Spec
INVARIANTS
  AuditNamesTheMethod
