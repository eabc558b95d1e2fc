CONSTANTS
  Conn = {c1, c2}
  Key = {k1}
  HostKey = {h1}
  Password = password
  TTL = 2
SPECIFICATION Spec
SYMMETRY Symmetric
INVARIANTS
  RevokedStaysOut
PROPERTIES
  ImplementsContract
