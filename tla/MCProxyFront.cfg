CONSTANTS
  Conn = {c1}
  MaxWire = 2
SPECIFICATION FairSpec
INVARIANTS
  TypeOK
  NoRawBytes
  NothingIsLeftBehind
  LastWordsArrive
PROPERTIES
  ImplementsContract
  AbandonedEnds
  ServeEnds
