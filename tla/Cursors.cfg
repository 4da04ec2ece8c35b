SPECIFICATION Spec
CONSTANTS
  Cursors = {c1, c2}
  c1 = c1
  c2 = c2
  Charsets = {"latin1", "utf8mb4", "klingon"}
  Unknown = {"klingon"}
  Clients <- MCClients
  None = None
SYMMETRY MCSymmetry
INVARIANTS
  TypeOK
  WireOwned
  FetchIsNext
  FetchedAll
  RowsOfExecuted
  CloseFrees
  CloseRaises
  WarningsShown
  AtomicBlocks
  CharsetInSync
