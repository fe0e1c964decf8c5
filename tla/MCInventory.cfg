SPECIFICATION Spec
CONSTANTS
  i1 = i1
  i2 = i2
  r1 = r1
  r2 = r2
  o1 = o1
  c1 = c1
  Sweeper = Sweeper
  Consumer = Consumer
  NoOrder = NoOrder
  Orders = {o1}
  ResIds = {r1, r2}
  Items = {i1}
  Clerks = {c1}
  Quantities <- Signed
  Lines <- SameRow
  ReorderLevel = 1
  MaxReceived = 2
  MaxRemoved = 1
  MaxFailures = 1
SYMMETRY Symm
VIEW Seen
INVARIANTS
  TypeOK
  NegativeStockPrevention
  HoldIsCovered
  BooksBalance
  SettlementsBounded
PROPERTIES
  OutcomeChangesAreStale
  LowStockAnnounced
