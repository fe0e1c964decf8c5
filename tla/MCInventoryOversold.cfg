SPECIFICATION Spec
CONSTANTS
  i1 = i1
  i2 = i2
  r1 = r1
  r2 = r2
  o1 = o1
  c1 = c1
  Sweeper = Sweeper
  Consumer = Consumer
  NoOrder = NoOrder
  Orders = {o1}
  ResIds = {r1, r2}
  Items = {i1, i2}
  Clerks = {}
  Quantities = {1}
  Lines <- TwoRows
  ReorderLevel = 0
  MaxReceived = 1
  MaxRemoved = 0
  MaxFailures = 0
INVARIANTS
  NoPhantomUnits
