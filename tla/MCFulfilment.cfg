SPECIFICATION FulfilmentSpec
CONSTANTS
  i1 = i1
  r1 = r1
  o1 = o1
  w1 = w1
  Sweeper = Sweeper
  Consumer = Consumer
  NoOrder = NoOrder
  Orders = {o1}
  ResIds = {r1}
  Items = {i1}
  Clerks = {}
  Waves = {w1}
  Reach = {"PENDING", "CONFIRMED", "READY_FOR_PICKING", "READY_FOR_DISPATCH", "CANCELLED"}
  Quantities = {1}
  Lines <- OneUnit
  ReorderLevel = 0
  MaxReceived = 1
  MaxRemoved = 0
  MaxFailures = 1
VIEW Seen
INVARIANTS
  ReleaseIsOnItsWay
