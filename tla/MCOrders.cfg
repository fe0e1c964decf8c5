SPECIFICATION Spec
CONSTANTS
  o1 = o1
  w1 = w1
  Orders = {o1}
  Waves = {w1}
  Reach <- AllStatuses
INVARIANTS
  RefundIsAnnounced
PROPERTIES
  EndedOrdersMoveByRacesOnly
