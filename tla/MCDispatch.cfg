SPECIFICATION Spec
CONSTANTS
  o1 = o1
  o2 = o2
  r1 = r1
  r2 = r2
  b1 = b1
  b2 = b2
  Orders = {o1, o2}
  Riders = {r1, r2}
  Batches = {b1, b2}
  Nobody = Nobody
  NoBatch = NoBatch
  MaxBatch = 1
  MaxLoad = 1
  MaxRequests = 4
  Forced = {"IDLE"}
  Reach = {"READY"}
SYMMETRY Alike
INVARIANTS
  TypeOK
  NextStepIsOpen
  OffersNameRider
  OneOpenDraft
  
CHECK_DEADLOCK FALSE
