SPECIFICATION FairSpec
CONSTANTS
  e1 = e1
  e2 = e2
  e3 = e3
  Events = {e1, e2, e3}
  Processors = {p1, p2}
  p1 = p1
  p2 = p2
  Stamp <- StampOf
  Limit = 2
  MaxLost = 1
INVARIANTS
  TypeOK
  ResentOnlyAfterLoss
PROPERTIES
  ImplementsDelivery
  EverySettled
\* Once every event is settled the processors only poll.
CHECK_DEADLOCK FALSE
