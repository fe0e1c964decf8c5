SPECIFICATION Spec
CONSTANTS
  c1 = c1
  u1 = u1
  u2 = u2
  r1 = r1
  r2 = r2
  Campaigns = {c1}
  Users = {u1,u2}
  Nobody = Nobody
  Requests = {r1, r2}
  Showable = {c1}
  Cost <- CostOf
  Cap = 2
  Budgets = {1, 2}
  MaxRequests = 4
  MaxTroubles = 1
SYMMETRY Symmetry
INVARIANTS
  BooksAgree
  BilledOnceADay
  CapIsExceededByRacesOnly
CHECK_DEADLOCK FALSE
