SPECIFICATION Spec
CONSTANTS
  p1 = p1
  p2 = p2
  n1 = n1
  n2 = n2
  c1 = c1
  s1 = s1
  s2 = s2
  m1 = m1
  m2 = m2
  Products = {p1, p2}
  Stores = {s1, s2}
  Places <- TwoStores
  POs = {n1, n2}
  Recs = {c1}
  product <- Recommended
  None = None
  Managers = {m1, m2}
  Lots = {{p1, p2}}
  Level = 0
  Changes <- OneEitherWay
  Amounts = {0, 1}
SYMMETRY Alike
INVARIANTS
  TypeOK
  ReceivedOnceInFull
  BoughtOnce
  ShortageIsKnown
CHECK_DEADLOCK FALSE
