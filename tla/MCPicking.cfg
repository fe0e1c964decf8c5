SPECIFICATION Spec
CONSTANTS
  o1 = o1
  o2 = o2
  w1 = w1
  w2 = w2
  p1 = p1
  p2 = p2
  i1 = i1
  i2 = i2
  Orders = {o1, o2}
  Waves = {w1, w2}
  Pickers = {p1, p2}
  Items = {i1, i2}
  Expected <- Quantities
  Nobody = Nobody
SYMMETRY Alike
INVARIANTS
  TypeOK
  CompletedWavesArePicked
  OpenWavesRaced
  OnePickPerOrder
