SPECIFICATION RealtimeSpec
CONSTANTS
  i1 = i1
  i2 = i2
  u1 = u1
  s1 = s1
  s2 = s2
  n1 = n1
  n2 = n2
  Instances = {i1, i2}
  Users = {u1}
  Sockets = {s1, s2}
  Notes = {n1, n2}
  Home <- HomeOf
  Owner <- OwnerOf
  MaxUpsets = 2
CHECK_DEADLOCK FALSE
SYMMETRY Alike
INVARIANTS
  RealtimeTypeOK
  NobodyIsSkipped
  OnceAndInOrder
PROPERTIES
  NotificationsAreDelivered
