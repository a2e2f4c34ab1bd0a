SPECIFICATION TransportSpec
CONSTANTS
  a1 = a1  b1 = b1  b2 = b2
  m1 = m1  m2 = m2  m3 = m3
  ANode = {a1}
  BNode = {b1, b2}
  Message = {m1, m2, m3}
  MaxLimit = 0
  MaxFaults = 1
SYMMETRY Symmetry
INVARIANTS BlacklistFailed
CHECK_DEADLOCK FALSE
