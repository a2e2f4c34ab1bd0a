SPECIFICATION ReplicaSpec
CONSTANTS
  s1 = s1  s2 = s2
  b1 = b1  b2 = b2
  c1 = c1  c2 = c2
  r1 = r1  r2 = r2  r3 = r3
  ANode = {s1, s2}
  BNode = {b1, b2}
  First = s1
  Client = {c1, c2}
  NumReq <- OneInstance
  Reply = {r1, r2, r3}
  Message <- Messages
  Deployment <- AllModes
  Served <- OfEachMode
  MaxBatchSize = 2
  MaxLimit = 0
  MaxFaults = 1
  MaxSent <- Sendings
SYMMETRY Symmetry
INVARIANTS QuorumsMeet WitnessCorrect QuorumReachable BlacklistEarned Reliable OnePlace ClientsReturn FirstServed
CHECK_DEADLOCK FALSE
