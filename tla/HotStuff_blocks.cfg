SPECIFICATION Spec
CONSTANTS
  b1 = b1  b2 = b2  b3 = b3
  NumA = 4
  B = {b1, b2}
  Correct = {b1, b2}
  Proposer = b1
  Height = {1, 2, 3, 5, 6, 7, 8, 9}
  AddVersion = 1
ACTION_CONSTRAINT Bounds
INVARIANTS CertifiedByQuorum FollowersInOrder FollowersDeliver
PROPERTY ImplementsChain
CHECK_DEADLOCK FALSE
