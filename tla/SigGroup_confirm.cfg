SPECIFICATION FairSpec
CONSTANTS
  b1 = b1  b2 = b2  b3 = b3
  x = x  y = y
  None = None
  B = {b1, b2, b3}
  Correct = {b1, b2}
  Proposer = b1
  Request = {x}
  NumReq <- ThreeInstances
INVARIANTS StoredWitnessed ProposedWitnessed
PROPERTIES AcceptedEnds
CHECK_DEADLOCK FALSE
