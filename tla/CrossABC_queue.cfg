SPECIFICATION ABCSpec
CONSTANTS
  a1 = a1  a2 = a2  a3 = a3
  b1 = b1  b2 = b2  b3 = b3  b4 = b4  b5 = b5  b6 = b6  b7 = b7
  x = x  y = y
  None = None
  NumA = 4
  Relay = {a1, a2}
  Faulty = {}
  Forged = {}
  Value = {x}
  Request = {x}
  NumReq <- TwoInstances
  B = {b1, b2, b3, b4, b5, b6, b7}
  Correct = {b1, b2, b3}
  Proposer = b1
  Height = {0, 1}
  AddVersion = 0
INVARIANTS QueueFresh CertifiedByQuorum OneCertificate AllDelivered
CHECK_DEADLOCK FALSE
