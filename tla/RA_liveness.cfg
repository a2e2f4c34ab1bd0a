SPECIFICATION FairSpec
CONSTANTS
  a1 = a1  a2 = a2  a3 = a3  a4 = a4
  b1 = b1  b2 = b2  b3 = b3  b4 = b4
  x = x  y = y
  None = None
  A = {a1, a2, a3, a4}
  Relay = {a1, a2}
  Forged = {}
  B = {b1, b2, b3, b4}
  Correct = {b1, b2, b3}
  Value = {x}
  Request = {x}
  NumReq <- OneInstance
PROPERTIES Started EchoQuorumDelivers
CHECK_DEADLOCK FALSE
