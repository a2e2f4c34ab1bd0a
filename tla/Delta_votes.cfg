SPECIFICATION Spec
CONSTANTS
  n1 = n1  n2 = n2  n3 = n3  n4 = n4
  x = x  y = y
  None = None
  Node = {n1, n2, n3, n4}
  Relay = {n1}
  Correct = {n1, n2, n3}
  Faulty = {n4}
  Value = {x, y}
  Request = {x}
  Forged <- ProposeY
  NumReq <- OneInstance
INVARIANTS InstanceVoted DoneCounted
CHECK_DEADLOCK FALSE
