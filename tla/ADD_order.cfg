SPECIFICATION Spec
CONSTANTS
  x = x
  None = None
  Nothing = Nothing
  NumA = 4
  NumB = 4
  Relay = {0, 1}
  Correct = {4, 5, 6, 7}
  Value = {x}
  Request = {x}
  NumReq <- OneInstance
  Forged = {}
  Undecodable = {}
INVARIANTS Reconstructs
CHECK_DEADLOCK FALSE
