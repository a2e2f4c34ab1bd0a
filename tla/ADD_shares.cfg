SPECIFICATION Spec
CONSTANTS
  x = x
  None = None
  Nothing = Nothing
  NumA = 4
  NumB = 4
  Relay = {0, 1}
  Correct = {4, 5, 7}
  Value = {x}
  Request = {x}
  NumReq <- OneInstance
  Forged <- TwoForgers
  Undecodable <- Without6
INVARIANTS TypeOK InstanceRelayed SharesAgree EveryNodeQueues FullDecodes
CHECK_DEADLOCK FALSE
