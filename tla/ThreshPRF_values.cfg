SPECIFICATION Spec
CONSTANTS
  x = x  y = y
  Q = 5
  Num = 3
  K = 2
  Input = {x, y}
  HashPoint <- TwoPoints
  Digest <- Encode
  Nonce = {1, 3}
  Secret = {0, 1, 3}
INVARIANTS OneValue KeysInterpolate ProofsVerify ProofsBind
CHECK_DEADLOCK FALSE
