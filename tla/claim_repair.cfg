SPECIFICATION Spec
CONSTANTS
  f = f
  g = g
  Fns = {f}
  Bodies <- MCLeafBodies
  Preds <- MCPreds
  Versions = {v1, dirty}
  Dirty = dirty
  MinInt <- MCMinInt
  MaxInt <- MCMaxInt
  SmtInts <- MCSmtInts
  Policies <- MCRepairPolicies
  MaxClaims = 2
  MaxFiles = 4
  MaxLost = 1
  MaxCited = 1
  None = None
CHECK_DEADLOCK FALSE
INVARIANTS VerifiedProgramIsSound
