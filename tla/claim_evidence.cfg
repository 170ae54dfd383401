SPECIFICATION Spec
CONSTANTS
  f = f
  g = g
  Fns = {f, g}
  Bodies <- MCBodies
  Preds <- MCPreds
  Versions = {v1, dirty}
  Dirty = dirty
  MinInt <- MCMinInt
  MaxInt <- MCMaxInt
  SmtInts <- MCSmtInts
  Policies <- MCPolicies
  MaxClaims = 2
  MaxFiles = 3
  MaxLost = 1
  MaxCited = 1
  None = None
CHECK_DEADLOCK FALSE
INVARIANTS TypeOK VerifiedProgramIsSound PinsHaveArtifacts
PROPERTIES FreshProofVerifies
