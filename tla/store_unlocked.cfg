SPECIFICATION FairSpec
CONSTANTS
  n1 = n1
  n2 = n2
  ev = ev
  Node <- MCNode
  ValidPrograms <- MCValidPrograms
  Evidence = ev
  Mutators = {m1}
  Bumpers = {b1}
  Inits = {i1}
  Readers = {}
  ForceInit = TRUE
  Template <- MCTemplate
  Origin = origin
  Starts <- MCStartsFresh
  None = None
  Partial = Partial
CHECK_DEADLOCK FALSE
INVARIANTS NoStrayTmp
PROPERTIES EveryCommandReturns
