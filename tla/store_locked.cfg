SPECIFICATION FairSpec
CONSTANTS
  n1 = n1
  n2 = n2
  ev = ev
  Node <- MCNode
  ValidPrograms <- MCValidPrograms
  Evidence = ev
  Mutators = {m1, m2}
  Bumpers = {}
  Inits = {}
  Readers = {r1}
  ForceInit = FALSE
  Template <- MCTemplate
  Origin = origin
  Starts <- MCStarts
  None = None
  Partial = Partial
CHECK_DEADLOCK FALSE
INVARIANTS TypeOK LockDiscipline WholePrograms NoStrayTmp
PROPERTIES NoLostUpdate ImplementsAtomicStore EveryCommandReturns
