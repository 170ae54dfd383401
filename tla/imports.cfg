SPECIFICATION FairSpec
CONSTANTS
  a = a
  b = b
  c = c
  A = A
  x = x
  y = y
  n1 = n1
  n2 = n2
  n3 = n3
  Modules = {a, b, c}
  Wirables = {A}
  Concrete = {x, y}
  Names = {n1, n2, n3}
  Traits = {n3}
  Tier <- MCTier
  Libraries <- MCLibraries
  Requests <- MCRequests
  User = User
  Nobody = Nobody
CHECK_DEADLOCK FALSE
INVARIANTS UserShadows NoDisabledTier NoFreeWirables Closed NearestWins
PROPERTIES ResolutionEnds
