SPECIFICATION Spec
CONSTANTS
  p = p
  l1 = l1
  l2 = l2
  t = t
  r = r
  h1 = h1
  h2 = h2
  bad = bad
  odd = odd
  gone = gone
  Programs = {p}
  Pairs = {l1, l2, t, r}
  Owner <- MCOwner
  Kind <- MCKind
  Path <- MCPath
  Shapes = {h1, h2, bad, odd, gone}
  Outcomes <- MCOutcomes
  Answer <- MCAnswer
  MaxEdits = 2
CHECK_DEADLOCK FALSE
INVARIANTS EvidenceIntact
PROPERTIES BumpRepins
