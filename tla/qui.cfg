SPECIFICATION Spec
CONSTANTS
  r1 = r1  r2 = r2  f1 = f1  p1 = p1
  Roots = {r1, r2}
  Files = {f1}
  None = None
  Sessions <- MCSessions
  Tomls <- MCTomls
  Contents <- MCContents
  Filters <- MCFilters
  MaxEdits = 1
INVARIANTS TypeOK TabsFit ShowsTheActiveProgram ActiveIsAnchored PickerInSync NoDeadEnd
CHECK_DEADLOCK FALSE
