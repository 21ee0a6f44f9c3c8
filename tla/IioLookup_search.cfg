SPECIFICATION Spec
CONSTANTS
  e1 = e1  e2 = e2  e3 = e3
  target = target  other = other
  Entries = {e1, e2, e3}
  Names = {target, other}
  Target = target
  NoPath = NoPath
SYMMETRY Symm
INVARIANTS
  PathIffPresent
  EmptyIsReported
CHECK_DEADLOCK FALSE
