SPECIFICATION Spec
CONSTANTS
  Threads = {t1, t2}
  Classes = {c1, c2}
  NULL = NULL
SYMMETRY Symmetry
INVARIANTS
  FallbackIsTried
