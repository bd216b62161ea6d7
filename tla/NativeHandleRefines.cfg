SPECIFICATION Spec
CONSTANTS
  Threads = {t1, t2}
  Handles = {h1, h2}
  Boxes = {b1, b2}
  Constructible = {"plain", "sas"}
  NULL = NULL
INVARIANT
  NoOrphan
PROPERTIES
  ImplementsOwnership
  GuardedPointer
