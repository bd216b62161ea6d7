SPECIFICATION Spec
CONSTANTS
  Threads = {t1, t2}
  Handles = {h1, h2}
  Boxes = {b1, b2}
  Constructible = {"ecies"}
  NULL = NULL
SYMMETRY Symmetry
INVARIANTS
  NoOrphan
