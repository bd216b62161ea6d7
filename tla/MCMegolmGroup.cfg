CONSTANTS
  Peers = {p, q}
  Outs = {g1}
  Versions = {v1, v2}
  Handles = {h1, h2, h3}
  MaxU32 = 2
  MaxSent = 2
  MaxStrings = 1
  NULL = NULL
SPECIFICATION Spec
SYMMETRY Symmetric
CONSTRAINT WithinBudget
INVARIANTS
  TypeOK
  NoAccessBelowGrant
  SharedKeyCovers
  IndicesAreFresh
PROPERTY
  ImplementsReach
