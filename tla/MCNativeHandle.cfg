SPECIFICATION Spec
CONSTANTS
  Threads = {t1, t2}
  Handles = {h1, h2, h3}
  Boxes = {b1, b2}
  Constructible = {"plain", "ecies"}
  NULL = NULL
SYMMETRY Symmetry
INVARIANTS
  TypeOK
  NoUseAfterFree
  NoDoubleFree
  SoleOwner
  GuardArmed
  CheckStillHolds
  Serialized
\* Ecies loses boxes (see EciesLeak.cfg); once every address of the small heap
\* is lost and every object is collected, nothing can happen any more.
CHECK_DEADLOCK FALSE
