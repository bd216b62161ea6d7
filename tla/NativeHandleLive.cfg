SPECIFICATION FairSpec
CONSTANTS
  Threads = {t1}
  Handles = {h1, h2}
  Boxes = {b1, b2}
  Constructible = {"plain", "sas"}
  NULL = NULL
PROPERTIES
  AbandonedIsReleased
  TakenIsReleased
