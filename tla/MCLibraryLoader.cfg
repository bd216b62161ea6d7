SPECIFICATION FairSpec
CONSTANTS
  Threads = {t1, t2}
  Classes = {c1, c2, c3}
  NULL = NULL
INVARIANTS
  TypeOK
  NativeCallsAreLinked
  LinkedOnce
PROPERTIES
  LoadedForGood
  UseEnds
