CONSTANTS
  Objs = {o1, o2, o3}
  NULL = NULL
SPECIFICATION Spec
SYMMETRY Symmetric
INVARIANTS
  TypeOK
  EveryFailureIsSeen
  RejectedMeansUnchanged
  NothingIsLost
  HandlesAreLive
  CheckedBeforeUse
