CONSTANTS
  Capacity = 1
  Limit = 1
  MaxOneTime = 2
  MaxFallback = 3
  Chans = {s1}
  Handles = {h1}
  MaxMessages = 2
  MaxNonce = 3
  NULL = NULL
  Budget = 5
SPECIFICATION MCSpec
CHECK_DEADLOCK FALSE
CONSTRAINT WithinBudget
INVARIANTS
  TypesOK
  ClaimableKeysAreUsable
  NoDeadChannel
  DeliveredOnce
  EciesInOrder
  EciesSkipsOnFailure
