SPECIFICATION FairSpec
CONSTANTS
  Threads = {t1, t2}
  Sessions = {s1, s2, s3}
  MaxHash = 2
  TieLock = TieLock
  NULL = NULL
INVARIANTS
  TypeOK
  OperandsStayOpen
  OperandsAreExclusive
  NoDeadlock
  OwnersAreRight
PROPERTY
  CallsComplete
