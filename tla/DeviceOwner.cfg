SPECIFICATION FairSpec
CONSTANTS
  Copies = {s1, s2}
  None = None
  MaxConnects = 2
  QueueCap = 1
INVARIANT TypeOK
INVARIANT LossOnItsWay
PROPERTY OwnerFound
PROPERTY LossSeen
CHECK_DEADLOCK FALSE
