SPECIFICATION Spec
CONSTANTS
  N = 2
  TypeOf <- MCInstallLane
  Workers = {w1}
  MaxCount = 0
  PullCapable = TRUE
  SendsReceipt = FALSE
  Preinstalled = FALSE
  MaxBoots = 0
  Outcomes = {TRUE, FALSE}
  Doors = {"flush", "pull", "checkin", "create", "dash"}
INVARIANT TypeOK
INVARIANT LaneOrder
INVARIANT OutcomeIsReal
PROPERTY SettledIsFinal
PROPERTY CancelHolds
CHECK_DEADLOCK FALSE
