SPECIFICATION MovingSpec
CONSTANTS
  N = 2
  TypeOf <- MCInstallLane
  Workers = {w1}
  MaxCount = 0
  PullCapable = FALSE
  SendsReceipt = FALSE
  Preinstalled = FALSE
  MaxBoots = 0
  Outcomes = {TRUE}
  Doors = {"dash"}
PROPERTY GateOpens
CHECK_DEADLOCK FALSE
