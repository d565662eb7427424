SPECIFICATION Spec
CONSTANTS
  N = 1
  TypeOf <- MCOneInstall
  Workers = {w1}
  MaxCount = 0
  PullCapable = FALSE
  SendsReceipt = TRUE
  Preinstalled = FALSE
  MaxBoots = 0
  Outcomes = {TRUE}
  Doors = {"flush", "dash"}
PROPERTY InterimKeepsTerminal
CHECK_DEADLOCK FALSE
