SPECIFICATION DeliverySpec
CONSTANTS
  N = 1
  TypeOf <- MCOneShell
  Workers = {w1, w2}
  MaxCount = 0
  PullCapable = FALSE
  SendsReceipt = TRUE
  Preinstalled = FALSE
  MaxBoots = 0
  Outcomes = {TRUE}
  Doors = {"flush", "advance", "dash", "redrive"}
INVARIANT StillDue
PROPERTY Reached
PROPERTY LivesAsPromised
CHECK_DEADLOCK FALSE
