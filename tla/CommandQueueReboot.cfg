SPECIFICATION Spec
CONSTANTS
  N = 1
  TypeOf <- MCOneReboot
  Workers = {w1, w2}
  MaxCount = 0
  PullCapable = FALSE
  SendsReceipt = TRUE
  Preinstalled = FALSE
  MaxBoots = 2
  Outcomes = {TRUE}
  Doors = {"flush", "checkin", "redrive", "create"}
INVARIANT RebootNeedsBoot
INVARIANT ReceivedRebootSettles
PROPERTY LivesAsPromised
CHECK_DEADLOCK FALSE
SYMMETRY WorkerSymmetry
