CONSTANTS
    MaxChanges = 3
    MaxSockets = 3
    MaxPages = 2
    Presences = 2
    Updates = 1
SPECIFICATION Spec
INVARIANT LastChangeArrives
INVARIANT BadgeComesTrue
CHECK_DEADLOCK FALSE
