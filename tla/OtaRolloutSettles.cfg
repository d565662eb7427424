CONSTANTS
    MaxUpdates = 1
    MaxCmds = 1
    MaxBoots = 1
    MaxOps = 1
    Workers = {w1}
    RebootAt <- Scheduled
    Ships <- Both
    Pins = {FALSE}
    Capable = TRUE
SPECIFICATION FairSpec
INVARIANTS
    TypeOK
PROPERTIES
    Settles
    CanceledIsFinal
