CONSTANTS
    MaxUpdates = 1
    MaxCmds = 2
    MaxBoots = 1
    MaxOps = 0
    Workers = {w1, w2}
    RebootAt <- Immediate
    Ships <- Full
    Pins = {FALSE}
    Capable = TRUE
SPECIFICATION Spec
SYMMETRY Symmetry
INVARIANTS
    InstalledMeansBooted
    NoTwinOffers
    RebootsFollowInstalls
