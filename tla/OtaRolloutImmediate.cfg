CONSTANTS
    MaxUpdates = 1
    MaxCmds = 1
    MaxBoots = 1
    MaxOps = 0
    Workers = {w1}
    RebootAt <- Immediate
    Ships <- Full
    Pins = {FALSE}
    Capable = TRUE
SPECIFICATION FairSpec
PROPERTIES
    ImmediateReboots
