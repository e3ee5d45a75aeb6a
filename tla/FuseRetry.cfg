\* Does a confirmed burn hold every row, after a power loss and a retry?
SPECIFICATION Spec
CONSTANTS
    Types = {"SECURITY_MODE"}
    Rows <- MCRows
    Read <- MCRead
    Requests <- MCRequests
    Bits = {0, 3}
    HighBits = {3}
    BurnsReliable = TRUE
    MaxCalls = 2
    MaxPowerLoss = 1
INVARIANTS
    ConfirmedMeansBurnt
