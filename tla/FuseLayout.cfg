\* One call on every fuse of the table, burnt by reliable hardware.
SPECIFICATION Spec
CONSTANTS
    Types <- AllTypes
    Rows <- MCRows
    Read <- MCRead
    Requests <- OneWordRequests
    Bits = {0, 1, 2, 3}
    HighBits = {3}
    BurnsReliable = TRUE
    MaxCalls = 1
    MaxPowerLoss = 0
INVARIANTS
    SuccessMeansValue
