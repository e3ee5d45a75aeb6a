\* Two calls and a power loss over one fuse of each shape.
SPECIFICATION FairSpec
CONSTANTS
    Types <- ShapeTypes
    Rows <- MCRows
    Read <- MCRead
    Requests <- MCRequests
    Bits = {0, 3}
    HighBits = {3}
    BurnsReliable = TRUE
    MaxCalls = 2
    MaxPowerLoss = 1
INVARIANTS
    TypeOK
    OnlyAskedForBurnt
    SensedIsCurrent
    CopiesAgree
PROPERTIES
    KeepsPromise
    CallReturns
