\* Three sessions over blobs that share fuses, and a power loss.
SPECIFICATION Spec
CONSTANTS
    Fuses <- MCFuses
    Bits = {0, 1, 2}
    Blobs <- MCBlobs
    EccRegion <- MCEccRegion
    Pattern <- MCPattern
    MaxSessions = 3
    MaxPowerLoss = 1
INVARIANTS
    LoadedBlobBurnt
    Resumable
PROPERTIES
    LockedLast
CHECK_DEADLOCK FALSE
