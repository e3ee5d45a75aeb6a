\* Three boots of any images, the burns interrupted or failing anywhere.
SPECIFICATION Spec
CONSTANTS
    FuseBits = 3
    ShiftWraps = FALSE
    LastOdmFuse = 1
    Readable <- MCReadable
    Images <- MCImages
    Limited = {"CPU_BL"}
    BinaryTypes = {"CPU_BL", "OTHER"}
    BinaryLevels = {0, 1}
    Enforced = {"later"}
    MaxBoots = 3
INVARIANTS
    TypeOK
    RatchetHolds
    NeverAheadOfImages
    LimitsEnforced
CHECK_DEADLOCK FALSE
