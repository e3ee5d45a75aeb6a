CONSTANTS
    Maps <- MCMaps
    SDRAM_START = 2
    SDRAM_END = 26
    U_BOOT_TOP = 22
    WORD = 32
    HEADERS = 1
    MEM_SZ_2MB = 2
    Loads <- MCLoads
    PartitionSizes = {2, 5}
    ImageSizes = {2}
    TopSizes = {1}
SPECIFICATION Spec
INVARIANTS RegionsAreUsable LoadsApart ListIsHeld
CHECK_DEADLOCK FALSE
