CONSTANTS
    Binaries <- MCBinaries
    Tables <- MCTables
    Builds <- MCBuilds
    HEADER_SIZE = 2
    SIGNED_SECTION_LEN = 1
    ONE_KB = 2
    FULL_BINARY_VERIFY_THRESHOLD = 5
    DestSize = 5
    DestAddr = 0
    NewAddr = 10
    Elsewhere = 20
    Memory <- MCMemory
    MaxBinaries = 2
SPECIFICATION Spec
INVARIANTS VerifiedMeansIntact IntactIsVerified ModeOfFuses
PROPERTIES ContextsClosed
CHECK_DEADLOCK FALSE
