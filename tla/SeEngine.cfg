CONSTANTS
    Contexts <- MCContexts
    Param <- MCParam
    AesSlots = {1, 14}
    InitialKeys <- MCInitialKeys
    WriteLocked = {1}
    RsaSlots = {0}
    RsaKeys = {"pub"}
    Signatures <- MCSignatures
    SE_AES_MAX_INPUT_SIZE = 2
    SE_SHA_MAX_INPUT_SIZE = 3
    SHA_INPUT_BLOCK_SZ = 1
    Workloads <- MCWorkloads
    MaxCalls = 3
    MaxOther = 1
SPECIFICATION Spec
INVARIANTS OtherKeepsUnit
PROPERTIES CipherIsChained MacOfSlotKey DigestOfMessage VerifiedMeansSigned EveryCallReturns
CHECK_DEADLOCK FALSE
