\* Any five calls, stages of the boot among them, on modules that share registers or PLLs.
SPECIFICATION Spec
CONSTANTS
    SourceRate <- MCSourceRate
    DivValues = 32
    Rates = {130, 1000}
    Groups <- MCGroups
    MaxCalls = 5
INVARIANTS
    RegistersAsCached
    CanResume
    RatedRuns
PROPERTIES
    ResumesAsLeft
CHECK_DEADLOCK FALSE
