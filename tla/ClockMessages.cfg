\* Three calls of one part of the interface, and one message that is lost.
CONSTANTS
    Menus <- MCMenus
    MaxCalls = 3
    MaxLost = 1
SPECIFICATION Spec
INVARIANTS SuccessMeansDone UfsInOrder
PROPERTIES InitPllDisturbsNone
CHECK_DEADLOCK FALSE
