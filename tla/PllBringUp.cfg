\* Any four calls, and locks that arrive at any poll or never.
SPECIFICATION Spec
CONSTANTS
    Polls = 2
    ChannelChoices = {{"PLLM"}, {"PLLMSB"}, {"PLLM", "PLLMSB"}}
    MaxCalls = 4
INVARIANTS
    StaysUp
PROPERTIES
    EnabledInOrder
    CallsReturn
CHECK_DEADLOCK FALSE
