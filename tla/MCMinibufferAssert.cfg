SPECIFICATION Spec
CONSTANTS
    Toolkits = {"gtk"}
    MaxCalls = 7
    MaxPumps = 0
    MaxLoops = 2
    MaxUpset = 1
    CharHeight = 2
    Heights = {3}
CHECK_DEADLOCK FALSE
INVARIANT AssertHolds
