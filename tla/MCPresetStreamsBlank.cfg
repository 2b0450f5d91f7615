SPECIFICATION Spec
CONSTANTS
    Calls = {c1, c2}
    MaxEvents = 3
    MaxListed = 2
INVARIANT
    N8nNeverEndsOnToolResult
CHECK_DEADLOCK FALSE
