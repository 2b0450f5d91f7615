SPECIFICATION Spec
CONSTANTS
    MaxLine = 2
    Open <- OpenTag
    Close <- CloseTag
    MaxBytes = 7
    MaxChunk = 3
INVARIANTS
    TypeOK
    FramesTheBytes
    ReasoningIsStripped
CHECK_DEADLOCK FALSE
