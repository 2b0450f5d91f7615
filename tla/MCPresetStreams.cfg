SPECIFICATION Spec
CONSTANTS
    Calls = {c1, c2}
    MaxEvents = 7
    MaxListed = 2
INVARIANTS
    TypeOK
    ReplacedAnswerUnspoken
    ToolsInOrder
    ReplyStaysWhole
    RetriesAreBounded
PROPERTIES
    ImplementsContract
CHECK_DEADLOCK FALSE
