SPECIFICATION Spec
CONSTANTS
    Agents = {agent}
    Tasks = {task}
    Requests = {r1, r2}
    Threshold = 3
    MaxSetups = 2
    MaxCount = 3
INVARIANTS
    TypeOK
    EntitiesAgree
    NoneStuckUnavailable
    IssueTracksAdapter
    AnswerIsRecorded
    OutageIsCounted
    RejectionStartsReauth
    RemovalClearsIssue
CHECK_DEADLOCK FALSE
