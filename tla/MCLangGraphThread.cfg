SPECIFICATION Spec
CONSTANTS
    Turns = {t1, t2}
    DeviceKeys = {agent1, agent2}
    ChatKeys = {chat}
    Device = device
INVARIANTS
    TypeOK
    ResumeMeetsInterrupt
    QuestionRemembered
    LegacyThreadHasOneOwner
PROPERTIES
    ImplementsServerTurns
SYMMETRY Symmetry
