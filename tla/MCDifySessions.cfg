SPECIFICATION Spec
CONSTANTS
    Turns = {t1, t2}
    DeviceKeys = {agent1, agent2}
    ChatKeys = {}
    LegacyKey = device
    None = None
    MaxConversations = 2
    MaxAdapters = 2
INVARIANTS
    TypeOK
    OneAgentPerConversation
    ForgottenStaysForgotten
    SavedWhenUnlocked
PROPERTIES
    ImplementsServerTurns
SYMMETRY Symmetry
