SPECIFICATION Spec
CONSTANTS
    Turns = {t1, t2}
    DeviceKeys = {agent1}
    ChatKeys = {chat}
    LegacyKey = device
    None = None
    MaxConversations = 3
    MaxAdapters = 1
INVARIANTS
    OnlyRejectedForgotten
