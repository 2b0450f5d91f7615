SPECIFICATION Spec
CONSTANTS
    Turns = {t1}
    DeviceKeys = {agent}
    ChatKeys = {}
    Device = device
PROPERTIES
    AnswerResumes
