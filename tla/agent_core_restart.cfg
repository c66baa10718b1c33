CONSTANTS
    t1 = t1
    t2 = t2
    c1 = c1
    c2 = c2
    Task = {t1}
    Confirmer = {c1}
    NoCall = NoCall
    Call = {"chat"}
    ChatCall = "chat"
    ToolOf <- MCToolOf
    KnowledgeCall = {}
    InvalidCall = {}
    DriftCall = {}
    DeniedCall = {}
    RiskyCall = {}
    FreshCall = {}
    MaxStops = 1
SPECIFICATION FairSpec
PROPERTY RecoversAfterRestart
CHECK_DEADLOCK FALSE
