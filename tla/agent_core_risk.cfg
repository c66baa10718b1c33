CONSTANTS
    t1 = t1
    t2 = t2
    c1 = c1
    c2 = c2
    Task = {t1}
    Confirmer = {c1}
    NoCall = NoCall
    Call = {"wipe", "vague", "chat"}
    ChatCall = "chat"
    ToolOf <- MCToolOf
    KnowledgeCall = {}
    InvalidCall = {"vague"}
    DriftCall = {}
    DeniedCall = {}
    RiskyCall = {"wipe"}
    FreshCall = {}
    MaxStops = 0
SPECIFICATION Spec
INVARIANT RiskShownFirst
CHECK_DEADLOCK FALSE
