CONSTANTS
    t1 = t1
    t2 = t2
    c1 = c1
    c2 = c2
    Task = {t1}
    Confirmer = {c1, c2}
    NoCall = NoCall
    Call = {"remind", "wipe", "vague", "ask", "chat", "drift", "barred", "query"}
    ChatCall = "chat"
    ToolOf <- MCToolOf
    KnowledgeCall = {"ask"}
    InvalidCall = {"vague"}
    DriftCall = {"drift"}
    DeniedCall = {"barred"}
    RiskyCall = {"wipe"}
    FreshCall = {"query"}
    MaxStops = 2
SPECIFICATION FairSpec
INVARIANT SingleRunner
INVARIANT EffectOnce
INVARIANT EffectsPermitted
PROPERTY NoToolAfterEnd
PROPERTY ImplementsLifecycle
PROPERTY Settles
CHECK_DEADLOCK FALSE
