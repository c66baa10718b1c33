CONSTANTS
    t1 = t1
    t2 = t2
    c1 = c1
    c2 = c2
    Task = {t1, t2}
    Confirmer = {c1}
    NoCall = NoCall
    Call = {"wipe", "vague", "ask", "chat"}
    ChatCall = "chat"
    ToolOf <- MCToolOf
    KnowledgeCall = {"ask"}
    InvalidCall = {"vague"}
    DriftCall = {}
    DeniedCall = {}
    RiskyCall = {"wipe"}
    FreshCall = {}
    MaxStops = 1
SPECIFICATION Spec
INVARIANT CancelEventMeansCancelled
INVARIANT DeliversWhatWasDone
INVARIANT IInv
SYMMETRY Symmetry
CHECK_DEADLOCK FALSE
