CONSTANTS
    Request = {1, 2}
    Level = {"D0", "D2"}
    OpenLevel = {"D0"}
    Provider = {"mock", "cloud", "llamacpp"}
    MaxConcurrency = 1
    Worker = {1, 2}
    Call = {"ask", "create", "complete", "reopen", "delete", "todos"}
    Mutation = {"create", "complete", "reopen", "delete"}
    Unkeyed = {"todos"}
    MutationTtl = 1
    Ttl = 2
    RetryBudget = 1
    MaxMonotonic = 2
    Doc = {"plan"}
    MaxVersion = 2
    MaxReindex = 1
    MaxTodo = 2
    Speaker = {1, 2}
    Spoken = {"t1", "t2"}
    KeepVersions = 2
    MaxWritten = 3
    Client = {1, 2}
    Rate = 1
    Burst = 2
    AttemptBudget = 1
    DegradedTicks = 2
    MaxTick = 4
    FlushSize = 2
    RetentionDays = 1
    MaxEvent = 4
    MaxDay = 3
    MaxFailedWrite = 1
    Reminder = {1}
    Week = 2
    Schedule = {1}
    Pattern <- MCPattern
    Lead = 1
    Grace = 1
    Ahead = 3
    MaxTime = 4
    MaxStops = 1
    LastCase = 2
    ModelAnswer = {"A", "legacy", "unavailable"}
    Decided = {1}
    Open = {2}
    MaxEdit = 1
    MaxRun = 2
    Script = {1, 2}
    Pid = {"p1", "p2"}
    MaxScript = 2
SPECIFICATION Spec
INVARIANT SlotsKept
INVARIANT AnswersAreRecent
INVARIANT TodosAreSound
INVARIANT NewestOnDisk
INVARIANT RateRespected
INVARIANT AuditKeepsAll
INVARIANT NoWeekSkipped
INVARIANT RepeatsAreTorn
INVARIANT ToldAtMostOnce
INVARIANT MissedOnlyWhileDown
INVARIANT ReplayAgrees
INVARIANT NothingLeftBehind
PROPERTY NoRepeatInWindow
PROPERTY OnlyServicesStopped
PROPERTY ImplementsService
PROPERTY DueIsCalled
CHECK_DEADLOCK FALSE
