CONSTANTS
    Worker = {1, 2}
    Call = {"ask"}
    Mutation = {}
    Unkeyed = {}
    MutationTtl = 1
    Ttl = 2
    RetryBudget = 0
    MaxMonotonic = 2
    Doc = {"plan"}
    MaxVersion = 2
    MaxReindex = 1
    MaxTodo = 1
SPECIFICATION ToolboxSpec
INVARIANT IndexFollowsFiles
CHECK_DEADLOCK FALSE
