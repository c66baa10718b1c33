CONSTANTS
    Worker = {1, 2}
    Call = {"ask", "create"}
    Mutation = {"create"}
    Unkeyed = {}
    MutationTtl = 1
    Ttl = 2
    RetryBudget = 0
    MaxMonotonic = 1
    Doc = {"plan"}
    MaxVersion = 1
    MaxReindex = 0
    MaxTodo = 2
SPECIFICATION ToolboxSpec
PROPERTY DoubleClicksAbsorbed
CHECK_DEADLOCK FALSE
