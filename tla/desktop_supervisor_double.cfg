CONSTANTS
    Config = {"good", "app"}
    Initial = "good"
    FailsIn <- MCFailsIn
    Keep = 2
    MaxSaves = 2
    Page = {s1}
    Cap = 1
    MaxVersion = 1
    MaxDrops = 0
    Recording = {r1}
    None = None
    MaxBytes = 1
    MinBytes = 1
    Chunk = {1}
SPECIFICATION Spec
INVARIANT OldConfigReturns
CHECK_DEADLOCK FALSE
