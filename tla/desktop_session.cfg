CONSTANTS
    Config = {"good", "better", "broken", "app", "lifespan", "port"}
    Initial = "good"
    FailsIn <- MCFailsIn
    Keep = 2
    MaxSaves = 4
    Page = {s1, s2}
    Cap = 2
    MaxVersion = 4
    MaxDrops = 1
    Recording = {r1, r2}
    None = None
    MaxBytes = 3
    MinBytes = 2
    Chunk = {1, 2}
SPECIFICATION Spec
INVARIANT BackupOnDisk
INVARIANT EndIsExcused
INVARIANT RollbackIsReported
INVARIANT QueuesGapFree
INVARIANT NothingMissed
INVARIANT EndIsLast
INVARIANT MicrophoneIsActive
INVARIANT NothingCutOff
INVARIANT Released
PROPERTY Resolves
PROPERTY SeesTheEnd
PROPERTY Frees
CHECK_DEADLOCK FALSE
