CONSTANTS
    Recording = {r1, r2}
    None = None
    MaxBytes = 3
    MinBytes = 2
    Chunk = {1, 2}
SPECIFICATION VoiceSpec
CHECK_DEADLOCK FALSE
INVARIANT PcmCleared
