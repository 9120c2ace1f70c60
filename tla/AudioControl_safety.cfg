SPECIFICATION Spec
CONSTANTS
    Workers = {w1, w2, w3}
    Commands <- ActivityCommands
    MaxCmds = 4
    QueueMax = 2
    Freq = 2
    NoFile = NoFile
CHECK_DEADLOCK FALSE
SYMMETRY Slots
INVARIANTS
    TypeOK
    RecorderExclusion
    OwnRecording
    PlaybackExclusion
    NoOrphanFlag
