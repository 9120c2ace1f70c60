SPECIFICATION FairSpec
CONSTANTS
    Workers = {w1, w2}
    Commands <- AllCommands
    MaxCmds = 3
    QueueMax = 2
    Freq = 1
    NoFile = NoFile
CHECK_DEADLOCK FALSE
INVARIANTS
    RingRestoresVolume
PROPERTIES
    RecordingReleased
    StopConsumed
