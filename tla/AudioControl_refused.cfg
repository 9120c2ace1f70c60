SPECIFICATION Spec
CONSTANTS
    Workers = {w1, w2}
    Commands <- ActivityCommands
    MaxCmds = 3
    QueueMax = 2
    Freq = 1
    NoFile = NoFile
CHECK_DEADLOCK FALSE
PROPERTIES
    RefusedOnlyWhilePlaying
