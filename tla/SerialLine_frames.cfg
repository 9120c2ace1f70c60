\* Frames, failing reads and short buffers, two queues.
SPECIFICATION FairSpec
CONSTANTS
    Plain <- OnePlain
    BufSize = 5
    QueueMax = 2
    MaxBytes = 5
    MaxErrors = 1
    MaxCmds = 1
    MaxQueues = 3
CHECK_DEADLOCK FALSE
INVARIANTS
    TypeOK
    FramesAreSent
    FramesArrive
    FramesAccounted
PROPERTIES
    CommandsTried
