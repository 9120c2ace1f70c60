\* Three configurations or requests, one command, and two sockets that may be
\* lost.  Both processes may die: then nothing more happens.
SPECIFICATION FairSpec
CONSTANTS
    QueueMax = 1
    MaxFds = 2
    MaxMsgs = 3
    MaxCmds = 1
CHECK_DEADLOCK FALSE
INVARIANTS
    TypeOK
    RoundsConsistent
    RoundsFresh
    SocketsReturned
    CommandsAccounted
PROPERTIES
    ConfigApplied
    ConfigTakesHold
